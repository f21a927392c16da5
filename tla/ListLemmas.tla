----------------------------- MODULE ListLemmas -----------------------------
(***************************************************************************)
(* Facts about the sequences the replacer's lists, the disk manager's      *)
(* freelist and the slots of a page are modelled by: what one operation    *)
(* does to the members of a list.  And an induction over positions, stated *)
(* of a set so that the provers can instantiate it, with what follows from *)
(* it: finite sets can be put in order, and a recursion over positions has *)
(* a value.                                                                *)
(***************************************************************************)
EXTENDS Integers, Sequences, SequencesExt, SequenceTheorems, FiniteSetTheorems, WellFoundedInduction, TLAPS

(* A new first element keeps the list without repeats if it is new to it.   *)
LEMMA Pushed ==
  ASSUME NEW S, NEW list \in Seq(S), NEW x \in S
  PROVE  /\ <<x>> \o list \in Seq(S)
         /\ Len(<<x>> \o list) = Len(list) + 1
         /\ Range(<<x>> \o list) = Range(list) \cup {x}
         /\ IsInjective(list) /\ x \notin Range(list) => IsInjective(<<x>> \o list)
  <1> DEFINE r == <<x>> \o list
  <1>1. r \in Seq(S) /\ Len(r) = Len(list) + 1 /\ Len(list) \in Nat
    OBVIOUS
  <1>2. DOMAIN r = 1..(Len(list) + 1) /\ DOMAIN list = 1..Len(list)
    BY <1>1
  <1>3. r[1] = x /\ \A i \in DOMAIN list : r[i + 1] = list[i]
    OBVIOUS
  <1>4. \A i \in DOMAIN r : i = 1 \/ (i - 1 \in DOMAIN list /\ r[i] = list[i - 1])
    BY <1>1, <1>2, <1>3
  <1>5. Range(r) = Range(list) \cup {x}
    <2> HIDE DEF r
    <2>1. ASSUME NEW i \in DOMAIN r PROVE r[i] \in Range(list) \cup {x}
      BY <1>3, <1>4 DEF Range
    <2>2. x \in Range(r)
      BY <1>1, <1>2, <1>3 DEF Range
    <2>3. ASSUME NEW i \in DOMAIN list PROVE list[i] \in Range(r)
      <3> i + 1 \in DOMAIN r /\ r[i + 1] = list[i]
        BY <1>1, <1>2, <1>3
      <3> QED
        BY DEF Range
    <2> QED
      BY <2>1, <2>2, <2>3 DEF Range
  <1>6. ASSUME IsInjective(list), x \notin Range(list) PROVE IsInjective(r)
    <2> HIDE DEF r
    <2> SUFFICES ASSUME NEW a \in DOMAIN r, NEW b \in DOMAIN r, r[a] = r[b] PROVE a = b
      BY DEF IsInjective
    <2>1. CASE a = 1 \/ b = 1
      BY <1>3, <1>4, <1>6, <2>1 DEF Range
    <2>2. CASE a # 1 /\ b # 1
      BY <1>1, <1>2, <1>4, <1>6, <2>2 DEF IsInjective
    <2> QED
      BY <2>1, <2>2
  <1> QED
    BY <1>1, <1>5, <1>6

(* So does a new last element. *)
LEMMA Appended ==
  ASSUME NEW S, NEW list \in Seq(S), NEW x \in S
  PROVE  /\ Append(list, x) \in Seq(S)
         /\ Range(Append(list, x)) = Range(list) \cup {x}
         /\ IsInjective(list) /\ x \notin Range(list) => IsInjective(Append(list, x))
  <1> DEFINE r == Append(list, x)
  <1>1. r \in Seq(S) /\ Len(r) = Len(list) + 1 /\ Len(list) \in Nat
    OBVIOUS
  <1>2. DOMAIN r = 1..(Len(list) + 1) /\ DOMAIN list = 1..Len(list)
    BY <1>1
  <1>3. r[Len(list) + 1] = x /\ \A i \in DOMAIN list : r[i] = list[i]
    OBVIOUS
  <1>4. \A i \in DOMAIN r : i = Len(list) + 1 \/ (i \in DOMAIN list /\ r[i] = list[i])
    BY <1>1, <1>2, <1>3
  <1> HIDE DEF r
  <1>5. Range(r) = Range(list) \cup {x}
    BY <1>1, <1>2, <1>3, <1>4 DEF Range
  <1>6. ASSUME IsInjective(list), x \notin Range(list) PROVE IsInjective(r)
    BY <1>1, <1>2, <1>3, <1>4, <1>6 DEF IsInjective, Range
  <1> QED
    BY <1>1, <1>5, <1>6 DEF r

(* The list without its last element. *)
LEMMA Popped ==
  ASSUME NEW S, NEW list \in Seq(S), list # <<>>
  PROVE  /\ Front(list) \in Seq(S)
         /\ Len(Front(list)) = Len(list) - 1
         /\ Range(Front(list)) \subseteq Range(list)
         /\ Last(list) \in Range(list)
         /\ IsInjective(list) => /\ IsInjective(Front(list))
                                /\ Range(Front(list)) = Range(list) \ {Last(list)}
  <1>1. Len(list) \in Nat \ {0} /\ DOMAIN list = 1..Len(list)
    OBVIOUS
  <1>2. /\ Front(list) \in Seq(S) /\ Len(Front(list)) = Len(list) - 1
        /\ DOMAIN Front(list) = 1..(Len(list) - 1)
        /\ \A i \in 1..(Len(list) - 1) : Front(list)[i] = list[i]
    BY <1>1 DEF Front
  <1>3. Range(Front(list)) \subseteq Range(list)
    BY <1>1, <1>2 DEF Range
  <1>4. IsInjective(list) => IsInjective(Front(list))
    BY <1>1, <1>2 DEF IsInjective
  <1>5. Last(list) = list[Len(list)] /\ Last(list) \in Range(list)
    BY <1>1 DEF Last, Range
  <1>6. ASSUME IsInjective(list)
        PROVE  Range(Front(list)) = Range(list) \ {Last(list)}
    <2>1. \A i \in DOMAIN list : i \in 1..(Len(list) - 1) \/ i = Len(list)
      BY <1>1
    <2>2. ASSUME NEW i \in 1..(Len(list) - 1) PROVE list[i] # Last(list)
      BY <1>1, <1>5, <1>6 DEF IsInjective
    <2>3. ASSUME NEW i \in DOMAIN list, list[i] # Last(list) PROVE list[i] \in Range(Front(list))
      BY <1>2, <1>5, <2>1, <2>3 DEF Range
    <2> QED
      BY <1>2, <1>3, <2>2, <2>3 DEF Range
  <1> QED
    BY <1>2, <1>3, <1>4, <1>5, <1>6

(* The list without its first element. *)
LEMMA Rest ==
  ASSUME NEW S, NEW list \in Seq(S), list # <<>>
  PROVE  /\ Tail(list) \in Seq(S)
         /\ Len(Tail(list)) = Len(list) - 1
         /\ \A i \in 1..(Len(list) - 1) : Tail(list)[i] = list[i + 1]
         /\ Range(Tail(list)) \subseteq Range(list)
         /\ list[1] \in Range(list)
         /\ IsInjective(list) => /\ IsInjective(Tail(list))
                                /\ Range(Tail(list)) = Range(list) \ {list[1]}
  <1>1. Len(list) \in Nat \ {0} /\ DOMAIN list = 1..Len(list)
    OBVIOUS
  <1>2. /\ Tail(list) \in Seq(S) /\ Len(Tail(list)) = Len(list) - 1
        /\ DOMAIN Tail(list) = 1..(Len(list) - 1)
        /\ \A i \in 1..(Len(list) - 1) : Tail(list)[i] = list[i + 1]
    BY <1>1
  <1>3. \A i \in 1..(Len(list) - 1) : i + 1 \in DOMAIN list
    BY <1>1
  <1>4. Range(Tail(list)) \subseteq Range(list) /\ list[1] \in Range(list)
    BY <1>1, <1>2, <1>3 DEF Range
  <1>5. ASSUME IsInjective(list)
        PROVE  IsInjective(Tail(list)) /\ Range(Tail(list)) = Range(list) \ {list[1]}
    <2>1. IsInjective(Tail(list))
      BY <1>1, <1>2, <1>5 DEF IsInjective
    <2>2. ASSUME NEW i \in 1..(Len(list) - 1) PROVE list[i + 1] # list[1]
      BY <1>1, <1>5 DEF IsInjective
    <2>3. ASSUME NEW i \in DOMAIN list, list[i] # list[1] PROVE list[i] \in Range(Tail(list))
      <3>1. i - 1 \in 1..(Len(list) - 1) /\ (i - 1) + 1 = i
        BY <1>1, <2>3
      <3>2. Tail(list)[i - 1] = list[i]
        BY <1>2, <3>1
      <3> QED
        BY <1>2, <3>1, <3>2 DEF Range
    <2> QED
      BY <1>2, <1>4, <2>1, <2>2, <2>3 DEF Range
  <1> QED
    BY <1>2, <1>4, <1>5

(* erase of one place: what comes behind it moves up. *)
LEMMA RemovedAt ==
  ASSUME NEW S, NEW list \in Seq(S), NEW n \in DOMAIN list
  PROVE  /\ RemoveAt(list, n) \in Seq(S) /\ Len(RemoveAt(list, n)) = Len(list) - 1
         /\ DOMAIN RemoveAt(list, n) = 1..(Len(list) - 1)
         /\ \A i \in 1..(Len(list) - 1) :
              RemoveAt(list, n)[i] = IF i < n THEN list[i] ELSE list[i + 1]
  <1> DEFINE r == RemoveAt(list, n)
             a == SubSeq(list, 1, n - 1)
             b == SubSeq(list, n + 1, Len(list))
  <1>1. /\ Len(list) \in Nat /\ DOMAIN list = 1..Len(list)
        /\ n \in Nat /\ 1 <= n /\ n <= Len(list)
    OBVIOUS
  <1>2. a \in Seq(S) /\ Len(a) = n - 1 /\ \A i \in 1..(n - 1) : a[i] = list[i]
    BY <1>1
  <1>3. b \in Seq(S) /\ Len(b) = Len(list) - n /\ \A i \in 1..(Len(list) - n) : b[i] = list[i + n]
    BY <1>1
  <1>4. r = a \o b
    BY DEF RemoveAt
  <1> HIDE DEF a, b, r
  <1>5. r \in Seq(S) /\ Len(r) = Len(list) - 1 /\ DOMAIN r = 1..(Len(list) - 1)
    <2>1. r \in Seq(S)
      BY <1>2, <1>3, <1>4
    <2>2. Len(r) = Len(a) + Len(b)
      BY <1>2, <1>3, <1>4, ConcatProperties
    <2>3. DOMAIN r = 1..Len(r)
      BY <2>1
    <2>4. Len(a) + Len(b) = Len(list) - 1
      BY <1>1, <1>2, <1>3
    <2> QED
      BY <2>1, <2>2, <2>3, <2>4
  <1>6. ASSUME NEW i \in 1..(Len(list) - 1) PROVE r[i] = IF i < n THEN list[i] ELSE list[i + 1]
    <2>1. CASE i < n
      BY <1>1, <1>2, <1>3, <1>4, <2>1
    <2>2. CASE ~(i < n)
      <3>1. r[i] = b[i - (n - 1)]
        BY <1>1, <1>2, <1>3, <1>4, <2>2, SMTT(60)
      <3>2. i - (n - 1) \in 1..(Len(list) - n)
        BY <1>1, <2>2
      <3>3. b[i - (n - 1)] = list[i - (n - 1) + n]
        BY <1>3, <3>2
      <3>4. i - (n - 1) + n = i + 1
        BY <1>1
      <3> QED
        BY <2>2, <3>1, <3>3, <3>4
    <2> QED
      BY <2>1, <2>2
  <1> QED
    BY <1>5, <1>6 DEF r

(* The list with one element more, anywhere in it. *)
IsInsertion(longer, list, n, x, S) ==
  /\ longer \in Seq(S) /\ Len(longer) = Len(list) + 1
  /\ \A i \in 1..(Len(list) + 1) :
       longer[i] = IF i < n THEN list[i] ELSE IF i = n THEN x ELSE list[i - 1]

LEMMA InsertedAt ==
  ASSUME NEW S, NEW list \in Seq(S), NEW n \in 1..(Len(list) + 1), NEW x \in S
  PROVE  IsInsertion(InsertAt(list, n, x), list, n, x, S)
  <1> DEFINE r == InsertAt(list, n, x)
             a == SubSeq(list, 1, n - 1)
             b == SubSeq(list, n, Len(list))
             ax == a \o <<x>>
  <1>1. Len(list) \in Nat /\ n \in Nat /\ 1 <= n /\ n <= Len(list) + 1
    OBVIOUS
  <1>2. a \in Seq(S) /\ Len(a) = n - 1 /\ \A i \in 1..(n - 1) : a[i] = list[i]
    BY <1>1
  <1>3. b \in Seq(S) /\ Len(b) = Len(list) - n + 1 /\ \A i \in 1..(Len(list) - n + 1) : b[i] = list[i + n - 1]
    BY <1>1
  <1>4. r = ax \o b
    BY DEF InsertAt
  <1> HIDE DEF a, b, r
  <1>5. ax \in Seq(S) /\ Len(ax) = n /\ ax[n] = x /\ \A i \in 1..(n - 1) : ax[i] = list[i]
    BY <1>1, <1>2
  <1> HIDE DEF ax
  <1>6. /\ r \in Seq(S) /\ Len(r) = Len(list) + 1
        /\ \A i \in 1..(Len(list) + 1) : r[i] = IF i <= n THEN ax[i] ELSE b[i - n]
    <2>1. /\ r \in Seq(S) /\ Len(r) = Len(ax) + Len(b)
          /\ \A i \in 1..(Len(ax) + Len(b)) : r[i] = IF i <= Len(ax) THEN ax[i] ELSE b[i - Len(ax)]
      BY <1>3, <1>4, <1>5, ConcatProperties
    <2>2. Len(ax) = n /\ Len(ax) + Len(b) = Len(list) + 1
      BY <1>1, <1>3, <1>5
    <2> QED
      BY <2>1, <2>2
  <1>7. ASSUME NEW i \in 1..(Len(list) + 1)
        PROVE  r[i] = IF i < n THEN list[i] ELSE IF i = n THEN x ELSE list[i - 1]
    <2>1. CASE i <= n
      BY <1>1, <1>5, <1>6, <2>1
    <2>2. CASE i > n
      <3>1. i - n \in 1..(Len(list) - n + 1) /\ (i - n) + n - 1 = i - 1
        BY <1>1, <2>2
      <3>2. r[i] = b[i - n]
        BY <1>1, <1>6, <2>2
      <3>3. b[i - n] = list[i - 1]
        BY <1>3, <3>1
      <3> QED
        BY <1>1, <2>2, <3>2, <3>3
    <2> QED
      BY <1>1, <2>1, <2>2
  <1> QED
    BY <1>6, <1>7 DEF r, IsInsertion

(* A set of numbers that holds 0 and, with each number below n, the next    *)
(* one holds all of 0..n: otherwise the least number that is missing would  *)
(* follow one that is not.                                                  *)
LEMMA Counting ==
  ASSUME NEW n \in Nat, NEW S, 0 \in S, \A i \in 0..(n - 1) : i \in S => i + 1 \in S
  PROVE  \A i \in 0..n : i \in S
  <1> DEFINE Missing == {i \in 0..n : i \notin S}
             Less == {ss \in Nat \X Nat : ss[1] < ss[2]}
  <1> SUFFICES ASSUME Missing # {} PROVE FALSE
    OBVIOUS
  <1>1. IsWellFoundedOn(Less, Nat)
    <2> Less = OpToRel(<, Nat)
      BY DEF OpToRel
    <2> QED
      BY NatLessThanWellFounded
  <1>2. \A i, j \in Nat : i < j => <<i, j>> \in Less
    OBVIOUS
  <1>3. Missing \subseteq Nat
    OBVIOUS
  <1>4. PICK m \in Missing : \A i \in Missing : <<i, m>> \notin Less
    <2> HIDE DEF Missing, Less
    <2> QED
      BY <1>1, <1>3, WFMin
  <1> HIDE DEF Less
  <1>5. m \in 1..n /\ m - 1 \in 0..(n - 1) /\ m - 1 < m
    BY <1>4
  <1>6. m - 1 \in S
    <2>1. <<m - 1, m>> \in Less
      BY <1>2, <1>5
    <2>2. m - 1 \notin Missing
      BY <1>4, <2>1
    <2> QED
      BY <1>5, <2>2
  <1> QED
    BY <1>4, <1>5, <1>6

-----------------------------------------------------------------------------
(* Finite sets, put in order.                                              *)

(* A proper subset has fewer. *)
LEMMA FewerIn ==
  ASSUME NEW S, IsFiniteSet(S), NEW T, T \subseteq S, NEW x \in S, x \notin T
  PROVE  IsFiniteSet(T) /\ Cardinality(T) \in Nat /\ Cardinality(T) < Cardinality(S)
  <1>1. T \in SUBSET S /\ T # S
    OBVIOUS
  <1>2. IsFiniteSet(T) /\ Cardinality(T) <= Cardinality(S) /\ Cardinality(T) # Cardinality(S)
    BY <1>1, FS_Subset
  <1>3. Cardinality(T) \in Nat /\ Cardinality(S) \in Nat
    BY <1>2, FS_CardinalityType
  <1> QED
    BY <1>2, <1>3

(* The members of a finite set, each with a key of its own, can be put in  *)
(* the order of their keys.                                                *)
LEMMA CanBeOrdered ==
  ASSUME NEW S, IsFiniteSet(S), NEW key, \A i \in S : key[i] \in Int,
         \A i, j \in S : key[i] = key[j] => i = j
  PROVE  \E order \in [1..Cardinality(S) -> S] :
           \A j, k \in 1..Cardinality(S) : j < k => key[order[j]] < key[order[k]]
  <1> DEFINE n == Cardinality(S)
             upTo(i) == {j \in S : key[j] <= key[i]}
             rank == [i \in S |-> Cardinality(upTo(i))]
  <1>1. n \in Nat
    BY FS_CardinalityType
  <1>2. ASSUME NEW i \in S PROVE rank[i] \in 1..n
    <2>1. upTo(i) \in SUBSET S /\ i \in upTo(i)
      OBVIOUS
    <2>2. IsFiniteSet(upTo(i)) /\ Cardinality(upTo(i)) <= n
      BY <2>1, FS_Subset
    <2>3. Cardinality(upTo(i)) \in Nat /\ Cardinality(upTo(i)) # 0
      BY <2>1, <2>2, FS_CardinalityType, FS_EmptySet
    <2> HIDE DEF upTo
    <2> QED
      BY <1>1, <2>2, <2>3
  <1>3. ASSUME NEW i \in S, NEW j \in S, key[i] < key[j] PROVE rank[i] < rank[j]
    <2>1. upTo(i) \subseteq upTo(j) /\ j \in upTo(j) /\ j \notin upTo(i)
      BY <1>3
    <2>2. upTo(j) \in SUBSET S
      OBVIOUS
    <2>3. IsFiniteSet(upTo(j))
      BY <2>2, FS_Subset
    <2> HIDE DEF upTo
    <2> QED
      BY <2>1, <2>3, FewerIn
  <1> HIDE DEF upTo
  <1>4. rank \in Injection(S, 1..n)
    <2>1. rank \in [S -> 1..n]
      BY <1>2
    <2>2. ASSUME NEW i \in S, NEW j \in S, rank[i] = rank[j] PROVE i = j
      <3>1. rank[i] \in Int /\ rank[j] \in Int
        BY <1>1, <1>2
      <3> HIDE DEF rank
      <3>2. ~(key[i] < key[j]) /\ ~(key[j] < key[i])
        BY <1>3, <2>2, <3>1
      <3> QED
        BY <3>2
    <2> QED
      BY <2>1, <2>2 DEF Injection, IsInjective
  <1>5. rank \in Surjection(S, 1..n)
    <2>1. IsFiniteSet(1..n) /\ Cardinality(1..n) = n
      BY <1>1, FS_Interval
    <2> HIDE DEF rank
    <2> QED
      BY <1>4, <2>1, FS_Injection
  <1>6. \A k \in 1..n : \E i \in S : rank[i] = k
    BY <1>5 DEF Surjection
  <1> DEFINE order == [k \in 1..n |-> CHOOSE i \in S : rank[i] = k]
  <1>7. \A k \in 1..n : order[k] \in S /\ rank[order[k]] = k
    BY <1>6
  <1> HIDE DEF rank
  <1>8. order \in [1..n -> S]
    BY <1>7
  <1>9. ASSUME NEW j \in 1..n, NEW k \in 1..n, j < k PROVE key[order[j]] < key[order[k]]
    <2>1. key[order[j]] \in Int /\ key[order[k]] \in Int
      BY <1>7
    <2>2. rank[order[j]] = j /\ rank[order[k]] = k /\ order[j] \in S /\ order[k] \in S
      BY <1>7
    <2> HIDE DEF order
    <2>3. CASE key[order[j]] = key[order[k]]
      <3>1. order[j] = order[k]
        BY <2>2, <2>3
      <3> QED
        BY <1>1, <1>9, <2>2, <3>1
    <2>4. CASE key[order[k]] < key[order[j]]
      <3>1. k < j
        BY <1>3, <2>2, <2>4
      <3> QED
        BY <1>1, <1>9, <3>1
    <2> QED
      BY <2>1, <2>3, <2>4
  <1> HIDE DEF order
  <1> QED
    BY <1>8, <1>9

(* n members of S, none twice. *)
Enumerates(order, n, S) ==
  /\ order \in [1..n -> S]
  /\ \A j, k \in 1..n : j < k => order[j] # order[k]

(* Those are all of them, if there are n. *)
LEMMA OrderIsOnto ==
  ASSUME NEW S, IsFiniteSet(S), NEW n, n = Cardinality(S), NEW order, Enumerates(order, n, S)
  PROVE  /\ \A j, k \in 1..n : order[j] = order[k] => j = k
         /\ \A i \in S : \E k \in 1..n : order[k] = i
  <1> USE DEF Enumerates
  <1>1. n \in Nat
    BY FS_CardinalityType
  <1>2. \A j, k \in 1..n : order[j] = order[k] => j = k
    BY <1>1
  <1>3. order \in Injection(1..n, S)
    BY <1>2 DEF Injection, IsInjective
  <1>4. IsFiniteSet(1..n) /\ Cardinality(1..n) = n
    BY <1>1, FS_Interval
  <1>5. order \in Surjection(1..n, S)
    BY <1>3, <1>4, FS_Injection
  <1> QED
    BY <1>1, <1>2, <1>5 DEF Surjection

-----------------------------------------------------------------------------
(* step[i] makes the value at i of the one before.                         *)
Recurs(u, N, first, step) == u[0] = first /\ \A i \in 1..N : u[i] = step[i][u[i - 1]]

(* A recursion over the positions of a list has a value.                   *)
LEMMA Recursion ==
  ASSUME NEW N \in Nat, NEW D, NEW first \in D, NEW step \in [1..N -> [D -> D]]
  PROVE  \E u \in [0..N -> D] : Recurs(u, N, first, step)
  <1> DEFINE Does(u, n) == u[0] = first /\ \A i \in 1..n : u[i] = step[i][u[i - 1]]
             S == {n \in 0..N : \E u \in [0..n -> D] : Does(u, n)}
  <1>1. 0 \in S
    <2> DEFINE u == [i \in 0..0 |-> first]
    <2>1. u \in [0..0 -> D] /\ u[0] = first
      OBVIOUS
    <2>2. Does(u, 0) /\ 0 \in 0..N
      BY <2>1
    <2> HIDE DEF u, Does
    <2> QED
      BY <2>1, <2>2
  <1>2. ASSUME NEW n \in 0..(N - 1), n \in S PROVE n + 1 \in S
    <2>1. PICK u \in [0..n -> D] : Does(u, n)
      BY <1>2
    <2> DEFINE w == [i \in 0..(n + 1) |-> IF i = n + 1 THEN step[n + 1][u[n]] ELSE u[i]]
    <2>2. n + 1 \in 1..N /\ n \in 0..n /\ u[n] \in D
      OBVIOUS
    <2>3. step[n + 1][u[n]] \in D
      BY <2>2
    <2>4. w \in [0..(n + 1) -> D] /\ w[n + 1] = step[n + 1][u[n]] /\ \A i \in 0..n : w[i] = u[i]
      BY <2>3
    <2> HIDE DEF w
    <2>5. ASSUME NEW i \in 1..(n + 1) PROVE w[i] = step[i][w[i - 1]]
      <3>1. CASE i = n + 1
        BY <2>2, <2>4, <3>1
      <3>2. CASE i \in 1..n
        <4>1. i \in 0..n /\ i - 1 \in 0..n
          BY <3>2
        <4> QED
          BY <2>1, <2>4, <3>2, <4>1
      <3> QED
        BY <3>1, <3>2
    <2>6. w[0] = first
      BY <2>1, <2>4
    <2> QED
      BY <2>4, <2>5, <2>6
  <1> HIDE DEF S
  <1>3. N \in S
    <2>1. \A n \in 0..(N - 1) : n \in S => n + 1 \in S
      BY <1>2
    <2>2. \A n \in 0..N : n \in S
      BY <1>1, <2>1, Counting
    <2> QED
      BY <2>2
  <1> QED
    BY <1>3 DEF S, Recurs
=============================================================================
