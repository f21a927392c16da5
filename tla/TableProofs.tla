----------------------------- MODULE TableProofs -----------------------------
(***************************************************************************)
(* Proofs about MCTable, for every finite set of keys, every set of fields *)
(* and of their values: an index agrees with the rows it was built from    *)
(* for as long as rows were only added under new keys.                     *)
(***************************************************************************)
EXTENDS MCTable, ListLemmas, FiniteSetTheorems, SequenceTheorems

-----------------------------------------------------------------------------
(* Lists.                                                                  *)

(* Ascending lists the members of a finite set of numbers, each once.      *)
LEMMA Sorted ==
  ASSUME NEW S, IsFiniteSet(S), S \subseteq Int
  PROVE  /\ Ascending(S) \in Seq(S) /\ Len(Ascending(S)) \in Nat
         /\ DOMAIN Ascending(S) = 1..Len(Ascending(S))
         /\ \A i, j \in DOMAIN Ascending(S) : i < j => Ascending(S)[i] < Ascending(S)[j]
         /\ \A x \in S : \E i \in DOMAIN Ascending(S) : Ascending(S)[i] = x
  <1> DEFINE n == Cardinality(S)
             s == Ascending(S)
             key == [x \in S |-> x]
  <1>1. n \in Nat
    BY FS_CardinalityType
  <1>2. (\A x \in S : key[x] \in Int) /\ \A x, y \in S : key[x] = key[y] => x = y
    OBVIOUS
  <1>3. PICK order \in [1..n -> S] : \A i, j \in 1..n : i < j => key[order[i]] < key[order[j]]
    <2> HIDE DEF key
    <2> QED
      BY <1>2, CanBeOrdered
  <1>4. \A i, j \in DOMAIN order : i < j => order[i] < order[j]
    BY <1>3
  <1>5. s \in [1..n -> S] /\ \A i, j \in DOMAIN s : i < j => s[i] < s[j]
    BY <1>4 DEF Ascending
  <1> HIDE DEF s
  <1>6. \A i \in 1..n : s[i] \in Int
    BY <1>5
  <1>7. Enumerates(s, n, S)
    BY <1>5, <1>6 DEF Enumerates
  <1>8. \A x \in S : \E i \in 1..n : s[i] = x
    BY <1>7, OrderIsOnto
  <1>9. s \in Seq(S) /\ Len(s) = n /\ DOMAIN s = 1..n
    BY <1>1, <1>5
  <1>10. \A i, j \in 1..n : i < j => s[i] < s[j]
    BY <1>5, <1>9
  <1> QED
    BY <1>1, <1>8, <1>9, <1>10 DEF s

(* FlattenSeq joins the lists one after the other.                         *)
LEMMA Flattened ==
  ASSUME NEW S, NEW lists \in Seq(Seq(S))
  PROVE  \E u \in [0..Len(lists) -> Seq(S)] :
           /\ u[0] = <<>> /\ \A i \in 1..Len(lists) : u[i] = u[i - 1] \o lists[i]
           /\ FlattenSeq(lists) = u[Len(lists)]
  <1> DEFINE N == Len(lists)
             D == Seq(S)
             step == [i \in 1..N |-> [l \in D |-> l \o lists[i]]]
             flat(f) == f = [i \in 1..N |-> IF i = 1 THEN lists[i] ELSE f[i - 1] \o lists[i]]
             w == CHOOSE f : flat(f)
  <1>1. N \in Nat /\ <<>> \in D /\ \A i \in 1..N : lists[i] \in D
    OBVIOUS
  <1>2. step \in [1..N -> [D -> D]]
    BY <1>1
  <1>3. PICK u \in [0..N -> D] : u[0] = <<>> /\ \A i \in 1..N : u[i] = step[i][u[i - 1]]
    <2> HIDE DEF N, D, step
    <2>1. \E u \in [0..N -> D] : Recurs(u, N, <<>>, step)
      BY <1>1, <1>2, Recursion
    <2> QED
      BY <2>1 DEF Recurs
  <1>4. \A i \in 1..N : u[i] = u[i - 1] \o lists[i]
    <2> TAKE i \in 1..N
    <2>1. i - 1 \in 0..N
      BY <1>1
    <2>2. u[i - 1] \in D
      BY <2>1
    <2>3. step[i][u[i - 1]] = u[i - 1] \o lists[i]
      BY <2>2
    <2> QED
      BY <1>3, <2>3
  <1> HIDE DEF step
  <1>5. FlattenSeq(lists) = IF N = 0 THEN lists ELSE w[N]
    BY Zenon DEF FlattenSeq
  <1>6. flat([i \in 1..N |-> u[i]])
    <2> DEFINE f == [i \in 1..N |-> u[i]]
    <2>1. ASSUME NEW i \in 1..N PROVE f[i] = IF i = 1 THEN lists[i] ELSE f[i - 1] \o lists[i]
      <3>1. CASE i = 1
        <4>1. f[i] = u[i] /\ i - 1 = 0
          BY <3>1
        <4>2. <<>> \o lists[i] = lists[i]
          BY <1>1
        <4> QED
          BY <1>3, <1>4, <3>1, <4>1, <4>2
      <3>2. CASE i # 1
        <4>1. i - 1 \in 1..N
          BY <1>1, <3>2
        <4> QED
          BY <1>4, <3>2, <4>1
      <3> QED
        BY <3>1, <3>2
    <2> QED
      BY <2>1
  <1>7. flat(w)
    <2> HIDE DEF flat
    <2> QED
      BY <1>6
  <1> HIDE DEF w
  <1> DEFINE T == {i \in 0..N : i = 0 \/ w[i] = u[i]}
  <1>8. ASSUME NEW i \in 0..(N - 1), i \in T PROVE i + 1 \in T
    <2>1. i + 1 \in 1..N /\ i + 1 \in 0..N /\ (i + 1) - 1 = i /\ (i + 1 = 1 <=> i = 0)
      BY <1>1
    <2>2. w[i + 1] = IF i = 0 THEN lists[i + 1] ELSE w[i] \o lists[i + 1]
      BY <1>7, <2>1
    <2>3. u[i + 1] = u[i] \o lists[i + 1]
      BY <1>4, <2>1
    <2>4. CASE i = 0
      <3>1. <<>> \o lists[i + 1] = lists[i + 1]
        BY <1>1, <2>1
      <3> QED
        BY <1>3, <2>1, <2>2, <2>3, <2>4, <3>1
    <2>5. CASE i # 0
      <3>1. w[i] = u[i]
        BY <1>8, <2>5
      <3> QED
        BY <2>1, <2>2, <2>3, <2>5, <3>1
    <2> QED
      BY <2>4, <2>5
  <1>9. 0 \in T
    BY <1>1
  <1> HIDE DEF T
  <1>10. \A i \in 0..N : i \in T
    <2>1. \A i \in 0..(N - 1) : i \in T => i + 1 \in T
      BY <1>8
    <2> QED
      BY <1>1, <1>9, <2>1, Counting
  <1>11. FlattenSeq(lists) = u[N]
    <2>1. CASE N = 0
      BY <1>3, <1>5, <2>1
    <2>2. CASE N # 0
      BY <1>1, <1>5, <1>10, <2>2 DEF T
    <2> QED
      BY <2>1, <2>2
  <1> QED
    BY <1>3, <1>4, <1>11

-----------------------------------------------------------------------------
(* idx maps each value that field n has in the rows of keys to a list of   *)
(* the keys of those rows, each once.                                      *)
Indexes(idx, table, n, keys) ==
  /\ idx = [v \in DOMAIN idx |-> idx[v]]
  /\ DOMAIN idx = {table[k][n] : k \in keys}
  /\ \A v \in DOMAIN idx :
       /\ idx[v] \in Seq(Key) /\ IsInjective(idx[v])
       /\ ToSet(idx[v]) = {k \in keys : table[k][n] = v}

(* push_back adds one row's key to an index that does not have it.         *)
LEMMA Pushes ==
  ASSUME NEW table, NEW n, NEW keys, keys \subseteq Key, NEW idx, Indexes(idx, table, n, keys),
         NEW k \in Key, k \notin keys
  PROVE  Indexes(PushBack(idx, table[k][n], k), table, n, keys \cup {k})
  <1> DEFINE value == table[k][n]
             old == IF value \in DOMAIN idx THEN idx[value] ELSE <<>>
             new == PushBack(idx, value, k)
  <1>1. /\ DOMAIN idx = {table[j][n] : j \in keys}
        /\ \A v \in DOMAIN idx : /\ idx[v] \in Seq(Key) /\ IsInjective(idx[v])
                                 /\ ToSet(idx[v]) = {j \in keys : table[j][n] = v}
    BY DEF Indexes
  <1>2. old \in Seq(Key) /\ IsInjective(old) /\ ToSet(old) = {j \in keys : table[j][n] = value}
    <2>1. CASE value \in DOMAIN idx
      BY <1>1, <2>1
    <2>2. CASE value \notin DOMAIN idx
      <3>1. old = <<>> /\ DOMAIN old = {}
        BY <2>2
      <3>2. {j \in keys : table[j][n] = value} = {}
        BY <1>1, <2>2
      <3>3. <<>> \in Seq(Key) /\ DOMAIN <<>> = {}
        OBVIOUS
      <3> HIDE DEF old
      <3> QED
        BY <3>1, <3>2, <3>3 DEF IsInjective, ToSet
    <2> QED
      BY <2>1, <2>2
  <1>3. /\ DOMAIN new = DOMAIN idx \cup {value}
        /\ new = [v \in DOMAIN new |-> new[v]]
        /\ new[value] = Append(old, k)
        /\ \A v \in DOMAIN idx : v # value => new[v] = idx[v]
    BY DEF PushBack, Assign
  <1> HIDE DEF new, old
  <1>4. /\ Append(old, k) \in Seq(Key) /\ DOMAIN old = 1..Len(old) /\ Len(old) \in Nat
        /\ DOMAIN Append(old, k) = 1..(Len(old) + 1)
        /\ \A i \in DOMAIN old : Append(old, k)[i] = old[i]
        /\ Append(old, k)[Len(old) + 1] = k
    BY <1>2
  <1>5. k \notin ToSet(old)
    BY <1>2
  <1>6. \A i \in DOMAIN old : old[i] # k
    BY <1>5 DEF ToSet
  <1>7. IsInjective(Append(old, k))
    <2>1. ASSUME NEW i \in 1..(Len(old) + 1), NEW j \in 1..(Len(old) + 1), Append(old, k)[i] = Append(old, k)[j]
          PROVE  i = j
      <3>1. i \in DOMAIN old \/ i = Len(old) + 1
        BY <1>4
      <3>2. j \in DOMAIN old \/ j = Len(old) + 1
        BY <1>4
      <3>3. \A x, y \in DOMAIN old : old[x] = old[y] => x = y
        BY <1>2 DEF IsInjective
      <3> QED
        BY <1>4, <1>6, <2>1, <3>1, <3>2, <3>3
    <2> QED
      BY <1>4, <2>1 DEF IsInjective
  <1>8. ToSet(Append(old, k)) = ToSet(old) \cup {k}
    <2>1. ASSUME NEW i \in 1..(Len(old) + 1) PROVE Append(old, k)[i] \in ToSet(old) \cup {k}
      <3>1. i \in DOMAIN old \/ i = Len(old) + 1
        BY <1>4
      <3> QED
        BY <1>4, <3>1 DEF ToSet
    <2>2. ASSUME NEW i \in DOMAIN old PROVE old[i] \in ToSet(Append(old, k))
      <3>1. i \in DOMAIN Append(old, k) /\ Append(old, k)[i] = old[i]
        BY <1>4
      <3> QED
        BY <3>1 DEF ToSet
    <2>3. k \in ToSet(Append(old, k))
      <3>1. Len(old) + 1 \in DOMAIN Append(old, k)
        BY <1>4
      <3> QED
        BY <1>4, <3>1 DEF ToSet
    <2> QED
      BY <1>4, <2>1, <2>2, <2>3 DEF ToSet
  <1>9. DOMAIN new = {table[j][n] : j \in keys \cup {k}}
    BY <1>1, <1>3
  <1>10. ASSUME NEW v \in DOMAIN new
         PROVE  /\ new[v] \in Seq(Key) /\ IsInjective(new[v])
                /\ ToSet(new[v]) = {j \in keys \cup {k} : table[j][n] = v}
    <2>1. CASE v = value
      <3>1. {j \in keys \cup {k} : table[j][n] = v} = {j \in keys : table[j][n] = value} \cup {k}
        BY <2>1
      <3> QED
        BY <1>2, <1>3, <1>4, <1>7, <1>8, <2>1, <3>1
    <2>2. CASE v # value
      <3>1. v \in DOMAIN idx /\ new[v] = idx[v]
        BY <1>3, <2>2
      <3>2. {j \in keys \cup {k} : table[j][n] = v} = {j \in keys : table[j][n] = v}
        BY <2>2
      <3> QED
        BY <1>1, <3>1, <3>2
    <2> QED
      BY <2>1, <2>2
  <1> QED
    BY <1>3, <1>9, <1>10 DEF Indexes, new

(* The index of no rows. *)
LEMMA NoRows == \A table, n : Indexes(<<>>, table, n, {})
  BY DEF Indexes

(* An index does not depend on rows it is not about.                       *)
LEMMA SameRows ==
  ASSUME NEW table, NEW other, NEW n, NEW keys, NEW idx,
         Indexes(idx, table, n, keys), \A k \in keys : other[k][n] = table[k][n]
  PROVE  Indexes(idx, other, n, keys)
  <1>1. {other[k][n] : k \in keys} = {table[k][n] : k \in keys}
    OBVIOUS
  <1>2. \A v : {k \in keys : other[k][n] = v} = {k \in keys : table[k][n] = v}
    OBVIOUS
  <1> QED
    BY <1>1, <1>2 DEF Indexes

(* The rows pushed back one after the other, in the order of their keys,   *)
(* make an index of them all.                                              *)
PushedBack(idx, table, n, key) == PushBack(idx, table[key][n], key)

Indexing(f, table, n, keys) ==
  f = [i \in 0..Len(keys) |-> IF i = 0 THEN <<>> ELSE PushedBack(f[i - 1], table, n, keys[i])]

LEMMA IndexOfUnfolds ==
  \A table, n : \E f :
    /\ f = CHOOSE g : Indexing(g, table, n, Ascending(DOMAIN table))
    /\ IndexOf(table, n) = f[Len(Ascending(DOMAIN table))]
  BY Zenon DEF IndexOf, Indexing, PushedBack

LEMMA IndexBuilt ==
  ASSUME NEW table, DOMAIN table \subseteq Key, NEW n
  PROVE  Indexes(IndexOf(table, n), table, n, DOMAIN table)
  <1> DEFINE K == DOMAIN table
             keys == Ascending(K)
             N == Len(keys)
             V == {table[k][n] : k \in K}
             D == UNION {[A -> Seq(Key)] : A \in SUBSET V}
             step == [i \in 1..N |-> [idx \in D |-> PushedBack(idx, table, n, keys[i])]]
             w == CHOOSE g : Indexing(g, table, n, keys)
  <1>1. /\ keys \in Seq(K) /\ N \in Nat /\ DOMAIN keys = 1..N
        /\ \A i, j \in 1..N : i < j => keys[i] < keys[j]
        /\ \A k \in K : \E i \in 1..N : keys[i] = k
    <2>1. IsFiniteSet(K) /\ K \subseteq Int
      BY TableAssumption, FS_Subset
    <2> QED
      BY <2>1, Sorted
  <1> HIDE DEF keys
  <1>2. \A i \in 1..N : keys[i] \in K /\ keys[i] \in Key /\ keys[i] \in Int
    <2>1. \A i \in 1..N : keys[i] \in K
      BY <1>1
    <2> QED
      BY <2>1, TableAssumption
  <1>3. \A idx \in D, i \in 1..N : PushedBack(idx, table, n, keys[i]) \in D
    <2> TAKE idx \in D, i \in 1..N
    <2>1. PICK A \in SUBSET V : idx \in [A -> Seq(Key)]
      OBVIOUS
    <2> DEFINE value == table[keys[i]][n]
               old == IF value \in DOMAIN idx THEN idx[value] ELSE <<>>
               B == {value} \cup A
    <2>2. value \in V
      BY <1>2
    <2>3. B \in SUBSET V
      BY <2>2
    <2>4. keys[i] \in Key /\ old \in Seq(Key)
      BY <1>2, <2>1
    <2> HIDE DEF old, value
    <2>5. Append(old, keys[i]) \in Seq(Key)
      BY <2>4
    <2>6. [k \in {value} \cup DOMAIN idx |-> IF k = value THEN Append(old, keys[i]) ELSE idx[k]] \in [B -> Seq(Key)]
      BY <2>1, <2>5
    <2>7. PushedBack(idx, table, n, keys[i]) \in [B -> Seq(Key)]
      BY <2>6 DEF PushedBack, PushBack, Assign, old, value
    <2> HIDE DEF B, V
    <2> QED
      BY <2>3, <2>7
  <1>4. <<>> \in D
    <2>1. <<>> \in [{} -> Seq(Key)] /\ {} \in SUBSET V
      OBVIOUS
    <2> HIDE DEF V
    <2> QED
      BY <2>1
  <1> HIDE DEF D
  <1>5. step \in [1..N -> [D -> D]]
    BY <1>3
  <1>6. PICK u \in [0..N -> D] : Recurs(u, N, <<>>, step)
    <2> HIDE DEF step, N
    <2> QED
      BY <1>1, <1>4, <1>5, Recursion
  <1>7. u[0] = <<>> /\ \A i \in 1..N : u[i] = PushedBack(u[i - 1], table, n, keys[i])
    <2>1. \A i \in 1..N : u[i] = step[i][u[i - 1]]
      BY <1>6 DEF Recurs
    <2>2. \A i \in 1..N : i - 1 \in 0..N
      BY <1>1
    <2>3. \A i \in 1..N : u[i - 1] \in D
      BY <2>2
    <2> QED
      BY <1>6, <2>1, <2>3 DEF Recurs
  <1>8. Indexing(u, table, n, keys)
    <2>1. \A i \in 0..N : u[i] = IF i = 0 THEN <<>> ELSE PushedBack(u[i - 1], table, n, keys[i])
      BY <1>1, <1>7
    <2>2. u = [i \in 0..N |-> u[i]]
      OBVIOUS
    <2> QED
      BY <2>1, <2>2 DEF Indexing
  <1>9. Indexing(w, table, n, keys)
    BY <1>8
  <1> HIDE DEF w
  <1>10. w[0] = <<>> /\ \A i \in 1..N : w[i] = PushedBack(w[i - 1], table, n, keys[i])
    <2>1. w = [i \in 0..N |-> IF i = 0 THEN <<>> ELSE PushedBack(w[i - 1], table, n, keys[i])]
      BY <1>9 DEF Indexing
    <2>2. 0 \in 0..N /\ \A i \in 1..N : i \in 0..N /\ i # 0
      BY <1>1
    <2> HIDE DEF N
    <2> QED
      BY <2>1, <2>2
  <1> DEFINE first(i) == {keys[j] : j \in 1..i}
             S == {i \in 0..N : Indexes(w[i], table, n, first(i))}
  <1>11. 0 \in S
    <2>1. first(0) = {}
      OBVIOUS
    <2> HIDE DEF first
    <2>2. Indexes(w[0], table, n, first(0))
      BY <1>10, <2>1, NoRows
    <2> QED
      BY <1>1, <2>2
  <1>12. ASSUME NEW i \in 0..(N - 1), i \in S PROVE i + 1 \in S
    <2>1. i + 1 \in 1..N /\ i + 1 \in 0..N /\ (i + 1) - 1 = i
      BY <1>1
    <2>2. w[i + 1] = PushBack(w[i], table[keys[i + 1]][n], keys[i + 1])
      BY <1>10, <2>1 DEF PushedBack
    <2>3. Indexes(w[i], table, n, first(i))
      BY <1>12
    <2>4. first(i) \subseteq Key
      BY <1>1, <1>2
    <2>5. keys[i + 1] \notin first(i)
      <3>1. ASSUME NEW j \in 1..i PROVE keys[j] # keys[i + 1]
        <4>1. j \in 1..N /\ j < i + 1
          BY <1>1
        <4>2. keys[j] < keys[i + 1] /\ keys[j] \in Int /\ keys[i + 1] \in Int
          BY <1>1, <1>2, <2>1, <4>1
        <4> QED
          BY <4>2
      <3> QED
        BY <3>1
    <2>6. first(i + 1) = first(i) \cup {keys[i + 1]}
      <3>1. 1..(i + 1) = 1..i \cup {i + 1}
        BY <1>1
      <3> QED
        BY <3>1
    <2>7. keys[i + 1] \in Key
      BY <1>2, <2>1
    <2> HIDE DEF first
    <2>8. Indexes(w[i + 1], table, n, first(i + 1))
      BY <2>2, <2>3, <2>4, <2>5, <2>6, <2>7, Pushes, SMTT(60)
    <2> QED
      BY <2>1, <2>8
  <1>13. first(N) = K
    BY <1>1, <1>2
  <1> HIDE DEF first, S
  <1>14. N \in S
    <2>1. \A i \in 0..(N - 1) : i \in S => i + 1 \in S
      BY <1>12
    <2> HIDE DEF N
    <2>2. \A i \in 0..N : i \in S
      BY <1>1, <1>11, <2>1, Counting
    <2> QED
      BY <1>1, <2>2
  <1>15. IndexOf(table, n) = w[N]
    BY IndexOfUnfolds DEF w, keys
  <1> QED
    BY <1>13, <1>14, <1>15 DEF S

-----------------------------------------------------------------------------
(* Scans.                                                                  *)

(* The fields of the rows are numbers.                                     *)
Numbers == \A k \in DOMAIN data, m \in Field : data[k][m] \in Int

(* A list of the keys of those rows whose field n has one of the values,   *)
(* in the order of the field.                                              *)
Finding(keys, n, values) ==
  /\ keys \in Seq(Key) /\ IsInjective(keys)
  /\ ToSet(keys) = {k \in DOMAIN data : data[k][n] \in values}
  /\ \A i, j \in DOMAIN keys : i < j => data[keys[i]][n] <= data[keys[j]][n]

Beyond(v, values) == \A x \in values : x < v

(* The keys of a value beyond the others come behind theirs.               *)
LEMMA FindsMore ==
  ASSUME Numbers, NEW n \in Field,
         NEW values, NEW keys, Finding(keys, n, values),
         NEW v, Beyond(v, values),
         NEW last, Finding(last, n, {v})
  PROVE  Finding(keys \o last, n, values \cup {v})
  <1> DEFINE all == keys \o last
             K == Len(keys)
             L == Len(last)
  <1>1. /\ keys \in Seq(Key) /\ last \in Seq(Key) /\ K \in Nat /\ L \in Nat
        /\ DOMAIN keys = 1..K /\ DOMAIN last = 1..L
    BY DEF Finding
  <1>2. /\ all \in Seq(Key) /\ DOMAIN all = 1..(K + L)
        /\ \A i \in 1..K : all[i] = keys[i]
        /\ \A i \in 1..L : all[K + i] = last[i]
    BY <1>1
  <1> USE DEF Numbers, Beyond
  <1>3. \A i \in 1..K : keys[i] \in DOMAIN data /\ data[keys[i]][n] \in values
    <2>1. \A i \in 1..K : keys[i] \in ToSet(keys)
      BY <1>1 DEF ToSet
    <2> QED
      BY <2>1 DEF Finding
  <1>4. \A i \in 1..L : last[i] \in DOMAIN data /\ data[last[i]][n] = v
    <2>1. \A i \in 1..L : last[i] \in ToSet(last)
      BY <1>1 DEF ToSet
    <2> QED
      BY <2>1 DEF Finding
  <1>5. ASSUME NEW i \in 1..(K + L)
        PROVE  i \in 1..K \/ \E j \in 1..L : i = K + j
    <2>1. i \in 1..K \/ (i - K \in 1..L /\ i = K + (i - K))
      BY <1>1
    <2> QED
      BY <2>1
  <1>6. ASSUME NEW i \in 1..(K + L), NEW j \in 1..(K + L), all[i] = all[j] PROVE i = j
    <2>1. \A x, y \in 1..K : keys[x] = keys[y] => x = y
      BY <1>1 DEF Finding, IsInjective
    <2>2. \A x, y \in 1..L : last[x] = last[y] => x = y
      BY <1>1 DEF Finding, IsInjective
    <2>3. \A x \in 1..K, y \in 1..L : keys[x] # last[y]
      <3> TAKE x \in 1..K, y \in 1..L
      <3>1. data[keys[x]][n] < v /\ data[keys[x]][n] \in Int
        BY <1>3
      <3>2. data[last[y]][n] = v
        BY <1>4
      <3> QED
        BY <3>1, <3>2
    <2> HIDE DEF all
    <2>4. CASE i \in 1..K /\ j \in 1..K
      BY <1>2, <1>6, <2>1, <2>4
    <2>5. CASE i \in 1..K /\ \E y \in 1..L : j = K + y
      BY <1>2, <1>6, <2>3, <2>5
    <2>6. CASE j \in 1..K /\ \E y \in 1..L : i = K + y
      BY <1>2, <1>6, <2>3, <2>6
    <2>7. CASE (\E x \in 1..L : i = K + x) /\ (\E y \in 1..L : j = K + y)
      BY <1>2, <1>6, <2>2, <2>7
    <2> QED
      BY <1>5, <2>4, <2>5, <2>6, <2>7
  <1>7. ToSet(all) = {k \in DOMAIN data : data[k][n] \in values \cup {v}}
    <2>1. ASSUME NEW i \in 1..(K + L) PROVE all[i] \in DOMAIN data /\ data[all[i]][n] \in values \cup {v}
      <3> HIDE DEF all
      <3>1. CASE i \in 1..K
        BY <1>2, <1>3, <3>1
      <3>2. CASE \E y \in 1..L : i = K + y
        BY <1>2, <1>4, <3>2
      <3> QED
        BY <1>5, <3>1, <3>2
    <2>2. ASSUME NEW k \in DOMAIN data, data[k][n] \in values PROVE \E i \in 1..(K + L) : all[i] = k
      <3>1. k \in ToSet(keys)
        BY <2>2 DEF Finding
      <3>2. PICK i \in 1..K : keys[i] = k
        BY <1>1, <3>1 DEF ToSet
      <3>3. i \in 1..(K + L)
        BY <1>1
      <3> QED
        BY <1>2, <3>2, <3>3
    <2>3. ASSUME NEW k \in DOMAIN data, data[k][n] = v PROVE \E i \in 1..(K + L) : all[i] = k
      <3>1. k \in ToSet(last)
        BY <2>3 DEF Finding
      <3>2. PICK i \in 1..L : last[i] = k
        BY <1>1, <3>1 DEF ToSet
      <3>3. K + i \in 1..(K + L)
        BY <1>1
      <3> QED
        BY <1>2, <3>2, <3>3
    <2> HIDE DEF all, K, L
    <2> QED
      BY <1>2, <2>1, <2>2, <2>3 DEF ToSet
  <1>8. ASSUME NEW i \in 1..(K + L), NEW j \in 1..(K + L), i < j
        PROVE  data[all[i]][n] <= data[all[j]][n]
    <2>1. \A x, y \in 1..K : x < y => data[keys[x]][n] <= data[keys[y]][n]
      BY <1>1 DEF Finding
    <2>2. \A x \in 1..K : data[keys[x]][n] < v /\ data[keys[x]][n] \in Int
      BY <1>3
    <2> HIDE DEF all
    <2>3. CASE j \in 1..K
      <3>1. i \in 1..K
        BY <1>1, <1>8, <2>3
      <3> QED
        BY <1>2, <1>8, <2>1, <2>3, <3>1
    <2>4. CASE i \in 1..K /\ \E y \in 1..L : j = K + y
      <3>1. data[all[i]][n] < v /\ data[all[i]][n] \in Int /\ data[all[j]][n] = v
        BY <1>2, <1>4, <2>2, <2>4, SMTT(60)
      <3>2. v \in Int
        BY <1>4, <2>4
      <3> QED
        BY <3>1, <3>2
    <2>5. CASE (\E x \in 1..L : i = K + x) /\ (\E y \in 1..L : j = K + y)
      <3>1. data[all[i]][n] = v /\ data[all[j]][n] = v
        BY <1>2, <1>4, <2>5
      <3>2. v \in Int
        BY <1>4, <2>5
      <3> QED
        BY <3>1, <3>2
    <2> QED
      BY <1>1, <1>5, <1>8, <2>3, <2>4, <2>5
  <1> HIDE DEF all, K, L
  <1> QED
    BY <1>2, <1>6, <1>7, <1>8 DEF Finding, IsInjective, all

(* A scan of an index that agrees with the rows finds the rows of the      *)
(* range.                                                                  *)
LEMMA ScanFinds ==
  ASSUME DOMAIN data \subseteq Key, Numbers,
         NEW n \in Built, n \in Field, Indexes(secondary_indexes[n], data, n, DOMAIN data),
         NEW from \in Int, NEW to \in Int
  PROVE  /\ ~Throws(secondary_scan(n, from, to))
         /\ Finds(secondary_scan(n, from, to), DOMAIN data, n, from, to)
  <1> DEFINE idx == secondary_indexes[n]
             R == {v \in DOMAIN idx : from <= v /\ v <= to}
             values == Ascending(R)
             lists == [i \in DOMAIN values |-> idx[values[i]]]
             N == Len(lists)
  <1>1. /\ DOMAIN idx = {data[k][n] : k \in DOMAIN data}
        /\ \A v \in DOMAIN idx : /\ idx[v] \in Seq(Key) /\ IsInjective(idx[v])
                                 /\ ToSet(idx[v]) = {k \in DOMAIN data : data[k][n] = v}
    BY DEF Indexes
  <1>2. IsFiniteSet(DOMAIN idx) /\ DOMAIN idx \subseteq Int
    <2> DEFINE f == [k \in DOMAIN data |-> data[k][n]]
    <2>1. f \in Surjection(DOMAIN data, DOMAIN idx)
      <3> HIDE DEF idx
      <3> QED
        BY <1>1 DEF Surjection
    <2>2. IsFiniteSet(DOMAIN data)
      BY TableAssumption, FS_Subset
    <2> HIDE DEF f
    <2>3. IsFiniteSet(DOMAIN idx)
      BY <2>1, <2>2, FS_Surjection
    <2> QED
      BY <1>1, <2>3 DEF Numbers
  <1> HIDE DEF idx
  <1>3. IsFiniteSet(R) /\ R \subseteq Int
    <2>1. R \in SUBSET DOMAIN idx
      OBVIOUS
    <2> QED
      BY <1>2, <2>1, FS_Subset
  <1> HIDE DEF R
  <1>4. /\ values \in Seq(R) /\ Len(values) \in Nat /\ DOMAIN values = 1..Len(values)
        /\ \A i, j \in DOMAIN values : i < j => values[i] < values[j]
        /\ \A v \in R : \E i \in DOMAIN values : values[i] = v
    BY <1>3, Sorted
  <1> HIDE DEF values
  <1>5. \A i \in 1..Len(values) : values[i] \in R /\ values[i] \in DOMAIN idx /\ idx[values[i]] \in Seq(Key)
    <2>1. \A i \in 1..Len(values) : values[i] \in R
      BY <1>4
    <2> QED
      BY <1>1, <2>1 DEF R
  <1>6. lists \in Seq(Seq(Key)) /\ N = Len(values) /\ \A i \in 1..N : lists[i] = idx[values[i]]
    BY <1>4, <1>5
  <1>7. secondary_scan(n, from, to) = FlattenSeq(lists)
    BY DEF secondary_scan, InRange, Built, values, idx, R
  <1> HIDE DEF lists
  <1>8. PICK u \in [0..N -> Seq(Key)] :
          /\ u[0] = <<>> /\ \A i \in 1..N : u[i] = u[i - 1] \o lists[i]
          /\ FlattenSeq(lists) = u[N]
    BY <1>6, Flattened
  <1> DEFINE first(i) == {values[j] : j \in 1..i}
             S == {i \in 0..N : Finding(u[i], n, first(i))}
  <1>9. 0 \in S
    <2>1. <<>> \in Seq(Key) /\ DOMAIN <<>> = {}
      OBVIOUS
    <2>2. Finding(<<>>, n, {})
      BY <2>1 DEF Finding, IsInjective, ToSet
    <2>3. first(0) = {}
      OBVIOUS
    <2> HIDE DEF first
    <2>4. Finding(u[0], n, first(0))
      BY <1>8, <2>2, <2>3
    <2> QED
      BY <1>4, <1>6, <2>4
  <1>10. ASSUME NEW i \in 0..(N - 1), i \in S PROVE i + 1 \in S
    <2> DEFINE v == values[i + 1]
    <2>1. N \in Nat /\ i + 1 \in 1..N /\ i + 1 \in 0..N /\ (i + 1) - 1 = i
      BY <1>4, <1>6
    <2>2. u[i + 1] = u[i] \o idx[v]
      BY <1>6, <1>8, <2>1
    <2>3. Finding(u[i], n, first(i))
      BY <1>10
    <2>4. Beyond(v, first(i))
      <3>1. \A j \in 1..i : j \in DOMAIN values /\ j < i + 1
        BY <1>4, <1>6, <2>1
      <3>2. i + 1 \in DOMAIN values
        BY <1>4, <1>6, <2>1
      <3>3. \A j \in 1..i : values[j] < values[i + 1]
        BY <1>4, <3>1, <3>2
      <3> QED
        BY <3>3 DEF Beyond
    <2>5. Finding(idx[v], n, {v})
      <3>1. v \in DOMAIN idx
        BY <1>5, <1>6, <2>1
      <3> HIDE DEF v
      <3>2. /\ idx[v] \in Seq(Key) /\ IsInjective(idx[v])
            /\ ToSet(idx[v]) = {k \in DOMAIN data : data[k][n] \in {v}}
        BY <1>1, <3>1
      <3>3. v \in Int
        BY <1>2, <3>1
      <3>4. \A j \in DOMAIN idx[v] : data[idx[v][j]][n] = v
        <4>1. \A j \in DOMAIN idx[v] : idx[v][j] \in ToSet(idx[v])
          BY DEF ToSet
        <4> QED
          BY <3>2, <4>1
      <3> QED
        BY <3>2, <3>3, <3>4 DEF Finding
    <2>6. first(i + 1) = first(i) \cup {v}
      <3>1. 1..(i + 1) = 1..i \cup {i + 1}
        BY <2>1
      <3> QED
        BY <3>1
    <2> HIDE DEF first, v
    <2>7. Finding(u[i + 1], n, first(i + 1))
      BY <2>2, <2>3, <2>4, <2>5, <2>6, FindsMore
    <2> QED
      BY <2>1, <2>7
  <1>11. first(N) = R
    BY <1>4, <1>5, <1>6
  <1> HIDE DEF first, S
  <1>12. N \in S
    <2>1. \A i \in 0..(N - 1) : i \in S => i + 1 \in S
      BY <1>10
    <2>2. N \in Nat
      BY <1>4, <1>6
    <2> HIDE DEF N
    <2>3. \A i \in 0..N : i \in S
      BY <1>9, <2>1, <2>2, Counting
    <2> QED
      BY <2>2, <2>3
  <1> DEFINE keys == secondary_scan(n, from, to)
  <1>13. Finding(keys, n, R)
    BY <1>7, <1>8, <1>11, <1>12 DEF S
  <1> HIDE DEF keys
  <1>14. {k \in DOMAIN data : data[k][n] \in R} = {k \in DOMAIN data : from <= data[k][n] /\ data[k][n] <= to}
    BY <1>1 DEF R
  <1>15. \A i \in DOMAIN keys : keys[i] \in DOMAIN data
    <2>1. \A i \in DOMAIN keys : keys[i] \in ToSet(keys)
      BY DEF ToSet
    <2> QED
      BY <1>13, <2>1 DEF Finding
  <1> QED
    BY <1>13, <1>14, <1>15 DEF Finding, Finds, Throws, exists, keys

-----------------------------------------------------------------------------
(* The invariant: the table has its types, the rows are counted, and an    *)
(* index that is not stale agrees with the rows.                           *)
IInv ==
  /\ TypeOK /\ RowsCounted
  /\ \A n \in Built \ stale : Indexes(secondary_indexes[n], data, n, DOMAIN data)

(* What a table's indexes are lists of. *)
TypedIndex(idx) ==
  \A v \in DOMAIN idx : v \in FieldValue /\ idx[v] \in Seq(Key) \ {<<>>}

LEMMA Assigned ==
  ASSUME NEW map, NEW key, NEW value
  PROVE  /\ DOMAIN Assign(map, key, value) = {key} \cup DOMAIN map
         /\ Assign(map, key, value)[key] = value
         /\ \A k \in DOMAIN map : k # key => Assign(map, key, value)[k] = map[k]
  BY DEF Assign

LEMMA PushTyped ==
  ASSUME NEW idx, TypedIndex(idx), NEW value \in FieldValue, NEW key \in Key
  PROVE  TypedIndex(PushBack(idx, value, key))
  <1> DEFINE old == IF value \in DOMAIN idx THEN idx[value] ELSE <<>>
             new == PushBack(idx, value, key)
  <1>1. old \in Seq(Key)
    BY DEF TypedIndex
  <1>2. /\ DOMAIN new = {value} \cup DOMAIN idx /\ new[value] = Append(old, key)
        /\ \A v \in DOMAIN idx : v # value => new[v] = idx[v]
    BY DEF PushBack, Assign
  <1> HIDE DEF old, new
  <1>3. Append(old, key) \in Seq(Key) /\ Append(old, key) # <<>>
    <2>1. Append(old, key) \in Seq(Key) /\ Len(Append(old, key)) = Len(old) + 1 /\ Len(old) \in Nat
      BY <1>1
    <2>2. Len(<<>>) = 0
      OBVIOUS
    <2> QED
      BY <2>1, <2>2
  <1>4. ASSUME NEW v \in DOMAIN new PROVE v \in FieldValue /\ new[v] \in Seq(Key) \ {<<>>}
    <2>1. CASE v = value
      BY <1>2, <1>3, <2>1
    <2>2. CASE v # value
      BY <1>2, <2>2 DEF TypedIndex
    <2> QED
      BY <2>1, <2>2
  <1> QED
    BY <1>4 DEF TypedIndex, new

LEMMA IndexTyped ==
  ASSUME NEW table, \A k \in DOMAIN table, m \in Field : table[k][m] \in FieldValue,
         NEW n \in Field, NEW idx, Indexes(idx, table, n, DOMAIN table)
  PROVE  TypedIndex(idx)
  <1>1. ASSUME NEW v \in DOMAIN idx PROVE v \in FieldValue /\ idx[v] \in Seq(Key) \ {<<>>}
    <2>1. PICK k \in DOMAIN table : table[k][n] = v
      BY DEF Indexes
    <2>2. k \in ToSet(idx[v]) /\ idx[v] \in Seq(Key)
      BY <2>1 DEF Indexes
    <2>3. ToSet(<<>>) = {}
      BY DEF ToSet
    <2> QED
      BY <2>1, <2>2, <2>3
  <1> QED
    BY <1>1 DEF TypedIndex

LEMMA Typed ==
  TypeOK <=>
    /\ rows \in Int /\ DOMAIN data \subseteq Key /\ (\A k \in DOMAIN data : data[k] \in Record)
    /\ Built \subseteq Field /\ (\A n \in Built : TypedIndex(secondary_indexes[n]))
    /\ stale \subseteq Built /\ miscounted \in BOOLEAN
  BY DEF TypeOK, TableTypeOK, TypedIndex, Built

LEMMA FieldsTyped ==
  ASSUME TypeOK
  PROVE  /\ \A k \in DOMAIN data, m \in Field : data[k][m] \in FieldValue
         /\ Numbers /\ IsFiniteSet(DOMAIN data)
  <1>1. \A k \in DOMAIN data, m \in Field : data[k][m] \in FieldValue
    BY Typed DEF Record
  <1>2. Numbers
    BY <1>1, TableAssumption DEF Numbers
  <1>3. IsFiniteSet(DOMAIN data)
    BY Typed, TableAssumption, FS_Subset
  <1> QED
    BY <1>1, <1>2, <1>3

-----------------------------------------------------------------------------
LEMMA InitInv == MCInit => IInv
  <1> SUFFICES ASSUME MCInit PROVE IInv
    OBVIOUS
  <1>1. rows = 0 /\ data = <<>> /\ secondary_indexes = <<>> /\ stale = {} /\ miscounted = FALSE
    BY DEF MCInit, TableInit
  <1>2. DOMAIN data = {} /\ Built = {}
    BY <1>1 DEF Built
  <1>3. TypeOK
    <2>1. rows \in Int /\ stale \subseteq Built
      BY <1>1
    <2>2. miscounted \in BOOLEAN
      BY <1>1
    <2> QED
      BY <1>2, <2>1, <2>2, Typed
  <1>4. RowsCounted
    BY <1>1, <1>2, FS_EmptySet DEF RowsCounted
  <1> QED
    BY <1>2, <1>3, <1>4 DEF IInv

(* A row more, or another in its place. *)
LEMMA RowAssigned ==
  ASSUME TypeOK, NEW key \in Key, NEW val \in Record, data' = Assign(data, key, val)
  PROVE  /\ DOMAIN data' \subseteq Key /\ (\A k \in DOMAIN data' : data'[k] \in Record)
         /\ DOMAIN data' = {key} \cup DOMAIN data
         /\ Cardinality(DOMAIN data') = Cardinality(DOMAIN data) + IF exists(key) THEN 0 ELSE 1
         /\ Cardinality(DOMAIN data) \in Nat
  <1>1. /\ DOMAIN data' = {key} \cup DOMAIN data /\ data'[key] = val
        /\ \A k \in DOMAIN data : k # key => data'[k] = data[k]
    BY DEF Assign
  <1>2. DOMAIN data \subseteq Key /\ \A k \in DOMAIN data : data[k] \in Record
    BY Typed
  <1>3. IsFiniteSet(DOMAIN data)
    BY FieldsTyped
  <1>4. /\ Cardinality(DOMAIN data) \in Nat
        /\ Cardinality(DOMAIN data \cup {key}) = IF exists(key) THEN Cardinality(DOMAIN data)
                                                  ELSE Cardinality(DOMAIN data) + 1
    BY <1>3, FS_CardinalityType, FS_AddElement DEF exists
  <1>5. DOMAIN data' = DOMAIN data \cup {key}
    BY <1>1
  <1>6. \A k \in DOMAIN data' : data'[k] \in Record
    BY <1>1, <1>2
  <1>7. Cardinality(DOMAIN data') = Cardinality(DOMAIN data) + IF exists(key) THEN 0 ELSE 1
    <2>1. CASE exists(key)
      BY <1>4, <1>5, <2>1
    <2>2. CASE ~exists(key)
      BY <1>4, <1>5, <2>2
    <2> QED
      BY <2>1, <2>2
  <1>8. DOMAIN data' \subseteq Key
    BY <1>1, <1>2
  <1> QED
    BY <1>1, <1>4, <1>6, <1>7, <1>8

LEMMA InsertStep ==
  ASSUME IInv, Insert
  PROVE  IInv'
  <1>1. PICK key \in Key, val \in Record :
          /\ insert(key, val)
          /\ stale' = IF exists(key) THEN Built ELSE stale
          /\ miscounted' = (miscounted \/ exists(key))
    BY DEF Insert
  <1>2. TypeOK /\ RowsCounted /\ \A n \in Built \ stale : Indexes(secondary_indexes[n], data, n, DOMAIN data)
    BY DEF IInv
  <1>3. /\ data' = Assign(data, key, val) /\ rows' = rows + 1
        /\ Built' = Built
        /\ \A n \in Built : secondary_indexes'[n] = PushBack(secondary_indexes[n], val[n], key)
    BY <1>1 DEF insert, Built, update_secondary_index
  <1>4. /\ DOMAIN data' \subseteq Key /\ (\A k \in DOMAIN data' : data'[k] \in Record)
        /\ DOMAIN data' = {key} \cup DOMAIN data
        /\ Cardinality(DOMAIN data') = Cardinality(DOMAIN data) + IF exists(key) THEN 0 ELSE 1
        /\ Cardinality(DOMAIN data) \in Nat
    BY <1>2, <1>3, RowAssigned
  <1>5. \A n \in Built : val[n] \in FieldValue
    BY <1>2, Typed DEF Record
  <1>6. TypeOK'
    <2>1. \A n \in Built : TypedIndex(secondary_indexes'[n])
      BY <1>2, <1>3, <1>5, Typed, PushTyped
    <2>2. rows' \in Int
      <3>1. rows \in Int
        BY <1>2, Typed
      <3> QED
        BY <1>3, <3>1
    <2>3. Built' \subseteq Field /\ stale' \subseteq Built'
      <3>1. Built \subseteq Field /\ stale \subseteq Built
        BY <1>2, Typed
      <3> QED
        BY <1>1, <1>3, <3>1
    <2>4. miscounted' \in BOOLEAN
      BY <1>1, <1>2, Typed
    <2> QED
      BY <1>3, <1>4, <2>1, <2>2, <2>3, <2>4 DEF TypeOK, TableTypeOK, TypedIndex, Built
  <1>7. RowsCounted'
    BY <1>1, <1>2, <1>3, <1>4 DEF RowsCounted
  <1>8. ASSUME NEW n \in Built' \ stale'
        PROVE  Indexes(secondary_indexes'[n], data', n, DOMAIN data')
    <2>1. n \in Built \ stale /\ ~exists(key)
      BY <1>1, <1>3, <1>8
    <2>2. Indexes(secondary_indexes[n], data, n, DOMAIN data)
      BY <1>2, <2>1
    <2>3. key \notin DOMAIN data
      BY <2>1 DEF exists
    <2>4. \A k \in DOMAIN data : data'[k][n] = data[k][n]
      BY <1>3, <2>3 DEF Assign
    <2>5. Indexes(secondary_indexes[n], data', n, DOMAIN data)
      BY <2>2, <2>4, SameRows
    <2>6. DOMAIN data \subseteq Key
      BY <1>2, Typed
    <2>7. data'[key][n] = val[n]
      BY <1>3 DEF Assign
    <2>8. Indexes(PushBack(secondary_indexes[n], data'[key][n], key), data', n, DOMAIN data \cup {key})
      BY <2>3, <2>5, <2>6, Pushes
    <2>9. DOMAIN data \cup {key} = DOMAIN data'
      BY <1>4
    <2> QED
      BY <1>3, <2>1, <2>7, <2>8, <2>9
  <1> QED
    BY <1>6, <1>7, <1>8 DEF IInv

LEMMA DeleteStep ==
  ASSUME IInv, Delete
  PROVE  IInv'
  <1>1. PICK key \in Key :
          /\ remove(key)
          /\ stale' = IF exists(key) THEN Built ELSE stale
          /\ miscounted' = miscounted
    BY DEF Delete
  <1>2. TypeOK /\ RowsCounted /\ \A n \in Built \ stale : Indexes(secondary_indexes[n], data, n, DOMAIN data)
    BY DEF IInv
  <1>3. /\ DOMAIN data' = DOMAIN data \ {key}
        /\ \A k \in DOMAIN data' : data'[k] = data[k]
        /\ rows' = rows - (IF exists(key) THEN 1 ELSE 0)
        /\ secondary_indexes' = secondary_indexes /\ Built' = Built
    BY <1>1 DEF remove, Built
  <1>4. TypeOK'
    <2>1. DOMAIN data' \subseteq Key /\ \A k \in DOMAIN data' : data'[k] \in Record
      BY <1>2, <1>3, Typed
    <2>2. rows' \in Int
      <3>1. rows \in Int
        BY <1>2, Typed
      <3>2. CASE exists(key)
        BY <1>3, <3>1, <3>2
      <3>3. CASE ~exists(key)
        BY <1>3, <3>1, <3>3
      <3> QED
        BY <3>2, <3>3
    <2>3. Built' \subseteq Field /\ stale' \subseteq Built'
      <3>1. Built \subseteq Field /\ stale \subseteq Built
        BY <1>2, Typed
      <3> QED
        BY <1>1, <1>3, <3>1
    <2>4. miscounted' \in BOOLEAN
      BY <1>1, <1>2, Typed
    <2>5. \A n \in Built : TypedIndex(secondary_indexes'[n])
      BY <1>2, <1>3, Typed
    <2> QED
      BY <1>3, <2>1, <2>2, <2>3, <2>4, <2>5 DEF TypeOK, TableTypeOK, TypedIndex, Built
  <1>5. RowsCounted'
    <2>1. IsFiniteSet(DOMAIN data)
      BY <1>2, FieldsTyped
    <2>2. /\ Cardinality(DOMAIN data) \in Nat
          /\ Cardinality(DOMAIN data') = IF exists(key) THEN Cardinality(DOMAIN data) - 1
                                          ELSE Cardinality(DOMAIN data)
      BY <1>3, <2>1, FS_CardinalityType, FS_RemoveElement DEF exists
    <2>3. miscounted \/ rows = Cardinality(DOMAIN data)
      BY <1>2 DEF RowsCounted
    <2>4. rows = Cardinality(DOMAIN data) => rows' = Cardinality(DOMAIN data')
      <3>1. CASE exists(key)
        BY <1>3, <2>2, <3>1
      <3>2. CASE ~exists(key)
        BY <1>3, <2>2, <3>2
      <3> QED
        BY <3>1, <3>2
    <2> QED
      BY <1>1, <2>3, <2>4 DEF RowsCounted
  <1>6. ASSUME NEW n \in Built' \ stale'
        PROVE  Indexes(secondary_indexes'[n], data', n, DOMAIN data')
    <2>1. n \in Built \ stale /\ ~exists(key)
      BY <1>1, <1>3, <1>6
    <2>2. DOMAIN data' = DOMAIN data
      BY <1>3, <2>1 DEF exists
    <2>3. Indexes(secondary_indexes[n], data', n, DOMAIN data)
      BY <1>2, <1>3, <2>1, <2>2, SameRows
    <2> QED
      BY <1>3, <2>2, <2>3
  <1> QED
    BY <1>4, <1>5, <1>6 DEF IInv

(* A subscript that finds no row makes one, and every index is stale.      *)
LEMMA SubscriptMakes ==
  ASSUME IInv, NEW key \in Key, ~exists(key), NEW row \in Record, data' = Assign(data, key, row),
         rows' = rows, secondary_indexes' = secondary_indexes, stale' = Built, miscounted'
  PROVE  IInv'
  <1>1. TypeOK
    BY DEF IInv
  <1>2. DOMAIN data' \subseteq Key /\ (\A k \in DOMAIN data' : data'[k] \in Record)
    BY <1>1, RowAssigned
  <1>3. Built' = Built /\ \A n \in Built : TypedIndex(secondary_indexes'[n])
    BY <1>1, Typed DEF Built
  <1>4. rows' \in Int /\ Built \subseteq Field
    BY <1>1, Typed
  <1>5. miscounted' \in BOOLEAN
    <2>1. miscounted' = TRUE \/ miscounted' \in BOOLEAN
      BY DEF IInv
    <2> QED
      BY <2>1
  <1>6. TypeOK'
    BY <1>2, <1>3, <1>4, <1>5 DEF TypeOK, TableTypeOK, TypedIndex, Built
  <1>7. RowsCounted'
    BY DEF RowsCounted
  <1>8. Built' \ stale' = {}
    BY <1>3
  <1> QED
    BY <1>6, <1>7, <1>8 DEF IInv

LEMMA GetStep ==
  ASSUME IInv, Get
  PROVE  IInv'
  <1>1. PICK key \in Key :
          /\ get(key)
          /\ stale' = IF exists(key) THEN stale ELSE Built
          /\ miscounted' = (miscounted \/ ~exists(key))
    BY DEF Get
  <1>2. rows' = rows /\ secondary_indexes' = secondary_indexes
    BY <1>1 DEF get
  <1>3. CASE exists(key)
    <2>1. data' = data /\ stale' = stale
      BY <1>1, <1>3 DEF get, Subscript
    <2>2. miscounted' = (miscounted \/ FALSE)
      BY <1>1, <1>3
    <2>3. TypeOK'
      <3>1. miscounted' \in BOOLEAN
        BY <2>2
      <3>2. TypeOK
        BY DEF IInv
      <3> QED
        BY <1>2, <2>1, <3>1, <3>2 DEF TypeOK, TableTypeOK, Built
    <2>4. RowsCounted'
      BY <1>2, <2>1, <2>2 DEF IInv, RowsCounted
    <2>5. \A n \in Built' \ stale' : Indexes(secondary_indexes'[n], data', n, DOMAIN data')
      BY <1>2, <2>1 DEF IInv, Built
    <2> QED
      BY <2>3, <2>4, <2>5 DEF IInv
  <1>4. CASE ~exists(key)
    <2> DEFINE row == [n \in Field |-> DefaultValue]
    <2>1. row \in Record
      BY TableAssumption DEF Record
    <2>2. data' = Assign(data, key, row) /\ stale' = Built /\ miscounted'
      BY <1>1, <1>4 DEF get, Subscript
    <2> HIDE DEF row
    <2> QED
      BY <1>2, <1>4, <2>1, <2>2, SubscriptMakes
  <1> QED
    BY <1>3, <1>4

LEMMA SetStep ==
  ASSUME IInv, Set
  PROVE  IInv'
  <1>1. PICK key \in Key, n \in Field, val \in FieldValue :
          /\ set(n, key, val)
          /\ stale' = IF exists(key) THEN stale \cup ({n} \cap Built) ELSE Built
          /\ miscounted' = (miscounted \/ ~exists(key))
    BY DEF Set
  <1>2. rows' = rows /\ secondary_indexes' = secondary_indexes /\ Built' = Built
    BY <1>1 DEF set, Built
  <1>3. TypeOK /\ RowsCounted /\ \A m \in Built \ stale : Indexes(secondary_indexes[m], data, m, DOMAIN data)
    BY DEF IInv
  <1>4. CASE exists(key)
    <2>1. data' = [data EXCEPT ![key][n] = val] /\ stale' = stale \cup ({n} \cap Built)
      BY <1>1, <1>4 DEF set, Subscript
    <2>2. miscounted' = (miscounted \/ FALSE)
      BY <1>1, <1>4
    <2>3. /\ DOMAIN data' = DOMAIN data
          /\ \A k \in DOMAIN data : data'[k] \in Record
          /\ \A k \in DOMAIN data, m \in Field : m # n => data'[k][m] = data[k][m]
      <3>1. \A k \in DOMAIN data : data[k] \in Record
        BY <1>3, Typed
      <3>2. \A k \in DOMAIN data : data'[k] = IF k = key THEN [data[k] EXCEPT ![n] = val] ELSE data[k]
        BY <2>1
      <3>3. \A k \in DOMAIN data : [data[k] EXCEPT ![n] = val] \in Record
        BY <3>1 DEF Record
      <3>4. \A k \in DOMAIN data, m \in Field : m # n => [data[k] EXCEPT ![n] = val][m] = data[k][m]
        BY <3>1 DEF Record
      <3>5. DOMAIN data' = DOMAIN data
        BY <2>1
      <3>6. ASSUME NEW k \in DOMAIN data PROVE data'[k] \in Record
        <4>1. CASE k = key
          BY <3>2, <3>3, <4>1
        <4>2. CASE k # key
          BY <3>1, <3>2, <4>2
        <4> QED
          BY <4>1, <4>2
      <3>7. ASSUME NEW k \in DOMAIN data, NEW m \in Field, m # n
            PROVE  data'[k][m] = data[k][m]
        <4>1. [data[k] EXCEPT ![n] = val][m] = data[k][m]
          BY <3>4, <3>7
        <4>2. CASE k = key
          BY <3>2, <4>1, <4>2
        <4>3. CASE k # key
          BY <3>2, <4>3
        <4> QED
          BY <4>2, <4>3
      <3> QED
        BY <3>5, <3>6, <3>7
    <2>4. TypeOK'
      <3>1. miscounted' \in BOOLEAN
        BY <2>2
      <3>2. /\ rows \in Int /\ DOMAIN data \subseteq Key /\ Built \subseteq Field /\ stale \subseteq Built
            /\ \A m \in Built : TypedIndex(secondary_indexes[m])
        BY <1>3, Typed
      <3>3. stale' \subseteq Built
        BY <2>1, <3>2
      <3> QED
        BY <1>2, <2>3, <3>1, <3>2, <3>3 DEF TypeOK, TableTypeOK, TypedIndex, Built
    <2>5. RowsCounted'
      BY <1>2, <1>3, <2>2, <2>3 DEF RowsCounted
    <2>6. ASSUME NEW m \in Built' \ stale'
          PROVE  Indexes(secondary_indexes'[m], data', m, DOMAIN data')
      <3>1. m \in Built \ stale /\ m # n
        BY <1>2, <2>1, <2>6
      <3>2. m \in Field
        BY <1>3, <3>1, Typed
      <3>3. Indexes(secondary_indexes[m], data, m, DOMAIN data)
        BY <1>3, <3>1
      <3>4. \A k \in DOMAIN data : data'[k][m] = data[k][m]
        BY <2>3, <3>1, <3>2
      <3>5. Indexes(secondary_indexes[m], data', m, DOMAIN data)
        BY <3>3, <3>4, SameRows
      <3> QED
        BY <1>2, <2>3, <3>5
    <2> QED
      BY <2>4, <2>5, <2>6 DEF IInv
  <1>5. CASE ~exists(key)
    <2> DEFINE default == [m \in Field |-> DefaultValue]
               row == [default EXCEPT ![n] = val]
               made == Assign(data, key, default)
    <2>1. row \in Record
      BY TableAssumption DEF Record
    <2>2. data' = [made EXCEPT ![key][n] = val] /\ stale' = Built /\ miscounted'
      BY <1>1, <1>5 DEF set, Subscript
    <2> HIDE DEF default
    <2>3. [made EXCEPT ![key][n] = val] = Assign(data, key, row)
      <3>1. made = [k \in {key} \cup DOMAIN data |-> IF k = key THEN default ELSE data[k]]
        BY DEF Assign
      <3>2. made[key] = default /\ DOMAIN made = {key} \cup DOMAIN data
        BY <3>1
      <3>3. [made EXCEPT ![key][n] = val]
              = [k \in {key} \cup DOMAIN data |-> IF k = key THEN [made[key] EXCEPT ![n] = val] ELSE made[k]]
        BY <3>2
      <3>4. Assign(data, key, row) = [k \in {key} \cup DOMAIN data |-> IF k = key THEN row ELSE data[k]]
        BY DEF Assign
      <3>5. \A k \in {key} \cup DOMAIN data : k # key => made[k] = data[k]
        BY <3>1
      <3> HIDE DEF made
      <3> QED
        BY <3>2, <3>3, <3>4, <3>5
    <2> HIDE DEF row, made
    <2> QED
      BY <1>2, <1>5, <2>1, <2>2, <2>3, SubscriptMakes
  <1> QED
    BY <1>4, <1>5

LEMMA BuildStep ==
  ASSUME IInv, Build
  PROVE  IInv'
  <1>1. PICK n \in Field : build_secondary_index(n) /\ stale' = stale \ {n} /\ miscounted' = miscounted
    BY DEF Build
  <1>2. TypeOK /\ RowsCounted /\ \A m \in Built \ stale : Indexes(secondary_indexes[m], data, m, DOMAIN data)
    BY DEF IInv
  <1>3. /\ rows' = rows /\ data' = data
        /\ Built' = {n} \cup Built /\ secondary_indexes'[n] = IndexOf(data, n)
        /\ \A m \in Built : m # n => secondary_indexes'[m] = secondary_indexes[m]
    BY <1>1 DEF build_secondary_index, Assign, Built
  <1>4. DOMAIN data \subseteq Key
    BY <1>2, Typed
  <1>5. Indexes(IndexOf(data, n), data, n, DOMAIN data)
    BY <1>4, IndexBuilt
  <1>6. TypedIndex(IndexOf(data, n))
    BY <1>2, <1>5, FieldsTyped, IndexTyped
  <1>7. TypeOK'
    <2>1. \A m \in Built' : TypedIndex(secondary_indexes'[m])
      <3>1. \A m \in Built : TypedIndex(secondary_indexes[m])
        BY <1>2, Typed
      <3> QED
        BY <1>3, <1>6, <3>1
    <2>2. rows \in Int /\ DOMAIN data \subseteq Key /\ \A k \in DOMAIN data : data[k] \in Record
      BY <1>2, Typed
    <2>3. Built' \subseteq Field /\ stale' \subseteq Built'
      <3>1. Built \subseteq Field /\ stale \subseteq Built
        BY <1>2, Typed
      <3> QED
        BY <1>1, <1>3, <3>1
    <2>4. miscounted' \in BOOLEAN
      BY <1>1, <1>2, Typed
    <2> QED
      BY <1>3, <2>1, <2>2, <2>3, <2>4 DEF TypeOK, TableTypeOK, TypedIndex, Built
  <1>8. RowsCounted'
    BY <1>1, <1>2, <1>3 DEF RowsCounted
  <1>9. ASSUME NEW m \in Built' \ stale'
        PROVE  Indexes(secondary_indexes'[m], data', m, DOMAIN data')
    <2>1. CASE m = n
      BY <1>3, <1>5, <2>1
    <2>2. CASE m # n
      <3>1. m \in Built \ stale
        BY <1>1, <1>3, <1>9, <2>2
      <3> QED
        BY <1>2, <1>3, <2>2, <3>1
    <2> QED
      BY <2>1, <2>2
  <1> QED
    BY <1>7, <1>8, <1>9 DEF IInv

(* The inductive invariant, for every sequence of calls.                   *)
THEOREM Invariance == Spec => []IInv
  <1>1. MCInit => IInv
    BY InitInv
  <1>2. IInv /\ [Next]_MCVars => IInv'
    <2> SUFFICES ASSUME IInv, [Next]_MCVars PROVE IInv'
      OBVIOUS
    <2>1. CASE Insert
      BY <2>1, InsertStep
    <2>2. CASE Delete
      BY <2>2, DeleteStep
    <2>3. CASE Get
      BY <2>3, GetStep
    <2>4. CASE Set
      BY <2>4, SetStep
    <2>5. CASE Build
      BY <2>5, BuildStep
    <2>6. CASE UNCHANGED MCVars
      BY <2>6 DEF IInv, MCVars, tableVars, TypeOK, TableTypeOK, RowsCounted, Built
    <2> QED
      BY <2>1, <2>2, <2>3, <2>4, <2>5, <2>6 DEF Next
  <1> QED
    BY <1>1, <1>2, PTL DEF Spec

(* The least and the greatest key.                                         *)
LEMMA KeyBounds ==
  ASSUME Key # {}
  PROVE  /\ Min(Key) \in Int /\ Max(Key) \in Int
         /\ \A k \in Key : Min(Key) <= k /\ k <= Max(Key)
  <1> DEFINE s == Ascending(Key)
             N == Len(s)
  <1>1. /\ s \in Seq(Key) /\ N \in Nat /\ DOMAIN s = 1..N
        /\ \A i, j \in DOMAIN s : i < j => s[i] < s[j]
        /\ \A k \in Key : \E i \in DOMAIN s : s[i] = k
    BY TableAssumption, Sorted
  <1> HIDE DEF s
  <1>2. N # 0
    BY <1>1
  <1>3. 1 \in DOMAIN s /\ N \in DOMAIN s
    BY <1>1, <1>2
  <1>4. s[1] \in Key /\ s[N] \in Key
    BY <1>1, <1>3
  <1>5. \A k \in Key : k \in Int
    BY TableAssumption
  <1>6. ASSUME NEW k \in Key PROVE s[1] <= k /\ s[N] >= k
    <2>1. PICK i \in DOMAIN s : s[i] = k
      BY <1>1
    <2>2. s[1] \in Int /\ s[N] \in Int /\ k \in Int
      BY <1>4, <1>5
    <2>3. (i = 1 \/ 1 < i) /\ (i = N \/ i < N)
      BY <1>1
    <2>4. (i = 1 \/ s[1] < s[i]) /\ (i = N \/ s[i] < s[N])
      BY <1>1, <1>3, <2>3
    <2> QED
      BY <2>1, <2>2, <2>4
  <1>7. Min(Key) \in Key /\ \A k \in Key : Min(Key) <= k
    BY <1>4, <1>6 DEF Min
  <1>8. Max(Key) \in Key /\ \A k \in Key : Max(Key) >= k
    BY <1>4, <1>6 DEF Max
  <1> QED
    BY <1>5, <1>7, <1>8

(* A scan of the whole table meets every row.                              *)
LEMMA ScansAll ==
  ASSUME TypeOK
  PROVE  ToSet(scan(Min(Key), Max(Key))) = DOMAIN data
  <1> DEFINE R == {k \in DOMAIN data : Min(Key) <= k /\ k <= Max(Key)}
  <1>1. DOMAIN data \subseteq Key /\ IsFiniteSet(DOMAIN data)
    BY Typed, FieldsTyped
  <1>2. R = DOMAIN data
    <2>1. \A k \in DOMAIN data : Min(Key) <= k /\ k <= Max(Key)
      BY <1>1, KeyBounds
    <2> QED
      BY <2>1
  <1>3. DOMAIN data \subseteq Int
    BY <1>1, TableAssumption
  <1> DEFINE s == Ascending(DOMAIN data)
  <1>4. s \in Seq(DOMAIN data) /\ \A k \in DOMAIN data : \E i \in DOMAIN s : s[i] = k
    BY <1>1, <1>3, Sorted
  <1>5. scan(Min(Key), Max(Key)) = s
    BY <1>2 DEF scan, InRange
  <1> HIDE DEF s
  <1>6. \A i \in DOMAIN s : s[i] \in DOMAIN data
    BY <1>4
  <1> QED
    BY <1>4, <1>5, <1>6 DEF ToSet

(* For every set of keys, fields and values, an index that was told of     *)
(* every change to its rows answers each range scan as the table itself    *)
(* would, and the count of rows is right unless a row was miscounted.      *)
THEOREM AgreementHolds == Spec => []IndexesAgree
  <1>1. IInv => IndexesAgree
    <2> SUFFICES ASSUME IInv PROVE IndexesAgree
      OBVIOUS
    <2>1. TypeOK /\ RowsCounted /\ DOMAIN data \subseteq Key /\ Numbers /\ Built \subseteq Field
      BY Typed, FieldsTyped DEF IInv
    <2>2. ScanBound \subseteq Int
      BY TableAssumption DEF ScanBound
    <2>3. ASSUME NEW n \in Built \ stale, NEW from \in ScanBound, NEW to \in ScanBound
          PROVE  /\ ~Throws(secondary_scan(n, from, to))
                 /\ Finds(secondary_scan(n, from, to), ToSet(scan(Min(Key), Max(Key))), n, from, to)
      <3>1. n \in Built /\ n \in Field /\ from \in Int /\ to \in Int
        BY <2>1, <2>2
      <3>2. Indexes(secondary_indexes[n], data, n, DOMAIN data)
        BY DEF IInv
      <3> QED
        BY <2>1, <3>1, <3>2, ScanFinds, ScansAll
    <2> QED
      BY <2>1, <2>3 DEF IndexesAgree
  <1> QED
    BY <1>1, Invariance, PTL
=============================================================================
