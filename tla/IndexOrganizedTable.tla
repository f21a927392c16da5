------------------------ MODULE IndexOrganizedTable ------------------------
(***************************************************************************)
(* ch1/index_organized_table.cpp: a table kept in the order of its primary *)
(* key, with secondary indexes that map a field's value to the primary     *)
(* keys of the rows that have it.  A row is a function from the positions  *)
(* of its fields to their values, and values are numbers.                  *)
(***************************************************************************)
EXTENDS Integers, FiniteSets, SequencesExt

CONSTANTS Key, Field, FieldValue, DefaultValue

ASSUME TableAssumption ==
  /\ Key \subseteq Int /\ IsFiniteSet(Key)
  /\ FieldValue \subseteq Int /\ DefaultValue \in FieldValue

VARIABLES
  rows,
  data,                \* std::map: key -> row
  secondary_indexes    \* field -> (value -> the keys in a vector)

tableVars == <<rows, data, secondary_indexes>>

Record == [Field -> FieldValue]

TableTypeOK ==
  /\ rows \in Int
  /\ DOMAIN data \subseteq Key /\ \A k \in DOMAIN data : data[k] \in Record
  /\ DOMAIN secondary_indexes \subseteq Field
  /\ \A n \in DOMAIN secondary_indexes : \A v \in DOMAIN secondary_indexes[n] :
       /\ v \in FieldValue
       /\ secondary_indexes[n][v] \in Seq(Key) \ {<<>>}

TableInit == rows = 0 /\ data = <<>> /\ secondary_indexes = <<>>

exists(key) == key \in DOMAIN data

(* map[key] = value *)
Assign(map, key, value) ==
  [k \in {key} \cup DOMAIN map |-> IF k = key THEN value ELSE map[k]]

(* map[value].push_back(key) *)
PushBack(idx, value, key) ==
  Assign(idx, value, Append(IF value \in DOMAIN idx THEN idx[value] ELSE <<>>, key))

(* Mutant: an index that has an entry for the value is left as it is. *)
update_secondary_index_once(idx, val, field_pos, key) ==
  IF val[field_pos] \in DOMAIN idx THEN idx ELSE PushBack(idx, val[field_pos], key)

update_secondary_index(idx, val, field_pos, key) == PushBack(idx, val[field_pos], key)

(* A row under the same key is overwritten, and counted and indexed anew. *)
insert(key, val) ==
  /\ data' = Assign(data, key, val)
  /\ rows' = rows + 1
  /\ secondary_indexes' = [n \in DOMAIN secondary_indexes |->
                             update_secondary_index(secondary_indexes[n], val, n, key)]

(* The indexes keep the key. *)
remove(key) ==
  /\ rows' = rows - (IF exists(key) THEN 1 ELSE 0)
  /\ data' = [k \in DOMAIN data \ {key} |-> data[k]]
  /\ UNCHANGED secondary_indexes

(* data[index] makes a row of default values where there is none. *)
Subscript(index) ==
  IF exists(index) THEN data ELSE Assign(data, index, [n \in Field |-> DefaultValue])

get(index) ==
  /\ data' = Subscript(index)
  /\ UNCHANGED <<rows, secondary_indexes>>

set(n, index, val) ==
  /\ data' = [Subscript(index) EXCEPT ![index][n] = val]
  /\ UNCHANGED <<rows, secondary_indexes>>

(* The order in which an iterator over a std::map meets its keys. *)
Ascending(S) ==
  CHOOSE s \in [1..Cardinality(S) -> S] : \A i, j \in DOMAIN s : i < j => s[i] < s[j]

(* The index of the rows there are, one push_back after the other. *)
IndexOf(table, n) ==
  LET keys == Ascending(DOMAIN table)
      idx[i \in 0..Len(keys)] ==
        IF i = 0 THEN <<>> ELSE PushBack(idx[i - 1], table[keys[i]][n], keys[i])
  IN  idx[Len(keys)]

(* Replaces the index there was. *)
build_secondary_index(n) ==
  /\ secondary_indexes' = Assign(secondary_indexes, n, IndexOf(data, n))
  /\ UNCHANGED <<rows, data>>

-----------------------------------------------------------------------------
(* Scans.  They change nothing; what matters is the keys of the rows func  *)
(* is called with, in order.                                               *)

(* lower_bound(from) lies behind upper_bound(to): the loop never meets its *)
(* end.                                                                    *)
RunsPastEnd(sorted, from, to) == \E v \in sorted : to < v /\ v < from

InRange(sorted, from, to) == Ascending({v \in sorted : from <= v /\ v <= to})

scan(from, to) == InRange(DOMAIN data, from, to)

(* The keys in the index; data.at throws at the first that has no row. *)
secondary_scan(n, from, to) ==
  IF n \notin DOMAIN secondary_indexes THEN <<>>
  ELSE FlattenSeq([i \in DOMAIN InRange(DOMAIN secondary_indexes[n], from, to) |->
                     secondary_indexes[n][InRange(DOMAIN secondary_indexes[n], from, to)[i]]])

Throws(keys) == \E i \in DOMAIN keys : ~exists(keys[i])
=============================================================================
