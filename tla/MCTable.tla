------------------------------ MODULE MCTable ------------------------------
(***************************************************************************)
(* The table under a caller who calls whatever it likes, with a record of  *)
(* the calls that an index is not told of and of those that are miscounted.*)
(***************************************************************************)
EXTENDS IndexOrganizedTable, FiniteSets

CONSTANTS
  MaxRows,       \* bound on how far rows gets from 0
  MaxEntries     \* bound on the entries of an index

VARIABLES
  stale,         \* the fields whose index was built before such a call
  miscounted     \* a row was overwritten, or made by a subscript

MCVars == <<tableVars, stale, miscounted>>

Entries(idx) ==
  {e \in FieldValue \X (1..MaxEntries) : e[1] \in DOMAIN idx /\ e[2] \in DOMAIN idx[e[1]]}

Built == DOMAIN secondary_indexes

MCInit == TableInit /\ stale = {} /\ miscounted = FALSE

Insert ==
  \E key \in Key, val \in Record :
    /\ rows < MaxRows                                                    \* bound
    /\ \A n \in Built : Cardinality(Entries(secondary_indexes[n])) < MaxEntries \* bound
    /\ insert(key, val)
    /\ stale' = IF exists(key) THEN Built ELSE stale
    /\ miscounted' = (miscounted \/ exists(key))

Delete ==
  \E key \in Key :
    /\ rows > -MaxRows                                                   \* bound
    /\ remove(key)
    /\ stale' = IF exists(key) THEN Built ELSE stale
    /\ UNCHANGED miscounted

Get ==
  \E key \in Key :
    /\ get(key)
    /\ stale' = IF exists(key) THEN stale ELSE Built
    /\ miscounted' = (miscounted \/ ~exists(key))

Set ==
  \E key \in Key, n \in Field, val \in FieldValue :
    /\ set(n, key, val)
    /\ stale' = IF exists(key) THEN stale \cup ({n} \cap Built) ELSE Built
    /\ miscounted' = (miscounted \/ ~exists(key))

Build ==
  \E n \in Field :
    /\ build_secondary_index(n)
    /\ stale' = stale \ {n}
    /\ UNCHANGED miscounted

Next == Insert \/ Delete \/ Get \/ Set \/ Build

Spec == MCInit /\ [][Next]_MCVars
-----------------------------------------------------------------------------

TypeOK == TableTypeOK /\ stale \subseteq Built /\ miscounted \in BOOLEAN

RowsCounted == miscounted \/ rows = Cardinality(DOMAIN data)

ScanBound == {v - 1 : v \in FieldValue} \cup {v + 1 : v \in FieldValue}

(* The rows of an indexed range: each of them once, and in the order of    *)
(* the field.                                                              *)
Finds(keys, all, n, from, to) ==
  /\ IsInjective(keys)
  /\ ToSet(keys) = {k \in all : from <= data[k][n] /\ data[k][n] <= to}
  /\ \A i, j \in DOMAIN keys : i < j => data[keys[i]][n] <= data[keys[j]][n]

(* What is derived from the rows agrees with them.  As long as rows were   *)
(* only added under new keys since an index was built, a secondary scan of *)
(* any range finds what a scan of the whole table would, and does not      *)
(* throw; building the index again repairs it.  Unless a row was           *)
(* overwritten or made by a subscript, the member rows counts the rows,    *)
(* whichever of them were removed.                                         *)
IndexesAgree ==
  /\ TypeOK /\ RowsCounted
  /\ \A n \in Built \ stale, from, to \in ScanBound :
       ~RunsPastEnd(DOMAIN secondary_indexes[n], from, to) =>
         LET keys == secondary_scan(n, from, to)
             all == ToSet(scan(Min(Key), Max(Key)))
         IN  ~Throws(keys) /\ Finds(keys, all, n, from, to)
=============================================================================
