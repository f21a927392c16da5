----------------------------- MODULE MCBPlusTree -----------------------------
(***************************************************************************)
(* BPlusTree with callers that insert a key only when it is absent, as a   *)
(* primary key is (the code says that keys cannot tie).  UniqueSpec is all *)
(* they may do.  MCSpec has them insert no key below the least routing key *)
(* once there is an internal page: below it the tree loses records, which  *)
(* EveryRecordFound shows of UniqueSpec.                                   *)
(***************************************************************************)
EXTENDS BPlusTree

CONSTANTS
  Start, End,     \* bound: the ends of the ranges that are scanned
  MaxChanges      \* bound: calls that change the tree while a scan is open

VARIABLES
  width,      \* the size of every record: the schema has fixed-width columns
  found,      \* the records get finds, computed once per state
  due,        \* the keys the open scan owes: they were and are there, not emitted yet
  changes     \* bounded by MaxChanges

MCVars == <<vars, width, found, due, changes>>

Gettable(t) == Record \cap UNION UNION {Get(t, key) : key \in Key}

Absent(key) == \A r \in Records : r.key # key

AboveLeast(key) ==
  IF pages[root_page_id].leaf THEN TRUE ELSE key >= pages[root_page_id].slots[1].key

UniqueInit == Init /\ width \in Size /\ found = {} /\ due = {} /\ changes = 0

Counted ==
  /\ changes < MaxChanges
  /\ changes' = IF cursor = {} THEN 0 ELSE changes + 1

UniqueInsert(r) == r.size = width /\ Absent(r.key) /\ Insert(r) /\ Counted /\ UNCHANGED due /\ found' = Gettable(tree')

UniqueRemove(key) == RemoveKey(key) /\ Counted /\ due' = due \ {key} /\ found' = Gettable(tree')

UniqueScan(start, end) ==
  /\ Scan(start, end) /\ UNCHANGED <<found, changes>>
  /\ due' = {r.key : r \in {r \in Records : r.key \in start..end}}

UniqueCursorNext ==
  /\ CursorNext /\ changes' = 0 /\ UNCHANGED found
  /\ due' = IF cursor' = {} THEN {} ELSE due \ {c.last_key : c \in cursor'}

UniqueRest ==
  \/ \E key \in Key : UniqueRemove(key)
  \/ \E start \in Start, end \in End : UniqueScan(start, end)
  \/ UniqueCursorNext

UniqueNext == (UniqueRest \/ \E r \in Record : UniqueInsert(r)) /\ UNCHANGED width

UniqueSpec == UniqueInit /\ [][UniqueNext]_MCVars

MCNext ==
  /\ UniqueRest \/ \E r \in Record : AboveLeast(r.key) /\ UniqueInsert(r)
  /\ UNCHANGED width

MCSpec == UniqueInit /\ [][MCNext]_MCVars

-----------------------------------------------------------------------------
(* Slot i holds key i or is dead. *)
LeafWith(live) ==
  [i \in DOMAIN live |-> [key |-> IF live[i] THEN i ELSE NoKey, size |-> 1, live |-> live[i]]]

(* Both binary searches over a leaf, against what they search for: the     *)
(* first live slot that reaches the target, and a place from which the     *)
(* next live slot is the first one past the key.                           *)
ASSUME SearchesCorrect ==
  \A n \in 0..6 : \A live \in [1..n -> BOOLEAN] : \A target \in 0..(n + 1) :
    LET slots   == LeafWith(live)
        reach   == {i \in 1..n : live[i] /\ i >= target}
        past    == {i \in 1..n : live[i] /\ i > target}
        after   == SeekFirstAfter(slots, target)
        onwards == {i \in (after + 1)..n : live[i]}
    IN  /\ reach # {} => LeafSlot(slots, target) = Min(reach) - 1
        /\ reach = {} => LeafSlot(slots, target) \in 0..n
        /\ onwards = past

-----------------------------------------------------------------------------
(* The leaves in the order of their right siblings, from p on. *)
RECURSIVE Chain(_)
Chain(p) == <<p>> \o IF pages[p].right = INVALID_PAGE_ID THEN <<>> ELSE Chain(pages[p].right)

(* The sibling pointers string all leaves together, in both directions and *)
(* in the order of their keys, whatever splits made them.                  *)
LeavesChained ==
  LET first == {p \in Leaves : pages[p].left = INVALID_PAGE_ID}
      chain == Chain(CHOOSE p \in first : TRUE)
      keys  == FoldLeft(LAMBDA ks, p : ks \o LiveSlots(pages[p].slots), <<>>, chain)
  IN  /\ TypeOK
      /\ Cardinality(first) = 1 /\ Range(chain) = Leaves
      /\ \A p \in Leaves : pages[p].right # INVALID_PAGE_ID => pages[pages[p].right].left = p
      /\ \A i \in 1..(Len(keys) - 1) : keys[i].key < keys[i + 1].key

(* A scan emits keys in ascending order and inside its range, and however  *)
(* the tree is split and changed between its steps, it emits every key     *)
(* that was there all along before it goes past it or ends.                *)
ScanMissesNothing ==
  [][ \A c \in cursor :
        CursorNext =>
          /\ \A k \in Emitted(c) :
               /\ k <= c.end /\ (c.last_key # NoKey => c.last_key < k)
               /\ \A d \in due : d >= k
          /\ Emitted(c) = {} => due = {} ]_MCVars

(* An insertion that splits a leaf does not put its record anywhere, and   *)
(* says true all the same: the caller who tries once more succeeds, as the *)
(* leaf the split leaves for the key has room for it.                      *)
SplitMakesRoom ==
  [][ \A r \in Record :
        Len(pages') > Len(pages) /\ UniqueInsert(r) =>
          Fits(pages'[Last(PathTo(tree', r.key))].slots, r) ]_MCVars

(* What get finds changes only as the caller asks: each call of the tree   *)
(* is the same call of the index, for the same record or key.  An insert   *)
(* that splits no leaf makes its record found, one that does changes       *)
(* nothing that is found, a removal takes its key away, and no call makes  *)
(* another record appear, disappear or unfindable.                         *)
Index == INSTANCE OrderedIndex WITH records <- found

ImplementsOrderedIndex ==
  /\ Index!Init
  /\ [][ /\ \A r \in Record :
              \/ IF Len(pages') = Len(pages) THEN Index!Insert(r) ELSE Index!InsertDropped(r)
              \/ ~UniqueInsert(r)
         /\ \A key \in Key : Index!Remove(key) \/ ~UniqueRemove(key)
         /\ cursor' = cursor \/ Index!Look ]_MCVars
=============================================================================
