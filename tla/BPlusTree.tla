------------------------------ MODULE BPlusTree ------------------------------
(***************************************************************************)
(* index/b_plus_tree.{h,cpp}: a B+ tree of slotted pages whose leaves hold *)
(* the records.  A page is the list of its slots (SlottedPage is modelled  *)
(* on its own); a removed record leaves a tombstone in its leaf.  The tree *)
(* is single threaded, but a scan lives on between calls that change it.   *)
(* The key is the record's first column, as everywhere in the tests.       *)
(***************************************************************************)
EXTENDS Integers, SequencesExt, FiniteSetsExt

CONSTANTS
  Key, Size,          \* of the records; a size includes the record's slot
  NoKey,              \* a model value
  LeafCapacity,       \* what the slots of a leaf may add up to
  InternalCapacity,   \* how many pairs (key, child) an internal page holds
  MaxPages            \* bound: allocatePage is not called beyond it

ASSUME TreeAssumption ==
  /\ Key \subseteq Int /\ Size \subseteq 1..LeafCapacity
  /\ InternalCapacity \in Nat \ {0, 1} /\ MaxPages \in Nat \ {0}

INVALID_PAGE_ID == 0

VARIABLES
  pages,          \* page_id -> [leaf, slots, left, right], in the order of allocation
  root_page_id,
  cursor          \* the one open BPlusTreeIterator: [data, start_slot, last_key, end]

tree == [pages |-> pages, root |-> root_page_id]

vars == <<pages, root_page_id, cursor>>

Record == [key : Key, size : Size]

PageId == 1..MaxPages

(* A tombstone keeps its size and no key. *)
Slot == [key : Key \cup {NoKey}, size : Size, live : BOOLEAN]

Pair == [key : Key, child : PageId]

LiveSlots(slots) == SelectSeq(slots, LAMBDA s : s.live)

(* Tombstones take room until the page is compactified. *)
SpaceUsed(slots) == FoldLeft(LAMBDA total, s : total + s.size, 0, slots)

TypeOK ==
  /\ Len(pages) \in PageId /\ root_page_id \in DOMAIN pages
  /\ \A p \in DOMAIN pages :
       LET page == pages[p]
       IN  /\ {page.left, page.right} \subseteq {INVALID_PAGE_ID} \cup DOMAIN pages
           /\ IF page.leaf
              THEN page.slots \in Seq(Slot) /\ SpaceUsed(page.slots) <= LeafCapacity
              ELSE page.slots \in Seq(Pair) /\ Len(page.slots) \in 1..InternalCapacity
  /\ \A c \in cursor :
       c.data.leaf /\ c.start_slot \in Nat /\ c.last_key \in Key \cup {NoKey} /\ c.end \in Key

-----------------------------------------------------------------------------
(* Searching.  Slot numbers start at 0, as in the code.                    *)

Live(slots, id) == id < Len(slots) /\ slots[id + 1].live

(* From slot mid forward to a live slot, but not beyond hi. *)
Probe(slots, mid, hi) ==
  LET live == {id \in mid..hi : Live(slots, id)}
  IN  IF live = {} THEN hi ELSE Min(live)

(* findRecord in a leaf: a binary search that lets the next live slot      *)
(* stand in for a tombstone and keeps the best match apart.                *)
LeafSlot(slots, target) ==
  LET n == Len(slots)
      search[lo \in 0..n, hi \in 0..n, best \in 0..n] ==
        LET mid   == lo + (hi - lo) \div 2
            probe == Probe(slots, mid, hi)
        IN  IF lo >= hi THEN IF best < n THEN best ELSE lo
            ELSE IF ~Live(slots, probe) THEN search[lo, mid, best]
            ELSE IF slots[probe + 1].key < target THEN search[probe + 1, hi, best]
            ELSE search[lo, mid, probe]
  IN  search[0, n, n]

(* The last pair whose key does not exceed the target, else the first. *)
ChildFor(slots, target) ==
  slots[Max({1} \cup {i \in DOMAIN slots : slots[i].key <= target})].child

(* findRecord: the pages from the root to the leaf, which is the           *)
(* breadcrumb stack followed by the leaf.                                  *)
PathTo(t, target) ==
  LET walk[p \in PageId] ==
        IF t.pages[p].leaf THEN <<p>>
        ELSE <<p>> \o walk[ChildFor(t.pages[p].slots, target)]
  IN  walk[t.root]

(* The key extractKey makes of what getRecord returns.  For a tombstone or *)
(* a slot past the end it reads the bytes behind an empty string literal:  *)
(* junk is whatever they say.                                              *)
KeyAt(slots, id, junk) == IF Live(slots, id) THEN slots[id + 1].key ELSE junk

-----------------------------------------------------------------------------
(* Splitting.  Each operator takes a tree and returns the tree it leaves.  *)

Fresh(t) == Len(t.pages) + 1

Full(slots) == Len(slots) >= InternalCapacity

(* splitRoot: the new root takes the key in left's first slot for the      *)
(* least key of that subtree.                                              *)
SplitRoot(t, left, separator, right, junk) ==
  LET slots == t.pages[left].slots
      least == IF t.pages[left].leaf THEN KeyAt(slots, 0, junk) ELSE slots[1].key
  IN  [pages |-> Append(t.pages,
         [leaf  |-> FALSE, left |-> INVALID_PAGE_ID, right |-> INVALID_PAGE_ID,
          slots |-> <<[key |-> least, child |-> left], [key |-> separator, child |-> right]>>]),
       root |-> Fresh(t)]

InsertPair(t, parent, separator, child) ==
  LET slots == t.pages[parent].slots
      lo    == Cardinality({i \in DOMAIN slots : slots[i].key < separator})
  IN  [t EXCEPT !.pages[parent].slots = InsertAt(@, lo + 1, [key |-> separator, child |-> child])]

(* The internal page at the end of the stack, cut in two. *)
Halved(t, node) ==
  LET slots == t.pages[node].slots
      pivot == Len(slots) \div 2
  IN  [t EXCEPT !.pages =
         Append([@ EXCEPT ![node].slots = SubSeq(slots, 1, pivot)],
                [@[node] EXCEPT !.slots = SubSeq(slots, pivot + 1, Len(slots))])]

RECURSIVE InsertIntoParent(_, _, _, _, _)

(* splitInternal, which puts the new page's first key into the parent.     *)
SplitInternal(t, bt_stack, junk) ==
  LET node         == Last(bt_stack)
      parent_stack == Front(bt_stack)
      halved       == Halved(t, node)
      separator    == Last(halved.pages).slots[1].key
  IN  IF parent_stack = <<>>
      THEN SplitRoot(halved, node, separator, Fresh(t), junk)
      ELSE InsertIntoParent(halved, parent_stack, separator, Fresh(t), junk)

(* insertIntoParent: a full parent is split first, and the pair goes into  *)
(* the half whose keys it belongs to.                                      *)
InsertIntoParent(t, bt_stack, separator, child, junk) ==
  LET parent == Last(bt_stack)
      split  == SplitInternal(t, bt_stack, junk)
      first  == split.pages[Fresh(t)].slots[1].key
  IN  IF ~Full(t.pages[parent].slots)
      THEN InsertPair(t, parent, separator, child)
      ELSE InsertPair(split, IF first < separator THEN Fresh(t) ELSE parent, separator, child)

(* Mutant: everything is moved. *)
PivotFirst(slots) == Min({id \in 0..Len(slots) : Live(slots, id)})

(* The middle slot or the next live one; when there is none the 16-bit     *)
(* slot number wraps and the walk starts over from slot 0.                 *)
Pivot(slots) ==
  LET from  == Len(slots) \div 2
      live  == {id \in 0..Len(slots) : Live(slots, id)}
      after == {id \in live : id >= from}
  IN  IF after # {} THEN Min(after) ELSE Min(live)

(* Mutant: the old right sibling keeps its left neighbour. *)
RelinkNothing(ps, right, fresh) == ps

Relink(ps, right, fresh) ==
  IF right = INVALID_PAGE_ID THEN ps ELSE [ps EXCEPT ![right].left = fresh]

(* What splitChild moves to the new leaf, and leaves in the old one. *)
Moved(slots) == LiveSlots(SubSeq(slots, Pivot(slots) + 1, Len(slots)))

(* Mutant: the loop that deletes what was moved starts one slot early. *)
KeptBeforePivot(slots) == LiveSlots(SubSeq(slots, 1, Pivot(slots) - 1))

Kept(slots) == LiveSlots(SubSeq(slots, 1, Pivot(slots)))

(* splitChild: the live slots from the pivot on move to a fresh leaf. *)
SplitChild(t, path, junk) ==
  LET leaf  == Last(path)
      page  == t.pages[leaf]
      fresh == Fresh(t)
      moved == Moved(page.slots)
      cut   == [t EXCEPT !.pages = Relink(
                  Append([@ EXCEPT ![leaf].slots = Kept(@), ![leaf].right = fresh],
                         [leaf |-> TRUE, slots |-> moved, left |-> leaf, right |-> page.right]),
                  page.right, fresh)]
  IN  IF Len(path) = 1
      THEN SplitRoot(cut, leaf, moved[1].key, fresh, junk)
      ELSE InsertIntoParent(cut, Front(path), moved[1].key, fresh, junk)

-----------------------------------------------------------------------------
(* The calls.                                                              *)

Init ==
  /\ pages = << [leaf |-> TRUE, slots |-> <<>>, left |-> INVALID_PAGE_ID, right |-> INVALID_PAGE_ID] >>
  /\ root_page_id = 1
  /\ cursor = {}

SlotOf(r) == [key |-> r.key, size |-> r.size, live |-> TRUE]

(* SlottedPage::insertRecordAt: compactifies when there is no gap for the  *)
(* record, and counts the position again.                                  *)
InsertRecordAt(slots, pos, r) ==
  IF SpaceUsed(slots) + r.size <= LeafCapacity
  THEN InsertAt(slots, pos + 1, SlotOf(r))
  ELSE InsertAt(LiveSlots(slots), Len(LiveSlots(SubSeq(slots, 1, pos))) + 1, SlotOf(r))

Fits(slots, r) == SpaceUsed(LiveSlots(slots)) + r.size <= LeafCapacity

(* insert: a record that does not fit its leaf splits the leaf, and is not *)
(* inserted.                                                               *)
Insert(r) ==
  LET path  == PathTo(tree, r.key)
      leaf  == Last(path)
      slots == pages[leaf].slots
  IN  /\ \/ /\ Fits(slots, r)
            /\ pages' = [pages EXCEPT ![leaf].slots =
                           InsertRecordAt(@, LeafSlot(@, r.key), r)]
            /\ UNCHANGED root_page_id
         \/ /\ ~Fits(slots, r)
            /\ \E junk \in Key :
                 LET split == SplitChild(tree, path, junk)
                 IN  /\ Len(split.pages) <= MaxPages
                     /\ pages' = split.pages /\ root_page_id' = split.root
      /\ UNCHANGED cursor

Tombstone(slot) == [slot EXCEPT !.key = NoKey, !.live = FALSE]

(* remove: a tombstone, unless the slot found holds another key or none    *)
(* (then deleteRecord refuses, whatever junk the target was equal to).     *)
RemoveKey(key) ==
  LET leaf  == Last(PathTo(tree, key))
      slots == pages[leaf].slots
      id    == LeafSlot(slots, key)
      found == Live(slots, id) /\ slots[id + 1].key = key
  IN  /\ pages' = IF found THEN [pages EXCEPT ![leaf].slots[id + 1] = Tombstone(@)] ELSE pages
      /\ UNCHANGED <<root_page_id, cursor>>

EmptyBuffer == [key |-> NoKey, size |-> 0]

(* What get may return: a record, or none (null).  Where it compares the   *)
(* target with the bytes behind an empty literal they may be equal: then   *)
(* it returns a buffer of no bytes that is not null.                       *)
Get(t, target) ==
  LET slots == t.pages[Last(PathTo(t, target))].slots
      id    == LeafSlot(slots, target)
  IN  IF ~Live(slots, id) THEN { {}, {EmptyBuffer} }
      ELSE IF slots[id + 1].key # target THEN { {} }
      ELSE { {[key |-> target, size |-> slots[id + 1].size]} }

-----------------------------------------------------------------------------
(* The range scan.  The iterator owns a copy of the leaf it is on.         *)

Cursor(leaf, start_slot, end) ==
  [data |-> leaf, start_slot |-> start_slot, last_key |-> NoKey, end |-> end]

Scan(start, end) ==
  LET leaf == pages[Last(PathTo(tree, start))]
  IN  /\ cursor = {}
      /\ cursor' = {Cursor(leaf, LeafSlot(leaf.slots, start), end)}
      /\ UNCHANGED <<pages, root_page_id>>

(* A binary search for the first slot past the key.  Tombstones in front of *)
(* that slot may be where it ends: Next() skips them.                      *)
SeekFirstAfter(slots, key) ==
  LET n == Len(slots)
      seek[lo \in 0..n, hi \in 0..n] ==
        LET mid   == lo + (hi - lo) \div 2
            probe == Probe(slots, mid, hi)
        IN  IF lo >= hi THEN lo
            ELSE IF probe >= hi THEN seek[lo, mid]
            ELSE IF slots[probe + 1].key <= key THEN seek[probe + 1, hi]
            ELSE seek[lo, probe]
  IN  seek[0, n]

(* The first live slot from pos on, here or in the leaves to the right,    *)
(* with the leaf it is in; the last leaf and no slot when there is none.   *)
RECURSIVE NextLive(_, _)
NextLive(page, pos) ==
  LET live == {id \in pos..Len(page.slots) : Live(page.slots, id)}
  IN  IF live # {} THEN [data |-> page, slot |-> {page.slots[Min(live) + 1]}]
      ELSE IF page.right = INVALID_PAGE_ID THEN [data |-> page, slot |-> {}]
      ELSE NextLive(pages[page.right], 0)

Landing(c) ==
  NextLive(c.data, IF c.last_key = NoKey THEN c.start_slot
                   ELSE SeekFirstAfter(c.data.slots, c.last_key))

(* Mutant: the end of the range is left out. *)
EmittedBelowEnd(c) == {s.key : s \in {s \in Landing(c).slot : s.key < c.end}}

(* The key Next() emits from a cursor, in a set; the empty set for nullopt. *)
Emitted(c) == {s.key : s \in {s \in Landing(c).slot : s.key <= c.end}}

(* BPlusTreeIterator::Next; the caller stops at nullopt. *)
CursorNext ==
  \E c \in cursor :
    /\ cursor' = {[c EXCEPT !.data = Landing(c).data, !.last_key = key] : key \in Emitted(c)}
    /\ UNCHANGED <<pages, root_page_id>>

Next ==
  \/ \E r \in Record : Insert(r)
  \/ \E key \in Key : RemoveKey(key)
  \/ \E start, end \in Key : Scan(start, end)
  \/ CursorNext

Spec == Init /\ [][Next]_vars

-----------------------------------------------------------------------------
Leaves == {p \in DOMAIN pages : pages[p].leaf}

Records ==
  UNION {{[key |-> s.key, size |-> s.size] : s \in Range(LiveSlots(pages[p].slots))} : p \in Leaves}

(* get returns the record that matches its target: a record in some leaf   *)
(* is where findRecord looks for it.  Of arbitrary callers it does not     *)
(* hold: the routing keys of the first children do not follow an insertion *)
(* below them.                                                             *)
EveryRecordFound == \A r \in Records : Get(tree, r.key) = {{r}}
=============================================================================
