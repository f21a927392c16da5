---------------------------- MODULE MCSlottedPage ----------------------------
(***************************************************************************)
(* SlottedPage with the two kinds of users its code supports:              *)
(*   index: BPlusTree, which adds records with insertRecordAt and calls    *)
(*     insertRecord only on pages without tombstones;                      *)
(*   heap: insertRecord on any page, as long as reusing a tombstone needs  *)
(*     no compaction (else the number it chose may be stale).              *)
(* Both update live records only, and no record is so long that 16 bits do *)
(* not hold its length and its slot's together: insertRecord would take it *)
(* for a short one.                                                        *)
(***************************************************************************)
EXTENDS SlottedPage

ASSUME LengthAssumption == \A size \in Size : size + SlotSize < Word

VARIABLE user

MCVars == <<vars, user>>

MCInit == Init /\ user \in {"index", "heap"}

MayReuse(r) == user = "heap" /\ CanInsertContigious(page, r.size, 0)

MCNext ==
  /\ \/ \E r \in Record : AppendRecord(r) \/ (MayReuse(r) /\ ReuseSlot(r))
     \/ \E id \in SlotId, r \in Record :
          \/ user = "index" /\ InsertRecordAt(id, r)
          \/ id + 1 \in LiveSlots(page) /\ UpdateRecord(id, r)
     \/ \E id \in SlotId : DeleteRecord(id)
     \/ Compactify
  /\ UNCHANGED user

MCSpec == MCInit /\ [][MCNext]_MCVars
-----------------------------------------------------------------------------
(* The slot array never runs into the heap, and for an index the free      *)
(* space of a page is exactly what its live records leave: an insertion is *)
(* refused only when the records would not fit a freshly packed page.  No  *)
(* assertion fails.                                                        *)
SpaceAccounted ==
  /\ TypeOK /\ fault = "none"
  /\ HeaderSize + SlotSize * Len(page.slots) <= page.free_space_ptr
  /\ user = "index" =>
       TotalFreeSpace(page) = PageSize - HeaderSize
         - HeapBytes(page.slots, LiveSlots(page)) - SlotSize * Cardinality(LiveSlots(page))

(* insertRecordAt puts its record right behind the live records that come  *)
(* before logical_pos, whether or not it compactifies on the way: the      *)
(* order of the keys in a leaf hangs on it.                                *)
InsertsWhereAsked ==
  [][ \A pos \in SlotId, r \in Record :
        InsertRecordAt(pos, r) =>
          Contents(page') = InsertAt(Contents(page), LiveBefore(page, pos) + 1, Bytes(r)) ]_MCVars

(* The page is a list of records: no insertion, deletion, update or        *)
(* compaction changes, loses, revives or reorders another record.          *)
List == INSTANCE RecordList WITH
  Record <- {Bytes(r) : r \in Record},
  records <- Contents(page)

ImplementsRecordList == List!Spec
=============================================================================
