----------------------------- MODULE SlottedPage -----------------------------
(***************************************************************************)
(* storage/slotted_page.{h,cpp}: one page of variable-length records.  The *)
(* slot array grows from the header forward, the heap of record bytes from *)
(* the end of the page backward; a deleted record leaves a tombstone (a    *)
(* slot with offset 0) and its bytes until the page is compactified.       *)
(***************************************************************************)
EXTENDS Integers, FiniteSetsExt, SequencesExt

CONSTANTS
  PageSize, HeaderSize, SlotSize,   \* config.h PAGE_SIZE, sizeof(SlottedPageHeader), sizeof(Slot)
  Word,                             \* 2^16: lengths and offsets are uint16_t
  Name, Size                        \* the records: a name stands for the contents

ASSUME PageAssumption ==
  /\ {PageSize, HeaderSize, SlotSize, Word} \subseteq Nat \ {0}
  /\ HeaderSize < PageSize /\ PageSize < Word
  /\ Size \subseteq 1..(Word - 1)

VARIABLES
  page,     \* [slots, free_space_ptr, data]: slot_id i is slots[i + 1]
  fault     \* "none", "assert" (a failed assertion), "header" (its bytes overwritten)

vars == <<page, fault>>

Record == [name : Name, size : Size]

(* Byte k of a record tells the record and its place in it. *)
Bytes(r) == [k \in 1..r.size |-> <<r.name, k>>]

Address == HeaderSize..(PageSize - 1)

TypeOK ==
  /\ \A i \in 1..Len(page.slots) :
       page.slots[i].offset \in {0} \cup Address /\ page.slots[i].size \in 1..(PageSize - HeaderSize)
  /\ page.free_space_ptr \in HeaderSize..PageSize
  /\ DOMAIN page.data = Address
  /\ fault \in {"none", "assert", "header"}

-----------------------------------------------------------------------------
(* memcpy and memmove.                                                     *)
Load(data, at, size) == [k \in 1..size |-> data[at + k - 1]]

Store(data, at, bytes) ==
  [a \in Address |-> IF a \in at..(at + Len(bytes) - 1) THEN bytes[a - at + 1] ELSE data[a]]

Live(slot) == slot.offset # 0

LiveSlots(p) == {i \in 1..Len(p.slots) : Live(p.slots[i])}

(* The live ones, one behind the other. *)
LiveInOrder(p) ==
  LET upTo[i \in 0..Len(p.slots)] ==
        IF i = 0 THEN <<>>
        ELSE IF Live(p.slots[i]) THEN Append(upTo[i - 1], i) ELSE upTo[i - 1]
  IN  upTo[Len(p.slots)]

(* The tombstone that insertRecord reuses: the first one. *)
FirstFree(p) == Min((1..Len(p.slots)) \ LiveSlots(p))

LiveBefore(p, pos) == Cardinality({i \in LiveSlots(p) : i <= pos})

FreeSpace(p) == (p.free_space_ptr - (HeaderSize + SlotSize * Len(p.slots))) % Word

(* How many bytes of the heap the records of some slots take, or took. *)
HeapBytes(slots, ids) == Cardinality(UNION {{i} \X (1..slots[i].size) : i \in ids})

(* Mutant: the slots of the tombstones do not count. *)
TotalFreeSpaceOmitsSlots(p) ==
  LET dead == (1..Len(p.slots)) \ LiveSlots(p)
      gap  == p.free_space_ptr - (HeaderSize + SlotSize * Len(p.slots))
  IN  Max({0, gap + HeapBytes(p.slots, dead)}) % Word

(* The bytes and the slots of the tombstones count: a compaction frees     *)
(* both.                                                                   *)
TotalFreeSpace(p) ==
  LET dead == (1..Len(p.slots)) \ LiveSlots(p)
      gap  == p.free_space_ptr - (HeaderSize + SlotSize * Len(p.slots))
  IN  Max({0, gap + HeapBytes(p.slots, dead) + SlotSize * Cardinality(dead)}) % Word

CanInsertContigious(p, length, growth) == FreeSpace(p) >= length + growth

-----------------------------------------------------------------------------
(* Records are packed against the end of the page from the highest offset  *)
(* down, each over bytes already moved or dead; then the tombstones go and *)
(* the live slots close up in their order.                                 *)
Pack(p, i) ==
  LET slot == p.slots[i]
      to   == p.free_space_ptr - slot.size
  IN  [p EXCEPT !.free_space_ptr = to,
                !.slots[i].offset = to,
                !.data = Store(@, to, Load(@, slot.offset, slot.size))]

CloseUp(p) ==
  LET live == LiveInOrder(p)
  IN  [p EXCEPT !.slots = [k \in DOMAIN live |-> p.slots[live[k]]]]

PackInOrder(p, order) ==
  LET packing[k \in 0..Len(order)] ==
        IF k = 0 THEN [p EXCEPT !.free_space_ptr = PageSize]
        ELSE Pack(packing[k - 1], order[k])
  IN  CloseUp(packing[Len(order)])

Orders(p) == [1..Cardinality(LiveSlots(p)) -> LiveSlots(p)]

(* Mutant: from the lowest offset up. *)
PackedUpwards(p) ==
  PackInOrder(p, CHOOSE order \in Orders(p) :
    \A j, k \in DOMAIN order : j < k => p.slots[order[j]].offset < p.slots[order[k]].offset)

Packed(p) ==
  PackInOrder(p, CHOOSE order \in Orders(p) :
    \A j, k \in DOMAIN order : j < k => p.slots[order[j]].offset > p.slots[order[k]].offset)

(* The record's bytes go on top of the heap. *)
Push(p, r) ==
  LET to == p.free_space_ptr - r.size
  IN  [p EXCEPT !.free_space_ptr = to, !.data = Store(@, to, Bytes(r))]

TopSlot(p, r) == [offset |-> p.free_space_ptr, size |-> r.size]

Set(p) == page' = p /\ UNCHANGED fault

(* What an insertion finds room in: the page, compactified when the record *)
(* and the slots it adds do not fit the gap.                               *)
Fits(r, growth) == (r.size + growth) % Word <= TotalFreeSpace(page)

Room(r, growth) ==
  IF CanInsertContigious(page, r.size, growth) THEN page ELSE Packed(page)

-----------------------------------------------------------------------------
Init ==
  /\ page = [slots |-> <<>>, free_space_ptr |-> PageSize, data |-> [a \in Address |-> <<>>]]
  /\ fault = "none"

HasTombstone == LiveSlots(page) # 1..Len(page.slots)

(* insertRecord on a page without tombstones: a new slot at the end. *)
AppendRecord(r) ==
  /\ ~HasTombstone /\ Fits(r, SlotSize)
  /\ LET p == Push(Room(r, SlotSize), r)
     IN  Set([p EXCEPT !.slots = Append(@, TopSlot(p, r))])

(* insertRecord into the first tombstone.  Its slot_id was found before    *)
(* the compaction, which renumbers the slots: after one it is the id of a  *)
(* live slot, or of none (the assertion fails).                            *)
ReuseSlot(r) ==
  /\ HasTombstone /\ Fits(r, 0)
  /\ LET p  == Push(Room(r, 0), r)
         id == FirstFree(page)
     IN  IF id <= Len(p.slots)
         THEN Set([p EXCEPT !.slots[id] = TopSlot(p, r)])
         ELSE page' = p /\ fault' = "assert"

InsertRecord(r) == AppendRecord(r) \/ ReuseSlot(r)

(* Mutant: logical_pos is not counted again after a compaction. *)
InsertRecordAtStale(logical_pos, r) ==
  /\ logical_pos <= Len(page.slots) /\ Fits(r, SlotSize)
  /\ LET p   == Push(Room(r, SlotSize), r)
         pos == Min({logical_pos, Len(p.slots)})
     IN  Set([p EXCEPT !.slots = InsertAt(@, pos + 1, TopSlot(p, r))])

(* insertRecordAt: a new slot at logical_pos, which is counted again when  *)
(* the page is compactified on the way.                                    *)
InsertRecordAt(logical_pos, r) ==
  /\ logical_pos <= Len(page.slots) /\ Fits(r, SlotSize)
  /\ LET p   == Push(Room(r, SlotSize), r)
         pos == IF CanInsertContigious(page, r.size, SlotSize)
                THEN logical_pos ELSE LiveBefore(page, logical_pos)
     IN  Set([p EXCEPT !.slots = InsertAt(@, pos + 1, TopSlot(p, r))])

(* The tombstone keeps its size. *)
DeleteRecord(slot_id) ==
  /\ slot_id + 1 \in LiveSlots(page)
  /\ Set([page EXCEPT !.slots[slot_id + 1].offset = 0])

(* A tombstone passes the size check too: its offset 0 is the header's.    *)
UpdateRecord(slot_id, r) ==
  /\ slot_id < Len(page.slots) /\ page.slots[slot_id + 1].size = r.size
  /\ LET slot == page.slots[slot_id + 1]
     IN  IF Live(slot) THEN Set([page EXCEPT !.data = Store(@, slot.offset, Bytes(r))])
                       ELSE fault' = "header" /\ UNCHANGED page

Compactify == Set(Packed(page))

(* Bound by the page itself: it holds so many slots and no more. *)
SlotId == 0..((PageSize - HeaderSize) \div SlotSize)

Next ==
  /\ fault = "none"
  /\ \/ \E r \in Record : InsertRecord(r)
     \/ \E id \in SlotId, r \in Record : InsertRecordAt(id, r) \/ UpdateRecord(id, r)
     \/ \E id \in SlotId : DeleteRecord(id)
     \/ Compactify

Spec == Init /\ [][Next]_vars

-----------------------------------------------------------------------------
(* What getRecord returns for the live slots, in their order.              *)
Contents(p) ==
  LET live == LiveInOrder(p)
  IN  [k \in DOMAIN live |->
         LET slot == p.slots[live[k]] IN Load(p.data, slot.offset, slot.size)]
=============================================================================
