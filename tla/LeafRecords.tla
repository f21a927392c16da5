---------------------------- MODULE LeafRecords ----------------------------
(***************************************************************************)
(* A caller's Tuple and the records of one leaf: rows are built, changed,  *)
(* serialised and put where BPlusTree's findRecord says, and read back.    *)
(* A leaf is the sequence of its records' bytes; pages and splits are the  *)
(* business of SlottedPage and BPlusTree.                                  *)
(***************************************************************************)
EXTENDS Tuples

VARIABLES
  schema,       \* Tuple::schema and BPlusTree::schema_
  key_col,      \* key_col_idx_, counted from 1
  tuple,        \* the Values of the caller's Tuple, or NoTuple
  leaf

rowVars == <<schema, key_col, tuple, leaf>>

NoTuple == <<>>

RowsTypeOK ==
  /\ schema = Schema(schema.columns)
  /\ key_col \in DOMAIN schema.columns
  /\ tuple = NoTuple \/ DOMAIN tuple = DOMAIN schema.columns
  /\ \A i \in DOMAIN tuple : tuple[i].type_id = schema.columns[i].type_id
  /\ leaf \in Seq(Seq(Byte))

RowsInit(Schemas) ==
  /\ schema \in Schemas
  /\ key_col \in DOMAIN schema.columns
  /\ tuple = NoTuple /\ leaf = <<>>

HasTuple == tuple # NoTuple

MakeTuple(values) ==
  /\ ~HasTuple
  /\ tuple' = values
  /\ UNCHANGED <<schema, key_col, leaf>>

GetField(col) == tuple[col]

(* The parameter is a copy, and its end frees what the field now points    *)
(* to.  What the field pointed to before is never freed.                   *)
SetField(col, v) ==
  /\ HasTuple
  /\ tuple' = [tuple EXCEPT ![col] = CopyOfDead(v)]
  /\ UNCHANGED <<schema, key_col, leaf>>

(* The key of a record, and the key as a caller makes it of a value. *)
RecordKey(record) == extractKey(schema, key_col, record)

KeyOf(v) == LET bytes == Serialize(v) IN FromBytes(v.type_id, v.width, bytes, Len(bytes))

(* findRecord over a leaf without tombstones: slots count from 0. *)
FindSlot(records, target) ==
  LET search[lo \in 0..Len(records), hi \in 0..Len(records)] ==
        LET mid == lo + (hi - lo) \div 2
        IN  IF lo >= hi THEN lo
            ELSE IF KeyCompare(RecordKey(records[mid + 1]), target) < 0 THEN search[mid + 1, hi]
            ELSE search[lo, mid]
  IN  search[0, Len(records)]

RecordBytes == TupleSerialize(schema, tuple)

SlotFor(record) == FindSlot(leaf, RecordKey(record))

Insert ==
  /\ HasTuple
  /\ leaf' = InsertAt(leaf, SlotFor(RecordBytes) + 1, RecordBytes)
  /\ UNCHANGED <<schema, key_col, tuple>>

(* updateRecord of the slot: the sizes have to match. *)
Update(slot) ==
  /\ HasTuple
  /\ slot + 1 \in DOMAIN leaf /\ Len(leaf[slot + 1]) = Len(RecordBytes)
  /\ leaf' = [leaf EXCEPT ![slot + 1] = RecordBytes]
  /\ UNCHANGED <<schema, key_col, tuple>>

(* Tuple::Deserialize of the record in a slot. *)
Load(slot) ==
  /\ ~HasTuple
  /\ slot + 1 \in DOMAIN leaf
  /\ tuple' = TupleDeserialize(schema, leaf[slot + 1])
  /\ UNCHANGED <<schema, key_col, leaf>>

(* The end of the Tuple, none of whose Values owns a string. *)
Discard ==
  /\ HasTuple
  /\ tuple' = NoTuple
  /\ UNCHANGED <<schema, key_col, leaf>>

(* A schema is written and read back. *)
Reopen ==
  /\ ~HasTuple
  /\ schema' = SchemaDeserialize(SerializeSchema(schema))
  /\ UNCHANGED <<key_col, tuple, leaf>>
=============================================================================
