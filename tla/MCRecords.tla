----------------------------- MODULE MCRecords -----------------------------
(***************************************************************************)
(* One transaction that stores rows in a leaf, overwrites them, and logs   *)
(* each change first, as log_manager.h says of INSERT_SLOT ("empty => full *)
(* tuple") and UPDATE_SLOT ("old tuple => new tuple"), with checkpoints in *)
(* between.  Its caller keeps to what the code supports:                   *)
(*   the width of a value is the length of its column;                     *)
(*   the key column is declared at the offset where Serialize puts it, and *)
(*     a VARCHAR key is the only VARCHAR and the last column;              *)
(*   a key fits its width and is no NaN;                                   *)
(*   VARCHAR data is borrowed, and rows with VARCHAR are not loaded into a *)
(*     Tuple (tuple.cpp names the double free this would end in).          *)
(***************************************************************************)
EXTENDS LeafRecords, LogRecord

CONSTANTS MaxRows, Txn, Page

VARIABLES
  rows,      \* rows[i]: the Values that were stored as leaf[i]
  logged,    \* what the caller asked to log, in order
  att, dpt   \* the tables a checkpoint takes

MCVars == <<rowVars, logVars, rows, logged, att, dpt>>

(* The check value of CRC-32C on real bytes (utils/crc32c.h:68). *)
Castagnoli == INSTANCE Crc32c WITH BitsPerByte <- 8, CrcBits <- 32,
  Polynomial <- {31, 25, 23, 22, 21, 20, 18, 17, 13, 12, 11, 9, 8, 6, 5, 4, 3}

ASSUME CheckValue ==
  Castagnoli!CrcBytes(Castagnoli!compute([i \in 1..9 |-> 48 + i])) = <<131, 146, 6, 227>>

-----------------------------------------------------------------------------
(* Schemas and values.                                                     *)

Id(offset)    == Column(<<1>>, "NUMERIC", 1, offset)
Wide(offset)  == Column(<<1, 2>>, "NUMERIC", 2, offset)
Score(offset) == Column(<<3>>, "FLOAT", 4, offset)
Flag(offset)  == Column(<<>>, "BOOLEAN", 1, offset)

Plain == Schema(<<Id(0), Score(1), Flag(5)>>)

Schemas ==
  { Plain,
    Projection(Plain, <<1, 3>>),                \* the flag's offset is stale
    Schema(<<Wide(0), VarcharColumn(<<4>>, 2)>>),
    Schema(<<VarcharColumn(<<4>>, 0), Id(2), VarcharColumn(<<5>>, 3)>>) }

(* Where Serialize puts a column. *)
TrueOffset(s, col) == Schema(SubSeq(s.columns, 1, col - 1)).fixed_size

KeySupported(s, col) ==
  /\ s.columns[col].offset = TrueOffset(s, col)
  /\ IsVariableLength(s.columns[col]) =>
       col = Len(s.columns) /\ Len(s.fixed_size_columns) = col - 1

ValuesOf(col) ==
  CASE col.type_id = "NUMERIC" -> {make_int(v, col.length) : v \in {-1, 7}}
    [] col.type_id = "FLOAT"   -> {make_float(v, col.length) : v \in {-3, 5, NaN}}
    [] col.type_id = "BOOLEAN" -> {make_bool(1)}
    [] col.type_id = "VARCHAR" -> {make_varchar_nonowning(data) : data \in {<<9>>, <<9, 2>>}}

(* The values a column holds without loss. *)
Fits(v, col) ==
  CASE v.type_id = "NUMERIC" -> v.val \in (-(Base^col.length \div 2))..(Base^col.length \div 2 - 1)
    [] v.type_id = "FLOAT"   -> v.val = NaN \/ AsFloat(v.val) = v.val
    [] v.type_id \in {"BOOLEAN", "VARCHAR"} -> TRUE

GoodKey(v, col) == v.val # NaN /\ Fits(v, col)

-----------------------------------------------------------------------------

MCInit ==
  /\ RowsInit(Schemas) /\ KeySupported(schema, key_col)
  /\ LogInit
  /\ rows = <<>> /\ logged = <<>> /\ att = <<>> /\ dpt = <<>>

Lsn == Len(logged)      \* the number the next record gets

(* The transaction's last record so far, and whether it has ended. *)
IsCheckpoint(e) == e.type \in {"CHECKPT_BEGIN", "CHECKPT_END"}

LastOfTxn == SelectLastInSeq(logged, LAMBDA e : ~IsCheckpoint(e)) - 1

Running == logged # <<>> /\ logged[LastOfTxn + 1].type \in {"TXN_BEGIN", "UPDATE"}

Log(entry) == logged' = Append(logged, entry)

Begin ==
  /\ logged = <<>> /\ ~HasTuple                                          \* bound
  /\ log_txn_begin(Txn) /\ Log([type |-> "TXN_BEGIN", prev |-> INVALID])
  /\ att' = Txn :> Lsn
  /\ UNCHANGED <<rowVars, rows, dpt>>

(* A transaction commits or aborts, and then ends. *)
Finish ==
  LET types == IF Running THEN {"TXN_COMMIT", "TXN_ABORT"} ELSE {"TXN_END"}
  IN  \E type \in types :
        /\ Txn \in DOMAIN att /\ ~HasTuple                                \* bound
        /\ HasRoom(<<>>, <<>>)
        /\ \/ type = "TXN_COMMIT" /\ log_txn_commit(Txn, LastOfTxn)
           \/ type = "TXN_ABORT" /\ log_txn_abort(Txn, LastOfTxn)
           \/ type = "TXN_END" /\ log_txn_end(Txn, LastOfTxn)
        /\ Log([type |-> type, prev |-> LastOfTxn])
        /\ att' = IF type = "TXN_END" THEN <<>> ELSE Txn :> Lsn
        /\ UNCHANGED <<rowVars, rows, dpt>>

Checkpoint ==
  /\ logged # <<>> /\ ~IsCheckpoint(logged[Lsn]) /\ ~HasTuple           \* bound
  /\ \/ /\ HasRoom(<<>>, <<>>)
        /\ log_checkpoint_begin
        /\ Log([type |-> "CHECKPT_BEGIN", att |-> <<>>, dpt |-> <<>>])
     \/ /\ \E order \in SetToSeqs(DOMAIN att), pages \in SetToSeqs(DOMAIN dpt) :
             HasRoom(AttImage(att, order), DptImage(dpt, pages))
        /\ log_checkpoint_end(att, dpt)
        /\ Log([type |-> "CHECKPT_END", att |-> att, dpt |-> dpt])
  /\ UNCHANGED <<rowVars, rows, att, dpt>>

(* A record that does not fit the buffer is not logged, and its row is not *)
(* stored ("you gotta flush first buddy").                                 *)
Store ==
  /\ Running /\ HasTuple /\ Len(leaf) < MaxRows
  /\ GoodKey(tuple[key_col], schema.columns[key_col])
  /\ HasRoom(<<>>, RecordBytes)
  /\ log_update(Txn, "INSERT_SLOT", Page, 0, LastOfTxn, <<>>, RecordBytes, 0, SlotFor(RecordBytes))
  /\ Insert
  /\ Log([type |-> "UPDATE", op |-> "INSERT_SLOT", slot |-> SlotFor(RecordBytes),
          before |-> <<>>, after |-> RecordBytes, prev |-> LastOfTxn])
  /\ rows' = InsertAt(rows, SlotFor(RecordBytes) + 1, tuple)
  /\ att' = Txn :> Lsn
  /\ dpt' = IF dpt = <<>> THEN Page :> Lsn ELSE dpt

(* A row is written over one with the same key. *)
Overwrite(slot) ==
  LET old == leaf[slot + 1]
  IN  /\ Running /\ HasTuple /\ Len(leaf) = MaxRows - 1                 \* bound
      /\ GoodKey(tuple[key_col], schema.columns[key_col])
      /\ KeyCompare(RecordKey(old), RecordKey(RecordBytes)) = 0
      /\ HasRoom(old, RecordBytes)
      /\ log_update(Txn, "UPDATE_SLOT", Page, 0, LastOfTxn, old, RecordBytes, 0, slot)
      /\ Update(slot)
      /\ Log([type |-> "UPDATE", op |-> "UPDATE_SLOT", slot |-> slot,
              before |-> old, after |-> RecordBytes, prev |-> LastOfTxn])
      /\ rows' = [rows EXCEPT ![slot + 1] = tuple]
      /\ att' = Txn :> Lsn
      /\ UNCHANGED dpt

Refused ==
  /\ Running /\ HasTuple /\ ~HasRoom(<<>>, RecordBytes)
  /\ log_update(Txn, "INSERT_SLOT", Page, 0, LastOfTxn, <<>>, RecordBytes, 0, SlotFor(RecordBytes))
  /\ UNCHANGED <<rowVars, rows, logged, att, dpt>>

Build == \E values \in [DOMAIN schema.columns -> UNION {ValuesOf(schema.columns[i]) : i \in DOMAIN schema.columns}] :
           /\ \A i \in DOMAIN values : values[i] \in ValuesOf(schema.columns[i])
           /\ Running /\ Len(leaf) < MaxRows /\ HasRoom(<<>>, <<>>)   \* bound
           /\ MakeTuple(values)

(* A string is replaced, or a number is added to a field or taken from it, *)
(* which may then be too large for its width.                              *)
Change ==
  /\ HasTuple /\ Len(leaf) = MaxRows - 1                               \* bound
  /\ \E col \in DOMAIN tuple :
       LET v == tuple[col]
           n == [v EXCEPT !.val = 7]
       IN  /\ \A c \in DOMAIN tuple : tuple[c] \in ValuesOf(schema.columns[c])   \* bound
           /\ \/ v.type_id = "VARCHAR" /\ SetField(col, make_varchar_nonowning(<<>>))
              \/ HasArithmetic(v.type_id) /\ SetField(col, Add(GetField(col), n))
              \/ HasArithmetic(v.type_id) /\ SetField(col, Sub(GetField(col), n))

Next ==
  \/ Begin \/ Finish \/ Checkpoint \/ Store \/ Refused
  \/ \E slot \in 0..(Len(leaf) - 1) : Overwrite(slot)
  \/ /\ \/ Build \/ Change \/ Discard \/ Reopen
        \/ /\ ~HasVariableLengthColumns(schema)
           /\ Len(leaf) < MaxRows /\ HasRoom(<<>>, <<>>)                  \* bound
           /\ \E slot \in 0..(Len(leaf) - 1) : Load(slot)
     /\ UNCHANGED <<logVars, rows, logged, att, dpt>>

Spec == MCInit /\ [][Next]_MCVars

-----------------------------------------------------------------------------

SameValue(read, v, col) ==
  /\ read.type_id = v.type_id
  /\ Fits(v, col) => read.val = v.val
  /\ v.type_id = "NUMERIC" => (read.val - v.val) % Base^col.length = 0

(* In every schema without VARCHAR, whatever is stored next to it, and     *)
(* after the schema itself was written and read, Tuple::Deserialize makes  *)
(* of each field the value it was: the number that fits exactly, a number  *)
(* that does not modulo its width, a float that is none rounded.  A string *)
(* it reads is one that was freed.                                         *)
RowsReadBack ==
  /\ RowsTypeOK /\ DOMAIN rows = DOMAIN leaf
  /\ ~HasVariableLengthColumns(schema) =>
       \A i \in DOMAIN leaf :
         LET read == TupleDeserialize(schema, leaf[i])
         IN  /\ DOMAIN read = DOMAIN rows[i]
             /\ \A c \in DOMAIN read : SameValue(read[c], rows[i][c], schema.columns[c])

(* The order of the values themselves. *)
Below(a, b) ==
  IF a.type_id # "VARCHAR" THEN a.val < b.val
  ELSE a.val # b.val /\ (\/ IsPrefix(a.val, b.val)
                         \/ \E n \in DOMAIN a.val \cap DOMAIN b.val :
                              SubSeq(a.val, 1, n - 1) = SubSeq(b.val, 1, n - 1) /\ a.val[n] < b.val[n])

(* The bytes of a leaf are in the order of the values they were made from, *)
(* negative numbers and strings that begin alike included, and a search    *)
(* for the key of a row ends at the first row with that key.               *)
KeysInOrder ==
  LET Key(i) == rows[i][key_col]
  IN  \A i \in DOMAIN rows :
        LET found == FindSlot(leaf, KeyOf(Key(i))) + 1
        IN  /\ found \in DOMAIN rows /\ Key(found).val = Key(i).val
            /\ \A j \in DOMAIN rows : j < found <=> Below(Key(j), Key(i))


-----------------------------------------------------------------------------
(* Readers of the log.                                                     *)

RecordAt(buf, at) ==
  LET header == StructAt(HeaderFields, buf, at)
  IN  [header |-> header,
       before |-> Slice(buf, at + HeaderSize, header.before_len),
       after  |-> Slice(buf, at + HeaderSize + header.before_len, header.after_len)]

(* The records of a log, each found by the size of the one before it. *)
Scan(buf) ==
  FoldLeft(LAMBDA r, i : IF r.at + HeaderSize > Len(buf) THEN r
                         ELSE LET rec == RecordAt(buf, r.at)
                              IN  [at |-> r.at + rec.header.size, records |-> Append(r.records, rec)],
           [at |-> 0, records |-> <<>>], [i \in 1..(Len(buf) \div HeaderSize) |-> i])


SaysWhatWasLogged(rec, lsn, e) ==
  LET h == rec.header
  IN  /\ h.lsn = lsn /\ h.reserved = 0 /\ h.flags = 0
      /\ h.size = HeaderSize + Len(rec.before) + Len(rec.after)
      /\ h.type = EnumCode(LogType, e.type)
      /\ ~IsCheckpoint(e) => h.tx_id = Txn /\ h.prev_lsn = e.prev
      /\ e.type = "UPDATE" =>
           /\ h.op = EnumCode(LogOp, e.op) /\ h.page_id = Page /\ h.slot = e.slot
           /\ rec.before = e.before /\ rec.after = e.after
      /\ e.type \in {"TXN_BEGIN", "TXN_COMMIT", "TXN_ABORT", "TXN_END"} =>
           h.page_id = INVALID /\ h.slot = INVALID

Updates(records) == SelectSeq(records, LAMBDA rec : rec.header.type = EnumCode(LogType, "UPDATE"))

IsInsertion(rec) == rec.header.op = EnumCode(LogOp, "INSERT_SLOT")

(* The after-images put on an empty page in the order of the log. *)
Redo(records) ==
  FoldLeft(LAMBDA page, rec :
             IF IsInsertion(rec) THEN InsertAt(page, rec.header.slot + 1, rec.after)
             ELSE [page EXCEPT ![rec.header.slot + 1] = rec.after],
           <<>>, Updates(records))

(* The before-images put back from the last record to the first; a record  *)
(* that is not found as it was logged is left where it is.                 *)
Undo(page, records) ==
  FoldRight(LAMBDA rec, p :
              IF rec.header.slot + 1 \notin DOMAIN p \/ p[rec.header.slot + 1] # rec.after THEN p
              ELSE IF IsInsertion(rec) THEN RemoveAt(p, rec.header.slot + 1)
              ELSE [p EXCEPT ![rec.header.slot + 1] = rec.before],
            Updates(records), page)

(* The buffer reads back as exactly the records that were asked for, in    *)
(* their order and numbered from 0, the back-chain of the transaction      *)
(* intact, those behind a record that was refused or a checkpoint          *)
(* included; redoing them on an empty page gives the leaf, and undoing     *)
(* them empties it.  Of the tables in a checkpoint nothing is said: they   *)
(* are not in the format that log_manager.cpp:108 documents.               *)
LogReadsBack ==
  LET read == Scan(append_buffer)
  IN  /\ LogTypeOK
      /\ read.at = Len(append_buffer)
      /\ DOMAIN read.records = DOMAIN logged
      /\ \A i \in DOMAIN logged : SaysWhatWasLogged(read.records[i], i - 1, logged[i])
      /\ Redo(read.records) = leaf /\ Undo(leaf, read.records) = <<>>

(* A record as recovery would accept it ("computed with this field = 0").  *)
Valid(buf, at) ==
  LET size == ReadPod(buf, at, 4)
      sum  == OffsetOf(HeaderFields, "crc")
      rec  == Slice(buf, at, size)
  IN  /\ size >= HeaderSize /\ at + size <= Len(buf)
      /\ CrcBytes(compute(Put(rec, sum, Zeros(4)))) = Slice(buf, at + sum, 4)

(* What the end of the log may look like when its last record was not      *)
(* written whole (the file ends early, or in zeros) or was damaged.        *)
Damaged(buf, at) ==
  ( {SubSeq(buf, 1, k) : k \in at..(Len(buf) - 1)}
    \cup {SubSeq(buf, 1, k) \o Zeros(Len(buf) - k) : k \in {j \in at..(Len(buf) - 1) : j % 8 = 0}}
    \cup {[buf EXCEPT ![k] = IF buf[k] % 2 = 0 THEN buf[k] + 1 ELSE buf[k] - 1] : k \in (at + 1)..Len(buf)}
  ) \ {buf}

(* A record that is appended can be told from anything a torn or damaged   *)
(* write leaves of it, the images it carries included.  Looked at for the  *)
(* first two records only, as a sum does not depend on those before.       *)
DamageDetected ==
  [][ currentLSN' # currentLSN /\ currentLSN < 2 =>
        /\ Valid(append_buffer', Len(append_buffer))
        /\ \A buf \in Damaged(append_buffer', Len(append_buffer)) : ~Valid(buf, Len(append_buffer)) ]_MCVars
=============================================================================
