----------------------------- MODULE LogRecord -----------------------------
(***************************************************************************)
(* The bytes of the log: logging/log_manager's records as append lays them *)
(* out in the append buffer, and what the functions that build records put *)
(* into them.  LogManager is about the order and the durability of these   *)
(* records, and knows of each only its number and its size.                *)
(***************************************************************************)
EXTENDS Crc32c

CONSTANT AppendBufferSize

ASSUME BufferAssumption == AppendBufferSize \in Nat

VARIABLES
  append_buffer,     \* its first append_buffer_fill_offset bytes
  currentLSN

logVars == <<append_buffer, currentLSN>>

(* All ones in an unsigned field of any width. *)
INVALID == -1

LogType == <<"INVALID", "UPDATE", "CLR", "TXN_BEGIN", "TXN_COMMIT", "TXN_ABORT", "TXN_END",
             "CHECKPT_BEGIN", "CHECKPT_END">>

LogOp == <<"NONE", "INSERT_SLOT", "DELETE_SLOT", "UPDATE_SLOT", "INIT_PAGE", "SET_SIBLING",
           "SET_CHILD", "FULL_PAGE">>

(* LogRecordHeader: its fields in order, with their widths. *)
HeaderFields ==
  <<<<"size", 4>>, <<"crc", 4>>, <<"lsn", 8>>, <<"prev_lsn", 8>>, <<"undo_next_lsn", 8>>,
    <<"tx_id", 8>>, <<"page_id", 4>>, <<"table_id", 2>>, <<"index_id", 2>>, <<"slot", 2>>,
    <<"flags", 2>>, <<"before_len", 4>>, <<"after_len", 4>>, <<"type", 1>>, <<"op", 1>>,
    <<"reserved", 2>>>>

AttFields == <<<<"tx_id", 8>>, <<"last_lsn", 8>>, <<"status", 1>>, <<"reserved", 7>>>>

DptFields == <<<<"page_id", 4>>, <<"reserved", 4>>, <<"rec_lsn", 8>>>>

SizeOf(fields) == FoldLeft(LAMBDA size, f : size + f[2], 0, fields)

OffsetOf(fields, name) ==
  SizeOf(SubSeq(fields, 1, SelectInSeq(fields, LAMBDA f : f[1] = name) - 1))

(* A struct without padding, and its fields read back. *)
StructBytes(fields, struct) ==
  FoldLeft(LAMBDA buf, f : buf \o WritePod(struct[f[1]], f[2]), <<>>, fields)

StructAt(fields, buf, at) ==
  LET names == {fields[i][1] : i \in DOMAIN fields}
      Width(name) == fields[SelectInSeq(fields, LAMBDA f : f[1] = name)][2]
      Field(from, width) ==
        IF Slice(buf, from, width) = WritePod(INVALID, width) THEN INVALID ELSE ReadPod(buf, from, width)
  IN  [name \in names |-> Field(at + OffsetOf(fields, name), Width(name))]

HeaderSize == SizeOf(HeaderFields)

(* LogRecordHeader lrh{}. *)
ZeroHeader == [name \in {HeaderFields[i][1] : i \in DOMAIN HeaderFields} |-> 0]

-----------------------------------------------------------------------------

LogTypeOK ==
  /\ append_buffer \in Seq(Byte)
  /\ Len(append_buffer) <= AppendBufferSize
  /\ currentLSN \in Nat

LogInit == append_buffer = <<>> /\ currentLSN = 0

(* Mutant: the size counts no before-image. *)
HeaderOfAfterOnly(lrh, before, after) ==
  [lrh EXCEPT !.before_len = Len(before), !.after_len = Len(after),
              !.size = HeaderSize + Len(after),
              !.crc = 0, !.reserved = 0, !.lsn = currentLSN]

(* Size, lengths and number are filled in by append. *)
HeaderOf(lrh, before, after) ==
  [lrh EXCEPT !.before_len = Len(before), !.after_len = Len(after),
              !.size = HeaderSize + Len(before) + Len(after),
              !.crc = 0, !.reserved = 0, !.lsn = currentLSN]

PatchCrc(rec, crc) == Put(rec, OffsetOf(HeaderFields, "crc"), CrcBytes(crc))

(* Mutant: the sum covers the header alone. *)
RecordOfHeaderSum(lrh, before, after) ==
  LET header == StructBytes(HeaderFields, HeaderOf(lrh, before, after))
  IN  PatchCrc(header, compute(header)) \o before \o after

(* The sum is taken over the whole record with zeros in its place, and     *)
(* then put there.                                                         *)
RecordOf(lrh, before, after) ==
  LET rec == StructBytes(HeaderFields, HeaderOf(lrh, before, after)) \o before \o after
  IN  PatchCrc(rec, compute(rec))

(* What append returns: INVALID_LSN when the record does not fit, and the  *)
(* buffer and the numbers stay as they are.                                *)
HasRoom(before, after) ==
  Len(append_buffer) + HeaderSize + Len(before) + Len(after) <= AppendBufferSize

append(lrh, before, after) ==
  IF HasRoom(before, after)
  THEN append_buffer' = append_buffer \o RecordOf(lrh, before, after) /\ currentLSN' = currentLSN + 1
  ELSE UNCHANGED logVars

log_update(tx_id, op, page_id, table_id, prev_lsn, before_img, after_img, index_id, slot_id) ==
  append([ZeroHeader EXCEPT !.type = EnumCode(LogType, "UPDATE"), !.op = EnumCode(LogOp, op),
                            !.tx_id = tx_id, !.prev_lsn = prev_lsn, !.undo_next_lsn = INVALID,
                            !.page_id = page_id, !.table_id = table_id, !.index_id = index_id,
                            !.slot = slot_id],
         before_img, after_img)

(* The header of begin, commit, abort and end. *)
TxnHeader(tx_id, type, prev_lsn) ==
  [ZeroHeader EXCEPT !.type = EnumCode(LogType, type), !.op = EnumCode(LogOp, "NONE"),
                     !.tx_id = tx_id, !.prev_lsn = prev_lsn, !.undo_next_lsn = INVALID,
                     !.page_id = INVALID, !.table_id = INVALID, !.index_id = INVALID,
                     !.slot = INVALID]

log_txn_record(tx_id, type, prev_lsn) == append(TxnHeader(tx_id, type, prev_lsn), <<>>, <<>>)

log_txn_begin(tx_id) == log_txn_record(tx_id, "TXN_BEGIN", INVALID)

log_txn_commit(tx_id, prev_lsn) == log_txn_record(tx_id, "TXN_COMMIT", prev_lsn)

log_txn_abort(tx_id, prev_lsn) == log_txn_record(tx_id, "TXN_ABORT", prev_lsn)

log_txn_end(tx_id, prev_lsn) == log_txn_record(tx_id, "TXN_END", prev_lsn)

log_checkpoint_begin ==
  append([ZeroHeader EXCEPT !.type = EnumCode(LogType, "CHECKPT_BEGIN")], <<>>, <<>>)

(* The vectors are made as long as the tables and the entries put behind   *)
(* that: half of each image is zeros.  An unordered_map is walked in any   *)
(* order.                                                                  *)
AttImage(att, order) ==
  FoldLeft(LAMBDA img, tx : img \o StructBytes(AttFields,
             [tx_id |-> tx, last_lsn |-> att[tx], status |-> 0, reserved |-> 0]),
           Zeros(SizeOf(AttFields) * Len(order)), order)

DptImage(dpt, order) ==
  FoldLeft(LAMBDA img, page : img \o StructBytes(DptFields,
             [page_id |-> page, reserved |-> 0, rec_lsn |-> dpt[page]]),
           Zeros(SizeOf(DptFields) * Len(order)), order)

log_checkpoint_end(att, dpt) ==
  \E att_order \in SetToSeqs(DOMAIN att), dpt_order \in SetToSeqs(DOMAIN dpt) :
    append([ZeroHeader EXCEPT !.type = EnumCode(LogType, "CHECKPT_END")],
           AttImage(att, att_order), DptImage(dpt, dpt_order))
=============================================================================
