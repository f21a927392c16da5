------------------------------- MODULE Tuples -------------------------------
(***************************************************************************)
(* type/column, type/schema, type/tuple, index/key.h and extractKey of the *)
(* tree: a row as the Values of its columns, as the bytes of a record, and *)
(* its key as a view into those bytes.                                     *)
(***************************************************************************)
EXTENDS Types

Column(name, type_id, length, offset) ==
  [name |-> name, type_id |-> type_id, length |-> length, offset |-> offset]

VarcharColumn(name, offset) == Column(name, "VARCHAR", LengthSize, offset)

IsVariableLength(col) == col.type_id = "VARCHAR"

ColumnSerialize(col) ==
  WritePod(Len(col.name), 2) \o col.name
    \o WritePod(EnumCode(TypeIds, col.type_id), 1)
    \o WritePod(col.length, 4) \o WritePod(col.offset, 4)

(* The column at an offset of buf, and how many bytes it took. *)
ColumnDeserialize(buf, at) ==
  LET name_len == ReadPod(buf, at, 2)
      rest     == at + 2 + name_len
  IN  [column   |-> Column(Slice(buf, at + 2, name_len), TypeIds[1 + ReadPod(buf, rest, 1)],
                           ReadPod(buf, rest + 1, 4), ReadPod(buf, rest + 5, 4)),
       consumed |-> name_len + 11]

-----------------------------------------------------------------------------
(* A schema is its columns with two things counted over them.              *)

Schema(columns) ==
  [columns            |-> columns,
   fixed_size_columns |-> SelectSeq([i \in DOMAIN columns |-> i],
                                    LAMBDA i : ~IsVariableLength(columns[i])),
   fixed_size         |-> FoldLeft(LAMBDA size, col : size + col.length, 0, columns)]

(* A projection keeps its columns as they are, their offsets included. *)
Projection(other, col_indices) == Schema([i \in DOMAIN col_indices |-> other.columns[col_indices[i]]])

HasVariableLengthColumns(schema) == Len(schema.fixed_size_columns) # Len(schema.columns)

SerializeSchema(schema) ==
  FoldLeft(LAMBDA buf, col : buf \o ColumnSerialize(col),
           WritePod(Len(schema.columns), 4), schema.columns)

SchemaDeserialize(buf) ==
  LET read == FoldLeft(LAMBDA r, i :
                         LET next == ColumnDeserialize(buf, r.at)
                         IN  [columns |-> Append(r.columns, next.column),
                              at      |-> r.at + next.consumed],
                       [columns |-> <<>>, at |-> 4],
                       [i \in 1..ReadPod(buf, 0, 4) |-> i])
  IN  Schema(read.columns)

-----------------------------------------------------------------------------
(* A tuple is the sequence of its Values.                                  *)

(* One column more: a VARCHAR leaves its length in the fixed section and   *)
(* its bytes in the tail, everything else its bytes in the fixed section,  *)
(* which advances by the width of the value and not of the column.         *)
SerializeField(out, value, col) ==
  IF IsVariableLength(col)
  THEN [buf   |-> Put(Put(out.buf, out.fixed, WritePod(Len(value.val), LengthSize)), out.var, value.val),
        fixed |-> out.fixed + LengthSize,
        var   |-> out.var + Len(value.val)]
  ELSE [buf   |-> Put(out.buf, out.fixed, Serialize(value)),
        fixed |-> out.fixed + SerializedSize(value),
        var   |-> out.var]

(* The bytes Serialize writes; their number is what it returns. *)
TupleSerialize(schema, values) ==
  LET out == FoldLeft(LAMBDA o, i : SerializeField(o, values[i], schema.columns[i]),
                      [buf |-> <<>>, fixed |-> 0, var |-> schema.fixed_size],
                      [i \in DOMAIN schema.columns |-> i])
  IN  Slice(out.buf, 0, out.var)

(* One column more.  A VARCHAR is built in a temporary, which frees the    *)
(* buffer at its end; what push_back put into the vector is a copy of it.  *)
DeserializeField(in, col, buf) ==
  LET len   == ReadPod(buf, in.fixed, LengthSize)
      value == Deserialize(col.type_id, buf, in.fixed, col.length)
  IN  IF IsVariableLength(col)
      THEN [values |-> Append(in.values, CopyOfDead(make_varchar_owning(Slice(buf, in.var, len)))),
            fixed  |-> in.fixed + LengthSize,
            var    |-> in.var + len]
      ELSE [values |-> Append(in.values, value),
            fixed  |-> in.fixed + SerializedSize(value),
            var    |-> in.var]

TupleDeserialize(schema, buf) ==
  FoldLeft(LAMBDA in, col : DeserializeField(in, col, buf),
           [values |-> <<>>, fixed |-> 0, var |-> schema.fixed_size], schema.columns).values

-----------------------------------------------------------------------------
(* A key is the bytes from key_start on; size_ is kept and never looked at *)
(* by ToValue.                                                             *)

FromBytes(type_id, width, data, size) ==
  [type_id |-> type_id, width |-> width, data |-> data, size |-> size]

ToValue(key) == Deserialize(key.type_id, key.data, 0, key.width)

KeyCompare(key, other) == Compare(ToValue(key), ToValue(other))

(* Mutant: the key is looked for behind the lengths of the columns before  *)
(* it, the VARCHAR ones left out.                                          *)
extractKeySkipping(schema, key_col_idx, record) ==
  LET col    == schema.columns[key_col_idx]
      before == SelectSeq(schema.fixed_size_columns, LAMBDA i : i < key_col_idx)
      at     == FoldLeft(LAMBDA size, i : size + schema.columns[i].length, 0, before)
  IN  FromBytes(col.type_id, col.length, SubSeq(record, at + 1, Len(record)), col.length)

(* The offset is the one the column was declared with.  The tree's key     *)
(* type and width are those of that column.                                *)
extractKey(schema, key_col_idx, record) ==
  LET col       == schema.columns[key_col_idx]
      at        == Min({col.offset, Len(record)})
      key_start == SubSeq(record, at + 1, Len(record))
      remaining == Len(key_start)
      key_len   == IF col.type_id # "VARCHAR" THEN col.length
                   ELSE LengthSize + ReadPod(key_start, 0, LengthSize)
  IN  FromBytes(col.type_id, col.length, key_start,
                IF col.type_id = "VARCHAR" /\ remaining < LengthSize THEN remaining
                ELSE Min({key_len, remaining}))
=============================================================================
