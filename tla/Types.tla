------------------------------- MODULE Types -------------------------------
(***************************************************************************)
(* type/value.h and the four types: what a Value holds, how two of them    *)
(* compare, and the bytes they become.  A NUMERIC is an int64_t whatever   *)
(* its width says; only its serialised form is cut to the width.  A FLOAT  *)
(* is a double, of which a float keeps the numbers up to FloatExact        *)
(* exactly and every second one beyond.                                    *)
(***************************************************************************)
EXTENDS Bytes

CONSTANTS
  NaN,          \* a model value
  FloatExact

ASSUME FloatAssumption == FloatExact \in Nat

TypeIds == <<"INVALID", "BOOLEAN", "NUMERIC", "FLOAT", "VARCHAR">>

LengthSize == 2     \* sizeof(varchar_len_t)

(* mem says whose memory a VARCHAR's data is: "borrowed" from the caller,  *)
(* "owned" by the Value, or owned and already "freed" by another copy of   *)
(* it.  Every other Value has "none".                                      *)
Value(type_id, width, val, mem) == [type_id |-> type_id, width |-> width, val |-> val, mem |-> mem]

make_int(v, width)   == Value("NUMERIC", width, v, "none")
make_float(v, width) == Value("FLOAT", width, v, "none")
make_bool(v)         == Value("BOOLEAN", 1, v, "none")     \* 0 or 1


make_varchar_nonowning(data) == Value("VARCHAR", 0, data, "borrowed")

make_varchar_owning(data)    == Value("VARCHAR", 0, data, "owned")

(* Value has a destructor and neither copy nor move of its own: a copy     *)
(* shares the buffer, and the end of the original frees it: reading or     *)
(* deleting what is "freed" is undefined.                                  *)
CopyOfDead(v) == IF v.mem = "owned" THEN [v EXCEPT !.mem = "freed"] ELSE v

-----------------------------------------------------------------------------
(* Compare: negative, zero or positive.                                    *)

Sign(a, b) == IF a < b THEN -1 ELSE IF a > b THEN 1 ELSE 0

NumericCompare(a, b) == Sign(a.val, b.val)

BooleanCompare(a, b) == a.val - b.val

(* Both comparisons with a NaN fail, so it equals everything. *)
FloatCompare(a, b) == IF NaN \in {a.val, b.val} THEN 0 ELSE Sign(a.val, b.val)

(* Byte by byte, as unsigned characters; then the longer string wins. *)
VarcharCompare(a, b) ==
  LET differ == {i \in 1..Min({Len(a.val), Len(b.val)}) : a.val[i] # b.val[i]}
  IN  IF differ = {} THEN Sign(Len(a.val), Len(b.val))
      ELSE Sign(a.val[Min(differ)], b.val[Min(differ)])

(* GetInstance picks the type by the id. *)
Compare(a, b) ==
  CASE a.type_id = "NUMERIC" -> NumericCompare(a, b)
    [] a.type_id = "FLOAT"   -> FloatCompare(a, b)
    [] a.type_id = "BOOLEAN" -> BooleanCompare(a, b)
    [] a.type_id = "VARCHAR" -> VarcharCompare(a, b)

-----------------------------------------------------------------------------
(* Arithmetic takes the wider width and does not look at the result.       *)

HasArithmetic(type_id) == type_id \in {"NUMERIC", "FLOAT"}

Wider(a, b) == Max({a.width, b.width})

NumericAdd(a, b) == make_int(a.val + b.val, Wider(a, b))

NumericSub(a, b) == make_int(a.val - b.val, Wider(a, b))

FloatAdd(a, b) ==
  make_float(IF NaN \in {a.val, b.val} THEN NaN ELSE a.val + b.val, Wider(a, b))

FloatSub(a, b) ==
  make_float(IF NaN \in {a.val, b.val} THEN NaN ELSE a.val - b.val, Wider(a, b))

Add(a, b) == IF a.type_id = "NUMERIC" THEN NumericAdd(a, b) ELSE FloatAdd(a, b)

Sub(a, b) == IF a.type_id = "NUMERIC" THEN NumericSub(a, b) ELSE FloatSub(a, b)

-----------------------------------------------------------------------------
(* Bytes.                                                                  *)

NumericSerialize(v) == WritePod(v.val, v.width)

(* Mutant: the sign is not extended from the stored width. *)
NumericDeserializeUnsigned(buf, at, width) == make_int(ReadPod(buf, at, width), width)

NumericDeserialize(buf, at, width) == make_int(ReadSigned(buf, at, width), width)

BooleanSerialize(v) == <<v.val>>

BooleanDeserialize(buf, at) == make_bool(ReadPod(buf, at, 1))

(* The conversion to float rounds to the nearest, ties to the even one. *)
AsFloat(x) ==
  IF x \in (-FloatExact)..FloatExact \/ x % 2 = 0 THEN x
  ELSE IF x % 4 = 1 THEN x - 1 ELSE x + 1

(* The bit pattern of a number is taken to be the number's own, and the    *)
(* one with only the sign bit set stands for the NaN.                      *)
NaNBytes(width) == [i \in 1..width |-> IF i = width THEN Base \div 2 ELSE 0]

FloatSerialize(v) ==
  IF v.val = NaN THEN NaNBytes(v.width)
  ELSE WritePod(IF v.width = 4 THEN AsFloat(v.val) ELSE v.val, v.width)

FloatDeserialize(buf, at, width) ==
  make_float(IF Slice(buf, at, width) = NaNBytes(width) THEN NaN ELSE ReadSigned(buf, at, width),
             width)

VarcharSerialize(v) == WritePod(Len(v.val), LengthSize) \o v.val

VarcharDeserialize(buf, at) ==
  make_varchar_owning(Slice(buf, at + LengthSize, ReadPod(buf, at, LengthSize)))

Serialize(v) ==
  CASE v.type_id = "NUMERIC" -> NumericSerialize(v)
    [] v.type_id = "FLOAT"   -> FloatSerialize(v)
    [] v.type_id = "BOOLEAN" -> BooleanSerialize(v)
    [] v.type_id = "VARCHAR" -> VarcharSerialize(v)

Deserialize(type_id, buf, at, width) ==
  CASE type_id = "NUMERIC" -> NumericDeserialize(buf, at, width)
    [] type_id = "FLOAT"   -> FloatDeserialize(buf, at, width)
    [] type_id = "BOOLEAN" -> BooleanDeserialize(buf, at)
    [] type_id = "VARCHAR" -> VarcharDeserialize(buf, at)

SerializedSize(v) ==
  CASE v.type_id \in {"NUMERIC", "FLOAT"} -> v.width
    [] v.type_id = "BOOLEAN"              -> 1
    [] v.type_id = "VARCHAR"              -> LengthSize + Len(v.val)
=============================================================================
