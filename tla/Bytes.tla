------------------------------- MODULE Bytes -------------------------------
(***************************************************************************)
(* Memory as the serialising code sees it: sequences of bytes, least       *)
(* significant byte first.  A byte has fewer bits than in the code, so     *)
(* that every boundary of a width is reached by a small number.            *)
(***************************************************************************)
EXTENDS Integers, SequencesExt

CONSTANT BitsPerByte

ASSUME ByteAssumption == BitsPerByte \in Nat \ {0}

Base == 2^BitsPerByte

Byte == 0..(Base - 1)

(* The number behind an enumerator, of an enum that counts from 0. *)
EnumCode(enum, name) == SelectInSeq(enum, LAMBDA e : e = name) - 1

(* memcpy of an n-byte integer into memory; a negative one is in two's     *)
(* complement, and what does not fit is cut off.                           *)
WritePod(x, n) == [i \in 1..n |-> (x \div Base^(i - 1)) % Base]

Zeros(n) == [i \in 1..Max({0, n}) |-> 0]

(* What lies behind the end of a buffer is not modelled: no reader of the  *)
(* runs gets there, and zeros stand for it.                                *)
Slice(buf, at, n) == SubSeq(buf \o Zeros(at + n - Len(buf)), at + 1, at + n)

(* Offsets count from 0, as in the code. *)
ReadPod(buf, at, n) == FoldRight(LAMBDA byte, high : byte + Base * high, Slice(buf, at, n), 0)

(* The most significant byte carries the sign. *)
ReadSigned(buf, at, n) ==
  LET top == ReadPod(buf, at + n - 1, 1)
  IN  FoldRight(LAMBDA byte, high : byte + Base * high, Slice(buf, at, n - 1),
                IF 2 * top >= Base THEN top - Base ELSE top)

(* memcpy of bytes to offset at of a buffer that was all zeros at first.   *)
Put(buf, at, bytes) ==
  Slice(buf, 0, at) \o bytes \o SubSeq(buf, at + Len(bytes) + 1, Len(buf))
=============================================================================
