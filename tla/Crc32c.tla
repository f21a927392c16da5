------------------------------- MODULE Crc32c -------------------------------
(***************************************************************************)
(* utils/crc32c.h.  The state is the set of its bits that are one; bit 0   *)
(* is the least significant.  The code has three ways to extend a state    *)
(* whose results "must match bit for bit"; this is the portable one.       *)
(***************************************************************************)
EXTENDS Bytes

CONSTANTS
  CrcBits,
  Polynomial      \* the bits of the reflected polynomial

ASSUME CrcAssumption == CrcBits \in Nat /\ CrcBits % BitsPerByte = 0
                          /\ Polynomial \subseteq 0..(CrcBits - 1)

kInit == 0..(CrcBits - 1)

kXorOut == 0..(CrcBits - 1)

Bits(byte) == {k \in 0..(BitsPerByte - 1) : (byte \div 2^k) % 2 = 1}

(* One bit: a shift to the right, and the polynomial if a one fell out.    *)
Shift(state) ==
  LET shifted == {k - 1 : k \in state \ {0}}
  IN  IF 0 \in state THEN SymDiff(shifted, Polynomial) ELSE shifted

extend(state, p) ==
  LET shifts[k \in 0..BitsPerByte, s \in SUBSET kInit] ==
        IF k = 0 THEN s ELSE shifts[k - 1, Shift(s)]
      from[i \in 1..(Len(p) + 1), s \in SUBSET kInit] ==
        IF i > Len(p) THEN s ELSE from[i + 1, shifts[BitsPerByte, SymDiff(s, Bits(p[i]))]]
  IN  from[1, state]

finalize(state) == SymDiff(state, kXorOut)

compute(p) == finalize(extend(kInit, p))

(* The state as it lies in memory. *)
CrcBytes(state) ==
  [i \in 1..(CrcBits \div BitsPerByte) |->
     MapThenSumSet(LAMBDA k : 2^k,
                   {k \in 0..(BitsPerByte - 1) : k + BitsPerByte * (i - 1) \in state})]
=============================================================================
