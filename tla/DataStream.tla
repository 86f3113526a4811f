----------------------------- MODULE DataStream -----------------------------
(***************************************************************************)
(* The bit stream under the generated encoders and decoders                *)
(* (internal/pgn): its cursor, its writers, its readers, and the field     *)
(* metadata that cmd/pgngen computes for them.                             *)
(*                                                                         *)
(* The bytes are those of module Words.  An error, which every caller      *)
(* returns at once, and an index out of range are kept in the stream.      *)
(***************************************************************************)
EXTENDS Words, SequencesExt

CONSTANTS MaxPGNLength,  \* the bytes of a stream: 223 in the code
          LengthBits     \* the width of a field's length: 16 bits in the code

\* A length that wraps in bits wraps in the length byte too, as in the code.
ASSUME StreamAssumption == /\ MaxPGNLength \in Nat /\ Nil \notin Int
                           /\ LengthBits \in Nat /\ LengthBits >= 11
                           /\ 8 * MaxPGNLength < 2^LengthBits

Least(a, b) == IF a < b THEN a ELSE b

NewDataStream(data) == [data |-> data, byteOffset |-> 0, bitOffset |-> 0, status |-> "ok"]

getBitOffset(s)    == 8 * s.byteOffset + s.bitOffset
remainingLength(s) == 8 * Len(s.data) - getBitOffset(s)
isEOF(s)           == s.byteOffset = Len(s.data) /\ s.bitOffset = 0

SetPosition(s, bitOffset) == [s EXCEPT !.byteOffset = bitOffset \div 8, !.bitOffset = bitOffset % 8]

Ok(s)       == s.status = "ok"
Failed(s)   == [s EXCEPT !.status = "error"]
Panicked(s) == [s EXCEPT !.status = "panic"]

\* The cursor after n more bits.
Advanced(s, n) == SetPosition(s, getBitOffset(s) + n)

-----------------------------------------------------------------------------
(* Writing.  An offset of zero stands for an unknown one.                  *)

WrongOffset(s, bitOffset) == bitOffset # 0 /\ getBitOffset(s) # bitOffset

\* The loop of putNumberRaw: as many bits as the current byte still takes.
RECURSIVE putBits(_, _, _)
putBits(s, value, bitLength) ==
  IF bitLength = 0 THEN s
  ELSE IF s.byteOffset >= Len(s.data) THEN Failed(s)
  ELSE LET n       == Least(8 - s.bitOffset, bitLength)
           outByte == {b + s.bitOffset : b \in value \cap Low(n)}
       IN putBits(Advanced([s EXCEPT !.data[s.byteOffset + 1] = @ \cup outByte], n),
                  {b - n : b \in value \ Low(n)}, bitLength - n)

putNumberRaw(s, value, bitLength, bitOffset) ==
  IF WrongOffset(s, bitOffset) THEN Failed(s) ELSE putBits(s, value, bitLength)

\* A length as the code keeps it.
uint16(n) == n % 2^LengthBits

\* Bytes, padded with zeros to a fixed length and cut at the room that the
\* caller's offset leaves: with an unknown offset, the whole of the stream,
\* wherever its cursor is.  A long value whose length has wrapped seems to need
\* padding by a negative number of bytes.
writeBinary(s, value, bitLength, bitOffset) ==
  LET asked == IF bitLength = 0 THEN uint16(Len(value)) ELSE (bitLength + 7) \div 8
      room  == MaxPGNLength - bitOffset \div 8
      n     == Least(asked, room)
      odd   == bitLength % 8
      end   == s.byteOffset + n
      Source(i) == IF i <= Len(value) THEN value[i] ELSE Zero
      data  == [i \in 1..Len(s.data) |->
                  IF i <= s.byteOffset \/ i > end THEN s.data[i]
                  ELSE IF i = end /\ odd # 0 THEN Source(i - s.byteOffset) \cap Low(odd)
                  ELSE Source(i - s.byteOffset)]
      negative == bitLength # 0 /\ uint16(Len(value)) < n /\ n < Len(value)
  IN CASE WrongOffset(s, bitOffset) \/ (asked > room /\ room = 0) -> Failed(s)
       [] negative -> Panicked(s)
       [] s.bitOffset # 0 -> Failed(s)
       [] end > Len(s.data) -> Panicked(s)
       [] OTHER -> [s EXCEPT !.data = data,
                             !.byteOffset = IF odd = 0 THEN end ELSE end - 1,
                             !.bitOffset = odd]

\* The length byte counts itself and the control byte, 1 for UTF-8, and wraps.
LauBytes(value) == <<Bits((Len(value) + 2) % 256), Bits(1)>> \o value

\* The length in bits wraps at 8192 bytes: only the rest of it is then written.
writeStringLau(s, value, bitOffset) ==
  writeBinary(s, LauBytes(value), uint16(8 * (Len(value) + 2)), bitOffset)

-----------------------------------------------------------------------------
(* Reading: a stream and a value, which is Nil when the stream has failed  *)
(* and may be Nil when it has not.                                         *)

Result(s, v) == [stream |-> s, value |-> v]
NoResult(s)  == Result(Failed(s), Nil)

\* Mutant: what is missing at the end of the stream reads as zeros.
getNumberRawPastEnd(s, bitLength) ==
  Result(Advanced(s, bitLength),
         {b \in Low(Least(bitLength, remainingLength(s))) :
            LET at == getBitOffset(s) + b IN at % 8 \in s.data[at \div 8 + 1]})

\* Nothing is read when the stream does not hold all of the field.
getNumberRaw(s, bitLength) ==
  IF bitLength > remainingLength(s) THEN NoResult(s)
  ELSE Result(Advanced(s, bitLength),
              {b \in Low(bitLength) :
                 LET at == getBitOffset(s) + b IN at % 8 \in s.data[at \div 8 + 1]})

\* The decoders ignore the error this returns past the end: the cursor moves.
skipBits(s, bitLength) == Advanced(s, bitLength)

readBinaryData(s, bitLength) ==
  LET n   == (bitLength + 7) \div 8
      odd == bitLength % 8
  IN IF s.bitOffset # 0 \/ Len(s.data) - s.byteOffset < n THEN NoResult(s)
     ELSE Result(Advanced(s, bitLength),
                 [i \in 1..n |-> IF i = n /\ odd # 0
                                 THEN s.data[s.byteOffset + i] \cap Low(odd)
                                 ELSE s.data[s.byteOffset + i]])

trimASCIILAUTerminator(bytes) ==
  IF bytes # <<>> /\ Last(bytes) = Zero THEN Front(bytes) ELSE bytes

\* The character set is always 1 here, the one writeStringLau writes.
readStringWithLengthAndControl(s) ==
  LET lc  == readBinaryData(s, 16)
      arr == readBinaryData(lc.stream, 8 * (Number(lc.value[1]) - 2))
  IN CASE ~Ok(lc.stream) -> lc
       [] Ok(lc.stream) /\ Number(lc.value[1]) <= 2 -> Result(lc.stream, <<>>)
       [] OTHER -> IF Ok(arr.stream)
                   THEN Result(arr.stream, trimASCIILAUTerminator(arr.value)) ELSE arr

-----------------------------------------------------------------------------
(* Integer fields and what the generator knows of them.                    *)

\* Mutant: short fields have no value to spare for "missing".
getReservedValueCountNoShort(numeric, bitLength) ==
  IF numeric /\ bitLength >= 4 THEN 2 ELSE 0

\* Only the numeric field types keep values at the top of their range.
getReservedValueCount(numeric, bitLength) ==
  IF ~numeric THEN 0 ELSE IF bitLength >= 4 THEN 2 ELSE 1

FieldSpec(bitLength, isSigned, numeric) ==
  LET reserved == getReservedValueCount(numeric, bitLength)
      top      == IF isSigned THEN 2^(bitLength - 1) - 1 ELSE 2^bitLength - 1
  IN [BitLength |-> bitLength, IsSigned |-> isSigned, ReservedCount |-> reserved,
      MaxRawValue  |-> IF numeric THEN top - reserved ELSE 0,
      MissingValue |-> IF reserved = 0 THEN 0 ELSE top]

Clamped(v, least, most) == IF v > most THEN most ELSE IF v < least THEN least ELSE v

\* A value outside the range of the field, its reserved values excluded, is
\* pinned to the nearest one in it.  A missing value needs a reserved one.
WriteRaw(s, value, spec) ==
  LET half == 2^(spec.BitLength - 1)
  IN CASE value = Nil /\ spec.ReservedCount = 0 -> Failed(s)
       [] value = Nil /\ spec.ReservedCount # 0 ->
            putNumberRaw(s, Bits(spec.MissingValue), spec.BitLength, 0)
       [] value # Nil /\ spec.IsSigned ->
            putNumberRaw(s, Bits(Clamped(value, -half, half - 1 - spec.ReservedCount) % 2^spec.BitLength),
                         spec.BitLength, 0)
       [] OTHER ->
            putNumberRaw(s, Bits(IF spec.ReservedCount > 0 THEN Least(value, spec.MaxRawValue) ELSE value),
                         spec.BitLength, 0)

\* Mutant: a negative number is taken for a missing one.
ReadRawSignBlind(s, spec) ==
  LET r == getNumberRaw(s, spec.BitLength)
      v == Number(r.value)
  IN IF ~Ok(r.stream) THEN r
     ELSE Result(r.stream, IF spec.ReservedCount # 0 /\ v > spec.MaxRawValue THEN Nil ELSE v)

\* A reserved value reads as Nil; a set sign bit makes the number negative.
ReadRaw(s, spec) ==
  LET r        == getNumberRaw(s, spec.BitLength)
      v        == Number(r.value)
      negative == spec.IsSigned /\ spec.BitLength - 1 \in r.value
  IN IF ~Ok(r.stream) THEN r
     ELSE Result(r.stream,
                 CASE negative -> v - 2^spec.BitLength
                   [] ~negative /\ spec.ReservedCount # 0 /\ v > spec.MaxRawValue -> Nil
                   [] OTHER -> v)
=============================================================================
