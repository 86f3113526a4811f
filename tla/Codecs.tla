------------------------------- MODULE Codecs -------------------------------
(***************************************************************************)
(* One message on its way from Publisher.Write to the subscribers of       *)
(* another node: the generated encoder of its type, the CAN identifier and *)
(* the payload that leave the adapter, and the decoder that packetstruct   *)
(* finds for the payload that arrives.                                     *)
(*                                                                         *)
(* Frames and their reassembly are those of module FastPacket: here a fast *)
(* message is one payload, a single frame its eight bytes.  The types are  *)
(* those the node speaks, and one of a manufacturer for its signed field   *)
(* and its two match fields.                                               *)
(***************************************************************************)
EXTENDS DataStream, NodeName, CanId, TLC

CONSTANT Messages   \* the structs that may be written: [type, info, val]

VARIABLES message,   \* the struct being sent, Nil before it
          outcome,   \* what became of it: idle, sent, refused, panic
          wire,      \* [id, data] on the bus, Nil when nothing is
          received,  \* the struct the receiving node publishes, Nil before it
          whole      \* the payload was not shortened on its way

vars == <<message, outcome, wire, received, whole>>

-----------------------------------------------------------------------------
(* The layout of each type, field by field, as the generator lays it out.  *)

Lookup(name, bitLength, bitOffset) ==
  [kind |-> "lookup", name |-> name, bitLength |-> bitLength, bitOffset |-> bitOffset]
Match(name, bitLength, bitOffset, value) ==
  [kind |-> "match", name |-> name, bitLength |-> bitLength, bitOffset |-> bitOffset, value |-> value]
Raw(name, bitLength) ==
  [kind |-> "raw", name |-> name, spec |-> FieldSpec(bitLength, FALSE, TRUE)]
Signed(name, bitLength) ==
  [kind |-> "raw", name |-> name, spec |-> FieldSpec(bitLength, TRUE, TRUE)]
Reserved(bitLength, bitOffset) ==
  [kind |-> "fill", name |-> "", bits |-> Ones, bitLength |-> bitLength, bitOffset |-> bitOffset]
Spare(bitLength, bitOffset) ==
  [kind |-> "fill", name |-> "", bits |-> Zero, bitLength |-> bitLength, bitOffset |-> bitOffset]
Binary(name, bitLength) == [kind |-> "binary", name |-> name, bitLength |-> bitLength]
Lau(name)      == [kind |-> "lau", name |-> name]
PgnsToEnd      == [kind |-> "pgns", name |-> "Repeating1"]
ErrorCodes     == [kind |-> "codes", name |-> "Repeating1"]
FieldValues    == [kind |-> "values", name |-> "Repeating1"]

ISOAddressClaimFields ==
  <<Raw("UniqueNumber", 21), Lookup("ManufacturerCode", 11, 21),
    Raw("DeviceInstanceLower", 3), Raw("DeviceInstanceUpper", 5),
    Lookup("DeviceFunction", 8, 40), Spare(1, 48), Lookup("DeviceClass", 7, 49),
    Raw("SystemInstance", 4), Lookup("IndustryGroup", 3, 60),
    Lookup("ArbitraryAddressCapable", 1, 63)>>

ISORequestFields ==
  <<Raw("PGN", 24)>>

ISOCommandedAddressFields ==
  <<Binary("UniqueNumber", 21), Lookup("ManufacturerCode", 11, 21),
    Raw("DeviceInstanceLower", 3), Raw("DeviceInstanceUpper", 5),
    Lookup("DeviceFunction", 8, 40), Reserved(1, 48), Lookup("DeviceClass", 7, 49),
    Raw("SystemInstance", 4), Lookup("IndustryCode", 3, 60), Reserved(1, 63),
    Raw("NewSourceAddress", 8)>>

NMEACommandGroupFunctionFields ==
  <<Match("FunctionCode", 8, 0, 1), Raw("PGN", 24), Lookup("Priority", 4, 32),
    Reserved(4, 36), Raw("NumberOfParameters", 8), FieldValues>>

NMEAAcknowledgeGroupFunctionFields ==
  <<Match("FunctionCode", 8, 0, 2), Raw("PGN", 24), Lookup("PGNErrorCode", 4, 32),
    Lookup("TransmissionIntervalPriorityErrorCode", 4, 36),
    Raw("NumberOfParameters", 8), ErrorCodes>>

PGNListTransmitAndReceiveFields ==
  <<Lookup("FunctionCode", 8, 0), PgnsToEnd>>

ConfigurationInformationFields ==
  <<Lau("InstallationDescription1"), Lau("InstallationDescription2"),
    Lau("ManufacturerInformation")>>

NavicoWirelessSignalStatusFields ==
  <<Match("ManufacturerCode", 11, 0, 275), Reserved(2, 11), Match("IndustryCode", 3, 13, 4),
    Raw("Unknown", 8), Raw("SignalStrength", 8), Signed("A", 8), Reserved(24, 40)>>

ISOAcknowledgementFields ==
  <<Lookup("Control", 8, 0), Raw("GroupFunction", 8), Reserved(24, 16), Raw("PGN", 24)>>

StandardizedSingleFrameAddressedFields ==
  <<Binary("Data", 64)>>

Layout(type) ==
  CASE type = "ISOAddressClaim"                  -> ISOAddressClaimFields
    [] type = "ISORequest"                       -> ISORequestFields
    [] type = "ISOCommandedAddress"              -> ISOCommandedAddressFields
    [] type = "NMEACommandGroupFunction"         -> NMEACommandGroupFunctionFields
    [] type = "NMEAAcknowledgeGroupFunction"     -> NMEAAcknowledgeGroupFunctionFields
    [] type = "PGNListTransmitAndReceive"        -> PGNListTransmitAndReceiveFields
    [] type = "ConfigurationInformation"         -> ConfigurationInformationFields
    [] type = "NavicoWirelessSignalStatus"       -> NavicoWirelessSignalStatusFields
    [] type = "ISOAcknowledgement"               -> ISOAcknowledgementFields
    [] type = "StandardizedSingleFrameAddressed" -> StandardizedSingleFrameAddressedFields

PgnOf(type) ==
  CASE type = "ISOAddressClaim"                  -> 60928
    [] type = "ISORequest"                       -> 59904
    [] type = "ISOCommandedAddress"              -> 65240
    [] type = "NMEACommandGroupFunction"         -> 126208
    [] type = "NMEAAcknowledgeGroupFunction"     -> 126208
    [] type = "PGNListTransmitAndReceive"        -> 126464
    [] type = "ConfigurationInformation"         -> 126998
    [] type = "NavicoWirelessSignalStatus"       -> 65312
    [] type = "ISOAcknowledgement"               -> 59392
    [] type = "StandardizedSingleFrameAddressed" -> 59392

\* Every type a PGN may hold, in the order they are tried.
PgnDiscriminatorMap ==
  [pgn \in {59392, 59904, 60928, 65240, 65312, 126208, 126464, 126998} |->
     CASE pgn = 59392  -> <<"StandardizedSingleFrameAddressed", "ISOAcknowledgement">>
       [] pgn = 59904  -> <<"ISORequest">>
       [] pgn = 60928  -> <<"ISOAddressClaim">>
       [] pgn = 65240  -> <<"ISOCommandedAddress">>
       [] pgn = 65312  -> <<"NavicoWirelessSignalStatus">>
       [] pgn = 126208 -> <<"NMEACommandGroupFunction", "NMEAAcknowledgeGroupFunction">>
       [] pgn = 126464 -> <<"PGNListTransmitAndReceive">>
       [] pgn = 126998 -> <<"ConfigurationInformation">>]

IsFast(pgn)     == pgn \in {126208, 126464, 126998}
HasDecoder(pgn) == pgn \in DOMAIN PgnDiscriminatorMap

IsProprietaryPGN(pgn) ==
  \/ pgn \in 61184..61439
  \/ pgn \in 65280..65535
  \/ pgn \in 126720..126975
  \/ pgn \in 130816..131071

\* The width of a field by its number: only the numeric fields have a spec.
FindFieldSpec(pgn, fieldOrder) ==
  CASE pgn = 60928 /\ fieldOrder = 1 -> 21
    [] pgn = 60928 /\ fieldOrder = 3 -> 3
    [] pgn = 60928 /\ fieldOrder = 4 -> 5
    [] pgn = 60928 /\ fieldOrder = 8 -> 4
    [] OTHER -> Nil

\* The fields of a string PGN carry their own length.
SelfDelimiting(pgn, fieldOrder) == pgn = 126998 /\ fieldOrder \in 1..3

-----------------------------------------------------------------------------
(* Encoding.                                                               *)

Parameter == FieldSpec(8, FALSE, FALSE)
ListedPGN == FieldSpec(24, FALSE, TRUE)

\* A repeated field, element after element, up to the first error.
Each(Step(_, _), s, list) ==
  FoldLeft(LAMBDA t, e : IF Ok(t) THEN Step(t, e) ELSE t, s, list)

WriteFieldValue(s, p) ==
  LET numbered == WriteRaw(s, p.Parameter, Parameter)
  IN IF Ok(numbered) THEN writeBinary(numbered, p.Value, 0, 0) ELSE numbered

EncodeField(s, f, val) ==
  CASE f.kind \in {"lookup", "match"} -> putNumberRaw(s, Bits(val[f.name]), f.bitLength, f.bitOffset)
    [] f.kind = "raw"    -> WriteRaw(s, val[f.name], f.spec)
    [] f.kind = "fill"   -> putNumberRaw(s, f.bits, f.bitLength, f.bitOffset)
    [] f.kind = "binary" -> writeBinary(s, val[f.name], f.bitLength, 0)
    [] f.kind = "lau"    -> writeStringLau(s, val[f.name], 0)
    [] f.kind = "pgns"   -> Each(LAMBDA t, pgn : WriteRaw(t, pgn, ListedPGN), s, val.Repeating1)
    [] f.kind = "codes"  -> Each(LAMBDA t, code : putNumberRaw(t, Bits(code), 4, 0), s, val.Repeating1)
    [] f.kind = "values" -> Each(WriteFieldValue, s, val.Repeating1)

EncodeStruct(m) ==
  Each(LAMBDA s, f : EncodeField(s, f, m.val),
       NewDataStream([i \in 1..MaxPGNLength |-> Zero]), Layout(m.type))

\* The payload is the whole bytes of the stream: a last half byte is left out.
Payload(s) == SubSeq(s.data, 1, s.byteOffset)

sendSingle(data) == [i \in 1..8 |-> IF i <= Len(data) THEN data[i] ELSE Low(8)]

Info(m) == [m.info EXCEPT !.PGN = IF @ = 0 THEN PgnOf(m.type) ELSE @]

WritePgn(info, data) ==
  [id   |-> CanIDFromData(Bits(info.PGN), Bits(info.SourceId), Bits(info.Priority), Bits(info.TargetId)),
   data |-> IF IsFast(info.PGN) THEN data ELSE sendSingle(data)]

-----------------------------------------------------------------------------
(* Decoding: the struct read so far, the stream after it.                  *)

matchesVariant(s, type) ==
  \A i \in DOMAIN Layout(type) :
    LET f == Layout(type)[i]
        r == getNumberRaw(SetPosition(s, f.bitOffset), f.bitLength)
    IN f.kind = "match" => Ok(r.stream) /\ Number(r.value) = f.value

\* The first type whose match fields the payload has, Nil when there is none.
FindDecoder(s, pgn) ==
  LET matching == SelectSeq(PgnDiscriminatorMap[pgn], LAMBDA type : matchesVariant(s, type))
  IN IF HasDecoder(pgn) /\ matching # <<>> THEN Head(matching) ELSE Nil

\* STRING_LAU is self-delimiting, other fields take whole bytes.
readGroupFunctionFieldValue(s, referencedPGN, parameter) ==
  LET width  == FindFieldSpec(referencedPGN, parameter)
      header == readBinaryData(s, 16)
      rest   == readBinaryData(header.stream, 8 * (Number(header.value[1]) - 2))
  IN IF referencedPGN = Nil THEN NoResult(s)
     ELSE IF SelfDelimiting(referencedPGN, parameter)
     THEN IF ~Ok(header.stream) \/ Number(header.value[1]) < 2 THEN NoResult(s)
          ELSE IF Ok(rest.stream) THEN Result(rest.stream, header.value \o rest.value) ELSE rest
     ELSE IF width = Nil THEN NoResult(s)
     ELSE readBinaryData(s, 8 * ((width + 7) \div 8))

ReadFieldValue(s, referencedPGN) ==
  LET parameter == ReadRaw(s, Parameter)
      field     == readGroupFunctionFieldValue(parameter.stream, referencedPGN, parameter.value)
  IN IF Ok(parameter.stream)
     THEN Result(field.stream, [Parameter |-> parameter.value, Value |-> field.value])
     ELSE parameter

\* One more element of a list, unless reading it fails.
ReadOnto(list, element) ==
  Result(element.stream,
         IF Ok(element.stream) THEN Append(list.value, element.value) ELSE list.value)

Times(Read(_), s, count) ==
  FoldLeft(LAMBDA list, i : IF Ok(list.stream) THEN ReadOnto(list, Read(list.stream)) ELSE list,
           Result(s, <<>>), [i \in 1..count |-> i])

RECURSIVE ToEnd(_)
ToEnd(list) ==
  IF ~Ok(list.stream) \/ isEOF(list.stream) THEN list
  ELSE ToEnd(ReadOnto(list, ReadRaw(list.stream, ListedPGN)))

readLookupField(s, bitLength) ==
  LET r == getNumberRaw(s, bitLength)
  IN IF Ok(r.stream) THEN Result(r.stream, Number(r.value)) ELSE r

\* How many parameters follow: none when the number of them did not arrive.
Count(val) == IF val.NumberOfParameters = Nil THEN 0 ELSE val.NumberOfParameters

Foreign(pgn) == pgn # Nil /\ (IsProprietaryPGN(pgn) \/ ~HasDecoder(pgn))

ReadField(s, f, val) ==
  CASE f.kind \in {"lookup", "match"} -> readLookupField(s, f.bitLength)
    [] f.kind = "raw"    -> ReadRaw(s, f.spec)
    [] f.kind = "binary" -> readBinaryData(s, f.bitLength)
    [] f.kind = "lau"    -> readStringWithLengthAndControl(s)
    [] f.kind = "pgns"   -> ToEnd(Result(s, <<>>))
    [] f.kind = "codes"  -> Times(LAMBDA t : readLookupField(t, 4), s, Count(val))
    [] f.kind = "values" -> Times(LAMBDA t : ReadFieldValue(t, val.PGN), s, Count(val))

PartialOf == [NMEACommandGroupFunction     |-> "NMEACommandGroupFunctionPartial",
              NMEAAcknowledgeGroupFunction |-> "NMEAAcknowledgeGroupFunctionPartial"]

\* The parameters of a PGN this library does not know stay bytes.
DecodeField(got, f) ==
  LET partial == f.kind \in {"codes", "values"} /\ Foreign(got.val.PGN)
      r == IF partial THEN readBinaryData(got.stream, remainingLength(got.stream))
           ELSE ReadField(got.stream, f, got.val)
  IN IF f.kind = "fill" THEN [got EXCEPT !.stream = skipBits(@, f.bitLength)]
     ELSE [stream  |-> r.stream,
           val     |-> got.val @@ ((IF partial THEN "RawData" ELSE f.name) :> r.value),
           partial |-> partial]

\* A match field that differs ends a decoder as an error does; FindDecoder
\* has looked at it before.
Decoder(s, type) ==
  FoldLeft(LAMBDA got, f : IF Ok(got.stream) THEN DecodeField(got, f) ELSE got,
           [stream |-> s, val |-> <<>>, partial |-> FALSE], Layout(type))

ExtractMessageInfo(id) ==
  LET h == DecodeCanID(id)
  IN [PGN |-> Number(h.PGN), SourceId |-> Number(h.SourceId),
      TargetId |-> Number(h.TargetId), Priority |-> Number(h.Priority)]

UnknownPGN(info) == [type |-> "UnknownPGN", info |-> info, val |-> <<>>]

HandlePacket(id, data) ==
  LET info    == ExtractMessageInfo(id)
      s       == NewDataStream(data)
      decoder == FindDecoder(s, info.PGN)
      got     == Decoder(s, decoder)
  IN IF decoder = Nil THEN UnknownPGN(info)
     ELSE IF ~Ok(got.stream) THEN UnknownPGN(info)
     ELSE [type |-> IF got.partial THEN PartialOf[decoder] ELSE decoder,
           info |-> info, val |-> got.val]

-----------------------------------------------------------------------------

Init == /\ message = Nil
        /\ outcome = "idle"
        /\ wire = Nil
        /\ received = Nil
        /\ whole = TRUE

\* Publisher.Write and the WritePgn below it.
Write(m) ==
  LET s    == EncodeStruct(m)
      info == Info(m)
      long == ~IsFast(info.PGN) /\ Len(Payload(s)) > 8
      sent == Ok(s) /\ ~long
  IN /\ message = Nil
     /\ message' = m
     /\ outcome' = IF s.status = "panic" THEN "panic" ELSE IF sent THEN "sent" ELSE "refused"
     /\ wire' = IF sent THEN WritePgn(info, Payload(s)) ELSE Nil
     /\ UNCHANGED <<received, whole>>

\* A commanded address is longer than a frame and not a fast packet: it comes
\* from another device, put together by a gateway below this library.
Transport(m) ==
  LET s    == EncodeStruct(m)
      info == Info(m)
  IN /\ message = Nil
     /\ m.type = "ISOCommandedAddress"
     /\ Ok(s)
     /\ message' = m
     /\ outcome' = "carried"
     /\ wire' = [WritePgn(info, <<>>) EXCEPT !.data = Payload(s)]
     /\ UNCHANGED <<received, whole>>

Deliver ==
  /\ wire # Nil /\ received = Nil
  /\ received' = HandlePacket(wire.id, wire.data)
  /\ UNCHANGED <<message, outcome, wire, whole>>

\* A device of another revision of a fast message ends it earlier.
Cut(length) ==
  /\ wire # Nil /\ received = Nil
  /\ IsFast(Info(message).PGN)
  /\ length \in 1..Len(wire.data) - 1
  /\ received' = HandlePacket(wire.id, SubSeq(wire.data, 1, length))
  /\ whole' = FALSE
  /\ UNCHANGED <<message, outcome, wire>>

\* The next message; after a panic it is one of the next run of the program.
Again ==
  /\ received # Nil \/ outcome \in {"refused", "panic"}
  /\ message' = Nil
  /\ outcome' = "idle"
  /\ wire' = Nil
  /\ received' = Nil
  /\ whole' = TRUE

Next == \/ \E m \in Messages : Write(m) \/ Transport(m)
        \/ Deliver
        \/ \E length \in 1..MaxPGNLength : Cut(length)
        \/ Again

Spec == Init /\ [][Next]_vars

-----------------------------------------------------------------------------
(* Properties.                                                             *)

Fields(type) == {Layout(type)[i] : i \in DOMAIN Layout(type)}
Named(type)  == {f \in Fields(type) : f.kind # "fill"}

\* What a number field of this width can carry, its reserved values apart.
Carried(spec, v) ==
  LET half     == 2^(spec.BitLength - 1)
      reserved == IF spec.BitLength < 4 THEN 1 ELSE 2
  IN IF v = Nil THEN Nil
     ELSE IF spec.IsSigned THEN Clamped(v, -half, half - 1 - reserved)
     ELSE Clamped(v, 0, 2 * half - 1 - reserved)

\* got says what was sent, as far as the field can say it.
Kept(f, sent, got) ==
  CASE f.kind \in {"lookup", "match"} -> got = sent % 2^f.bitLength
    [] f.kind = "raw"    -> got = Carried(f.spec, sent)
    [] f.kind = "binary" -> \A b \in Low(f.bitLength) :
                              b % 8 \in got[b \div 8 + 1] <=> b % 8 \in sent[b \div 8 + 1]
    [] f.kind = "lau"    -> got = sent \/ Append(got, Zero) = sent
    [] f.kind = "pgns"   -> got = [i \in DOMAIN sent |-> Carried(ListedPGN, sent[i])]
    [] OTHER             -> got = sent

\* As Kept, for a message that ends early.
Begun(f, sent, got) ==
  IF f.kind = "pgns" THEN IsPrefix(got, [i \in DOMAIN sent |-> Carried(ListedPGN, sent[i])])
  ELSE Kept(f, sent, got)

GroupFunction(m) == m.type \in DOMAIN PartialOf
Opaque(m)        == GroupFunction(m) /\ Foreign(m.val.PGN)

\* A field value is as long as the receiver takes it to be.
Described(pgn, p) ==
  IF SelfDelimiting(pgn, p.Parameter)
  THEN Len(p.Value) >= 2 /\ Len(p.Value) = Number(p.Value[1])
  ELSE /\ FindFieldSpec(pgn, p.Parameter) # Nil
       /\ Len(p.Value) = (FindFieldSpec(pgn, p.Parameter) + 7) \div 8

\* A string or a field value so long that its length wraps: what is written of it
\* is short, and no error says so.
Wraps(f, val) ==
  \/ f.kind = "lau" /\ 8 * (Len(val[f.name]) + 2) >= 2^LengthBits
  \/ f.kind = "values" /\ \E i \in DOMAIN val.Repeating1 :
                            Len(val.Repeating1[i].Value) >= 2^LengthBits

\* The messages that the wire form can hold: no length wraps, the parameters of a
\* group function are counted, are whole bytes and, in a command, have a known
\* length; the decoder found first for the PGN is that of the type.
Wireable(m) ==
  /\ m.type # "ISOAcknowledgement"
  /\ \A f \in Fields(m.type) : ~Wraps(f, m.val)
  /\ GroupFunction(m) => Count(m.val) = Len(m.val.Repeating1)
  /\ m.type = "NMEAAcknowledgeGroupFunction" => Len(m.val.Repeating1) % 2 = 0
  /\ m.type = "NMEACommandGroupFunction" /\ ~Opaque(m) =>
       \A i \in DOMAIN m.val.Repeating1 : Described(m.val.PGN, m.val.Repeating1[i])

Headline(m) == IF Opaque(m) THEN PartialOf[m.type] ELSE m.type

\* The types of all that is kept of a message on its way.
CodecTypeOK ==
  /\ message \in Messages \cup {Nil}
  /\ outcome \in {"idle", "sent", "carried", "refused", "panic"}
  /\ wire # Nil => /\ wire.id \subseteq 0..31
                   /\ wire.data \in Seq(SUBSET (0..7))
                   /\ outcome = "sent" /\ ~IsFast(Info(message).PGN) => Len(wire.data) = 8
  /\ received # Nil => wire # Nil /\ received.info.TargetId \in 0..255
  /\ whole \in BOOLEAN

\* The PGN, the source and the priority reach the receiver, and so does the
\* destination of an addressed PGN; any other arrives as a broadcast.
HeaderArrives ==
  received.info = [Info(message) EXCEPT
    !.TargetId = IF Addressed(Bits(Info(message).PGN)) THEN @ ELSE 255]

\* Beside the types: the header arrives, and a message that the wire form can hold
\* is read back as the same type with
\* the same fields: missing stays missing, a number out of range becomes the
\* nearest the field can say, the sign is kept, and one string's terminator
\* may go.  The parameters of a PGN unknown here stay the bytes that were sent.
ReadBackIsWritten ==
  /\ CodecTypeOK
  /\ received # Nil => HeaderArrives
  /\ received # Nil /\ whole /\ Wireable(message) =>
       /\ received.type = Headline(message)
       /\ \A f \in Named(message.type) :
            IF f.name = "Repeating1" /\ Opaque(message)
            THEN received.val.RawData = SubSeq(wire.data, 7, Len(wire.data))
            ELSE Kept(f, message.val[f.name], received.val[f.name])

\* A message cut short is either reported as unknown or holds nothing that
\* was not sent.
NothingInvented ==
  received # Nil /\ ~whole /\ Wireable(message) /\ received.type # "UnknownPGN" =>
    /\ received.type = Headline(message)
    /\ \A f \in Named(message.type) :
         IF f.name = "Repeating1" /\ Opaque(message)
         THEN IsPrefix(received.val.RawData, SubSeq(wire.data, 7, Len(wire.data)))
         ELSE Begun(f, message.val[f.name], received.val[f.name])

Flat(data) == {b \in Low(8 * Len(data)) : b % 8 \in data[b \div 8 + 1]}

\* The device a claim or a command is about.
Device(val) ==
  [UniqueNumber            |-> val.UniqueNumber,
   ManufacturerCode        |-> val.ManufacturerCode,
   DeviceInstanceLower     |-> val.DeviceInstanceLower,
   DeviceInstanceUpper     |-> val.DeviceInstanceUpper,
   DeviceFunction          |-> val.DeviceFunction,
   DeviceClass             |-> val.DeviceClass,
   SystemInstance          |-> val.SystemInstance,
   IndustryGroup           |-> val.IndustryGroup,
   ArbitraryAddressCapable |-> val.ArbitraryAddressCapable = 1]

\* None of the values at the top of a numeric field of the NAME is in use.
Announceable(d) == /\ d.DeviceInstanceLower < 7
                   /\ d.DeviceInstanceUpper < 30
                   /\ d.SystemInstance < 14

\* The NAME that another node computes from an address claim is the eight bytes of
\* the claim, and the one this node goes by when the encoder has pinned no part of it.
NameIsAnnounced ==
  message.type = "ISOAddressClaim" =>
    LET d    == Device(message.val)
        name == computeNameFromClaim(received.val)
    IN ValidDeviceInfo(d) =>
         /\ name = Flat(wire.data)
         /\ Announceable(d) /\ d.UniqueNumber < 2^21 - 2 => name = computeName(d)

\* The NAME computed from a commanded address is that of the device commanded,
\* but for the arbitrary-address bit, which the command does not carry, under
\* the same condition; its unique number is bytes and is never pinned.
NameIsCommanded ==
  message.type = "ISOCommandedAddress" =>
    LET d == [Device(message.val @@ [IndustryGroup |-> message.val.IndustryCode,
                                     ArbitraryAddressCapable |-> 0])
                EXCEPT !.UniqueNumber = Number(Flat(@))]
    IN ValidDeviceInfo(d) /\ Announceable(d) =>
         computeNameFromCommand(received.val) = computeName(d)

\* Every node computes one NAME for a device none of whose numbers is a value that
\* the encoder keeps for "missing": from its configuration, from its claim and from a
\* command to it, whatever ends of their ranges the parts are at.
NamesAgree == received # Nil => NameIsAnnounced /\ NameIsCommanded

\* What docs/node-design.md says of identity data that SetDeviceInfo accepts: the
\* claim carries the NAME that the node compares competing claims with.
ClaimCarriesName ==
  received # Nil /\ message.type = "ISOAddressClaim" /\ ValidDeviceInfo(Device(message.val)) =>
    computeNameFromClaim(received.val) = computeName(Device(message.val))

Size(f, val) ==
  CASE f.kind \in {"lookup", "match", "fill"} -> f.bitLength
    [] f.kind = "raw"    -> f.spec.BitLength
    [] f.kind = "binary" -> f.bitLength
    [] f.kind = "lau"    -> 8 * (Len(val[f.name]) + 2)
    [] f.kind = "pgns"   -> 24 * Len(val.Repeating1)
    [] f.kind = "codes"  -> 4 * Len(val.Repeating1)
    [] f.kind = "values" -> FoldLeft(LAMBDA n, p : n + 8 + 8 * Len(p.Value), 0, val.Repeating1)

Fits(m) ==
  LET bits == FoldLeft(LAMBDA n, f : n + Size(f, m.val), 0, Layout(m.type))
  IN /\ bits <= 8 * (IF IsFast(Info(m).PGN) THEN MaxPGNLength ELSE 8)
     /\ m.type = "NMEACommandGroupFunction" =>
          \A i \in DOMAIN m.val.Repeating1 : m.val.Repeating1[i].Parameter # Nil

\* Write sends the messages that fit the stream and the frame, whatever the position,
\* the width or the missing value of a field, and of those that do not fit none but
\* such as have a length that wraps.  A refusal may be an error or a panic.
FittingIsSent ==
  outcome \in {"sent", "refused", "panic"} =>
    /\ Fits(message) => outcome = "sent"
    /\ outcome = "sent" =>
         Fits(message) \/ \E f \in Fields(message.type) : Wraps(f, message.val)

\* What the serialization test asserts of every message: what was written is
\* read back as the same struct with the same fields.
RoundTrips ==
  received # Nil /\ whole =>
    /\ received.type = Headline(message)
    /\ \A f \in Named(message.type) : Kept(f, message.val[f.name], received.val[f.name])
=============================================================================
