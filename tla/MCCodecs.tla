------------------------------ MODULE MCCodecs ------------------------------
(***************************************************************************)
(* The messages for TLC: every field of a NAME at the ends of its range,   *)
(* parameter lists that fill the stream and one that does not fit, and     *)
(* strings, missing values and PGNs known, unknown and proprietary.        *)
(***************************************************************************)
EXTENDS Codecs

MCInfos == [PGN : {0}, SourceId : {1, 254}, TargetId : {7, 255}, Priority : {6}]
MCInfo  == [PGN |-> 0, SourceId |-> 1, TargetId |-> 7, Priority |-> 3]

MCDevices ==
  [UniqueNumber : {0, 2^21 - 3, 2^21 - 2, 2^21 - 1}, ManufacturerCode : {1, 2047},
   DeviceInstanceLower : {6, 7}, DeviceInstanceUpper : {29, 30, 31},
   DeviceFunction : {129}, DeviceClass : {0, 127}, SystemInstance : {13, 14, 15},
   IndustryGroup : {4}, ArbitraryAddressCapable : BOOLEAN]

\* What another device may announce: any number may be missing.
MCMissing ==
  [UniqueNumber : {Nil, 1}, ManufacturerCode : {0}, DeviceInstanceLower : {Nil, 1},
   DeviceInstanceUpper : {Nil, 1}, DeviceFunction : {0}, DeviceClass : {1},
   SystemInstance : {Nil, 1}, IndustryGroup : {7}, ArbitraryAddressCapable : BOOLEAN]

MCClaims == {[type |-> "ISOAddressClaim", info |-> MCInfo, val |-> buildAddressClaim(d)] :
               d \in MCDevices \cup MCMissing}
            \cup {[type |-> "ISOAddressClaim", info |-> i,
                   val |-> buildAddressClaim(CHOOSE d \in MCDevices : d.SystemInstance = 13)] :
                  i \in MCInfos}

Byte(n) == Bits(n)

MCCommands ==
  {[type |-> "ISOCommandedAddress", info |-> [MCInfo EXCEPT !.TargetId = 255], val |-> v] :
     v \in [UniqueNumber : {<<Byte(1), Byte(2), Byte(31)>>, <<Byte(255), Byte(255), Byte(31)>>},
            ManufacturerCode : {1, 2047}, DeviceInstanceLower : {6, 7},
            DeviceInstanceUpper : {0, 29, 31}, DeviceFunction : {129}, DeviceClass : {0, 127},
            SystemInstance : {13, 15}, IndustryCode : {4}, NewSourceAddress : {1, 253, Nil}]}

MCLists == {[type |-> "PGNListTransmitAndReceive", info |-> MCInfo,
             val |-> [FunctionCode |-> c, Repeating1 |-> l]] :
              c \in {0, 1}, l \in SeqOf({59904, 126998, 16777215, Nil}, 3)
                                  \cup {<<59904, 60928, 126208, 126464>>}}

MCStrings == {<<>>, <<Byte(65)>>, <<Byte(65), Byte(0)>>, <<Byte(65), Byte(0), Byte(66)>>,
              [i \in 1..7 |-> Byte(66)], [i \in 1..13 |-> Byte(66)]}

MCConfigurations ==
  {[type |-> "ConfigurationInformation", info |-> MCInfo, val |-> v] :
     v \in [InstallationDescription1 : MCStrings, InstallationDescription2 : MCStrings,
            ManufacturerInformation : MCStrings]}

\* Strings as long as a length can count, and longer: the last two are written as an
\* empty string and as one of one byte.
MCLongStrings == {[i \in 1..n |-> Byte(66)] :
                    n \in {m + 2^LengthBits \div 8 - 2 : m \in {-1, 0, 1, 2, 3}}}

MCLong ==
  {[type |-> "ConfigurationInformation", info |-> MCInfo, val |-> v] :
     v \in [InstallationDescription1 : MCLongStrings, InstallationDescription2 : {<<>>},
            ManufacturerInformation : {<<Byte(65)>>}]
          \cup [InstallationDescription1 : {<<>>}, InstallationDescription2 : {<<Byte(65)>>},
                ManufacturerInformation : MCLongStrings]}

\* A known PGN, one with no decoder, a proprietary one, and none.
MCReferences == {60928, 126998, 127000, 65312, Nil}

MCAckVal(pgn, n, codes) ==
  [FunctionCode |-> 2, PGN |-> pgn, PGNErrorCode |-> 1,
   TransmissionIntervalPriorityErrorCode |-> 15, NumberOfParameters |-> n, Repeating1 |-> codes]

MCAcks == {[type |-> "NMEAAcknowledgeGroupFunction", info |-> MCInfo,
            val |-> MCAckVal(pgn, Len(codes), codes)] :
             pgn \in MCReferences, codes \in SeqOf({0, 3, 15}, 4)}
          \cup {[type |-> "NMEAAcknowledgeGroupFunction", info |-> MCInfo,
                 val |-> MCAckVal(pgn, Nil, codes)] :
                  pgn \in MCReferences, codes \in {<<>>, <<3>>, <<3, 0>>}}

MCFieldValues ==
  {[Parameter |-> 1, Value |-> <<Byte(2), Byte(1)>>],
   [Parameter |-> 2, Value |-> <<Byte(3), Byte(1), Byte(65)>>],
   [Parameter |-> 1, Value |-> <<Byte(255), Byte(0), Byte(31)>>],
   [Parameter |-> 2, Value |-> <<Byte(255), Byte(7)>>],
   [Parameter |-> 3, Value |-> <<Byte(6)>>],
   [Parameter |-> Nil, Value |-> <<Byte(6)>>]}

MCGroupCommands ==
  {[type |-> "NMEACommandGroupFunction", info |-> MCInfo,
    val |-> [FunctionCode |-> 1, PGN |-> pgn, Priority |-> 8,
             NumberOfParameters |-> Len(l), Repeating1 |-> l]] :
     pgn \in MCReferences, l \in SeqOf(MCFieldValues, 2)}

MCSignals ==
  {[type |-> "NavicoWirelessSignalStatus", info |-> [MCInfo EXCEPT !.PGN = 65312], val |-> v] :
     v \in [ManufacturerCode : {275}, IndustryCode : {4}, Unknown : {0, 253, 254, Nil},
            SignalStrength : {128, 255}, A : {-128, -1, 0, 125, 126, 127, Nil}]}

MCIsoAcks ==
  {[type |-> "ISOAcknowledgement", info |-> MCInfo, val |-> v] :
     v \in [Control : {0, 1}, GroupFunction : {Nil, 3}, PGN : {126998}]}

MCRequests == {[type |-> "ISORequest", info |-> i, val |-> [PGN |-> pgn]] :
                 i \in MCInfos, pgn \in {60928, Nil}}

\* Values as long as a length can count, and longer.
MCLongValues ==
  {[type |-> "NMEACommandGroupFunction", info |-> MCInfo,
    val |-> [FunctionCode |-> 1, PGN |-> 126998, Priority |-> 8, NumberOfParameters |-> 1,
             Repeating1 |-> <<[Parameter |-> 1, Value |-> [i \in 1..n |-> Byte(2)]]>>]] :
     n \in {2^LengthBits - 1, 2^LengthBits, 2^LengthBits + 2}}

MCMessages == MCRequests \cup MCClaims \cup MCIsoAcks \cup MCCommands \cup MCLists \cup MCConfigurations
              \cup MCAcks \cup MCGroupCommands \cup MCSignals
              \cup MCLong \cup MCLongValues

\* The claims of the devices that SetDeviceInfo accepts.
MCIdentities == {m \in MCClaims : ValidDeviceInfo(Device(m.val))}

\* The acknowledgements of a counted parameter list.
MCAcknowledgements == {m \in MCAcks : m.val.NumberOfParameters = Len(m.val.Repeating1) /\ m.val.PGN = 126998}
=============================================================================
