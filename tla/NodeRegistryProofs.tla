------------------------- MODULE NodeRegistryProofs -------------------------
(***************************************************************************)
(* Proofs about the known-device registry for every set of NAMEs, every    *)
(* size of the address space and every mix of messages.                    *)
(***************************************************************************)
EXTENDS NodeRegistry, WellFoundedInduction, TLAPS

\* Where the usable, the null and the global address lie, and what Nil is not.
LEMMA AddressFacts ==
  /\ Usable \subseteq Address
  /\ NullAddress \in Address
  /\ GlobalAddress \in Address
  /\ GlobalAddress \notin Usable
  /\ NullAddress \notin Usable
  /\ 0 \in Address
  /\ Nil \notin Address
  /\ Nil \notin Names
  /\ Nil \notin Device
  /\ Nil \notin Values
  /\ Nil # 0
  /\ Names \subseteq Nat
BY RegistryAssumption, NilAssumption
DEF Usable, Address, NullAddress, GlobalAddress

\* Looking a NAME up in knownDevices yields a device, the zero one if it is missing.
LEMMA ZeroDeviceType == ASSUME RegistryTypeOK, NEW n \in Names
                        PROVE  knownDevice(n) \in Device
BY AddressFacts DEF RegistryTypeOK, knownDevice, Device, Info, NoInfo

\* The record a claim saves is a device with the claim's address and NAME.
LEMMA ClaimedDeviceType ==
  ASSUME RegistryTypeOK, NEW a \in Address, NEW n \in Names
  PROVE  /\ claimedDevice(a, n) \in Device
         /\ claimedDevice(a, n).Address = a
         /\ claimedDevice(a, n).Name = n
<1> DEFINE d == knownDevice(n)
           u == unknownKnownDevicesByAddress[a]
<1>1. d \in Device
  BY ZeroDeviceType
<1>2. ASSUME u # Nil
      PROVE  mergeKnownDevice(d, u) \in Device
  <2>1. u \in Device
    BY <1>2 DEF RegistryTypeOK
  <2>2. [k \in Kinds |-> IF d.info[k] = Nil THEN copied(u.info)[k] ELSE d.info[k]] \in Info
    BY <1>1, <2>1 DEF Device, Info, copied
  <2>3. (IF d.Address = 0 THEN u.Address ELSE d.Address) \in Address
    BY <1>1, <2>1 DEF Device
  <2> HIDE DEF d, u
  <2> QED
    BY <1>1, <2>2, <2>3 DEF mergeKnownDevice, Device
<1> DEFINE merged == IF u = Nil THEN d ELSE mergeKnownDevice(d, u)
<1>3. merged \in Device
  BY <1>1, <1>2
<1>4. claimedDevice(a, n) = [merged EXCEPT !.Address = a, !.Name = n]
  BY DEF claimedDevice
<1> HIDE DEF merged
<1> QED
  BY <1>3, <1>4 DEF Device

\* knownDeviceForAddressLocked yields a device, and its Name is what the index
\* says of the address.
LEMMA ForAddressType ==
  ASSUME RegistryInv, NEW a \in Address
  PROVE  /\ knownDeviceForAddressLocked(a) \in Device
         /\ knownDeviceNamesByAddress[a] # Nil =>
              knownDeviceForAddressLocked(a).Name = knownDeviceNamesByAddress[a]
         /\ knownDeviceNamesByAddress[a] = Nil =>
              knownDeviceForAddressLocked(a).Name = 0
<1> DEFINE e == knownDeviceForAddressLocked(a)
           n == knownDeviceNamesByAddress[a]
<1>1. CASE n # Nil
  <2>1. n \in Names
    BY <1>1 DEF RegistryInv, RegistryTypeOK
  <2>2. e = knownDevices[n] /\ knownDevices[n].Name = n /\ knownDevices[n] # Nil
    BY <1>1, <2>1
    DEF RegistryInv, IndexLeadsToRecord, knownDeviceForAddressLocked, knownDevice
  <2> QED
    BY <1>1, <2>1, <2>2 DEF RegistryInv, RegistryTypeOK
<1>2. CASE n = Nil /\ unknownKnownDevicesByAddress[a] # Nil
  BY <1>2 DEF RegistryInv, RegistryTypeOK, UnnamedOnlyWhileUnclaimed,
              knownDeviceForAddressLocked
<1>3. CASE n = Nil /\ unknownKnownDevicesByAddress[a] = Nil
  BY <1>3 DEF knownDeviceForAddressLocked, Device, Info, NoInfo
<1> QED
  BY <1>1, <1>2, <1>3

\* The record an information message saves is a device at that address, of the
\* indexed NAME.
LEMMA InformedDeviceType ==
  ASSUME RegistryInv, NEW k \in Kinds, NEW a \in Address, NEW v \in Values
  PROVE  /\ informedDevice(k, a, v) \in Device
         /\ informedDevice(k, a, v).Address = a
         /\ knownDeviceNamesByAddress[a] # Nil =>
              informedDevice(k, a, v).Name = knownDeviceNamesByAddress[a]
         /\ knownDeviceNamesByAddress[a] = Nil => informedDevice(k, a, v).Name = 0
<1> DEFINE e == knownDeviceForAddressLocked(a)
           n == knownDeviceNamesByAddress[a]
<1>1. /\ e \in Device
      /\ n # Nil => e.Name = n
      /\ n = Nil => e.Name = 0
  BY ForAddressType
<1>2. informedDevice(k, a, v) =
        [e EXCEPT !.Address = a, !.info = [e.info EXCEPT ![k] = v]]
  BY DEF informedDevice
<1> HIDE DEF e, n
<1> QED
  BY <1>1, <1>2 DEF Device, Info, e, n

-----------------------------------------------------------------------------
(* The inductive invariant.                                                *)

\* The empty maps satisfy the invariant.
LEMMA RegistryInitInv == RegistryInit => RegistryInv
BY AddressFacts
DEF RegistryInit, RegistryInv, RegistryTypeOK, PlacedIsIndexed,
    IndexLeadsToRecord, UnnamedOnlyWhileUnclaimed

\* updateKnownDeviceFromClaim keeps the maps well typed.
LEMMA ClaimKeepsTypes ==
  ASSUME RegistryTypeOK, NEW a \in Address, NEW n \in Names,
         updateKnownDeviceFromClaim(a, n)
  PROVE  RegistryTypeOK'
<1>1. \A m \in Names : [knownDevice(m) EXCEPT !.Address = GlobalAddress] \in Device
  BY ZeroDeviceType, AddressFacts DEF Device
<1>2. knownDevices' \in [Names -> Device \cup {Nil}]
  BY <1>1, ClaimedDeviceType DEF updateKnownDeviceFromClaim, RegistryTypeOK
<1>3. knownDeviceNamesByAddress' \in [Address -> Names \cup {Nil}]
  BY DEF updateKnownDeviceFromClaim, RegistryTypeOK
<1>4. unknownKnownDevicesByAddress' \in [Address -> Device \cup {Nil}]
  BY DEF updateKnownDeviceFromClaim, RegistryTypeOK
<1> QED
  BY <1>2, <1>3, <1>4 DEF RegistryTypeOK

\* The three information handlers keep the maps well typed.
LEMMA InfoKeepsTypes ==
  ASSUME RegistryTypeOK, NEW k \in Kinds, NEW a \in Address, NEW v \in Values,
         ReceiveInfo(k, a, v)
  PROVE  RegistryTypeOK'
<1> DEFINE e == knownDeviceForAddressLocked(a)
           d == informedDevice(k, a, v)
<1>1. e \in Device
  <2>1. CASE knownDeviceNamesByAddress[a] # Nil
    BY <2>1, ZeroDeviceType DEF RegistryTypeOK, knownDeviceForAddressLocked
  <2>2. CASE knownDeviceNamesByAddress[a] = Nil
    BY <2>2, AddressFacts
    DEF RegistryTypeOK, knownDeviceForAddressLocked, Device, Info, NoInfo
  <2> QED
    BY <2>1, <2>2
<1>2. d = [e EXCEPT !.Address = a, !.info = [e.info EXCEPT ![k] = v]]
  BY DEF informedDevice
<1> HIDE DEF e
<1>3. d \in Device
  BY <1>1, <1>2 DEF Device, Info
<1>4. setKnownDeviceForAddressLocked(a, d)
  BY DEF ReceiveInfo, updateKnownDeviceFromProductInfo,
         updateKnownDeviceFromConfigurationInfo, updateKnownDeviceFromPgnList
<1> HIDE DEF d
<1>5. d.Name # 0 => d.Name \in Names
  BY <1>3 DEF Device
<1> QED
  BY <1>3, <1>4, <1>5 DEF setKnownDeviceForAddressLocked, RegistryTypeOK

\* updateKnownDeviceFromClaim preserves the invariant, whatever the source address.
LEMMA ClaimPreservesInv ==
  ASSUME RegistryInv, NEW a \in Address, NEW n \in Names, ReceiveClaim(a, n)
  PROVE  RegistryInv'
<1> USE DEF RegistryInv
<1>1. updateKnownDeviceFromClaim(a, n)
  BY DEF ReceiveClaim
<1>2. /\ claimedDevice(a, n) \in Device
      /\ claimedDevice(a, n).Address = a
      /\ claimedDevice(a, n).Name = n
  BY ClaimedDeviceType
<1> DEFINE parked(m) == [knownDevice(m) EXCEPT !.Address = GlobalAddress]
<1>3. \A m \in Names : /\ parked(m) \in Device
                       /\ parked(m).Address = GlobalAddress
                       /\ parked(m).Name = knownDevice(m).Name
  BY ZeroDeviceType, AddressFacts DEF Device
<1>4. \A m \in Names : knownDevices'[m] =
         IF m = n THEN claimedDevice(a, n)
         ELSE IF Displaced(a, n, m) THEN parked(m) ELSE knownDevices[m]
  BY <1>1 DEF updateKnownDeviceFromClaim
<1>5. \A b \in Address : knownDeviceNamesByAddress'[b] =
         IF b = a THEN n
         ELSE IF Vacated(a, n, b) THEN Nil ELSE knownDeviceNamesByAddress[b]
  BY <1>1 DEF updateKnownDeviceFromClaim
<1>6. \A b \in Address : unknownKnownDevicesByAddress'[b] =
         IF b = a THEN Nil ELSE unknownKnownDevicesByAddress[b]
  BY <1>1 DEF updateKnownDeviceFromClaim, RegistryTypeOK
<1> HIDE DEF parked
<1>7. RegistryTypeOK'
  BY <1>1, ClaimKeepsTypes
<1>8. PlacedIsIndexed'
  <2> SUFFICES ASSUME NEW m \in Names,
                      knownDevices'[m] # Nil,
                      knownDevices'[m].Address # GlobalAddress
               PROVE  knownDeviceNamesByAddress'[knownDevices'[m].Address] = m
    BY DEF PlacedIsIndexed
  <2>1. CASE m = n
    BY <2>1, <1>2, <1>4, <1>5
  <2>2. CASE m # n
    <3>1. ~Displaced(a, n, m)
      BY <2>2, <1>3, <1>4
    <3>2. knownDevices'[m] = knownDevices[m]
      BY <2>2, <3>1, <1>4
    <3>3. knownDevices[m].Address \in Address
      BY <3>2 DEF RegistryTypeOK, Device
    <3>4. knownDeviceNamesByAddress[knownDevices[m].Address] = m
      BY <3>2 DEF PlacedIsIndexed
    <3>5. knownDevices[m].Address # a
      BY <3>1, <3>4, <2>2 DEF Displaced
    <3>6. ~Vacated(a, n, knownDevices[m].Address)
      \* n would be indexed at the address that m is indexed at
      BY <3>4, <2>2, AddressFacts DEF Vacated, PlacedIsIndexed
    <3> QED
      BY <3>2, <3>3, <3>4, <3>5, <3>6, <1>5
  <2> QED
    BY <2>1, <2>2
<1>9. IndexLeadsToRecord'
  <2> SUFFICES ASSUME NEW b \in Address, knownDeviceNamesByAddress'[b] # Nil
               PROVE  /\ knownDevices'[knownDeviceNamesByAddress'[b]] # Nil
                      /\ knownDevices'[knownDeviceNamesByAddress'[b]].Name =
                           knownDeviceNamesByAddress'[b]
    BY DEF IndexLeadsToRecord
  <2>1. CASE b = a
    BY <2>1, <1>2, <1>4, <1>5, AddressFacts
  <2>2. CASE b # a
    <3> DEFINE m == knownDeviceNamesByAddress[b]
    <3>1. knownDeviceNamesByAddress'[b] = m /\ m # Nil /\ m \in Names
      BY <2>2, <1>5 DEF RegistryTypeOK
    <3>2. knownDevices[m] # Nil /\ knownDevices[m].Name = m
      BY <3>1 DEF IndexLeadsToRecord
    <3>3. knownDevice(m).Name = m
      BY <3>2 DEF knownDevice
    <3>4. knownDevices'[m] # Nil /\ knownDevices'[m].Name = m
      BY <3>1, <3>2, <3>3, <1>2, <1>3, <1>4, AddressFacts
    <3> QED
      BY <3>1, <3>4
  <2> QED
    BY <2>1, <2>2
<1>10. UnnamedOnlyWhileUnclaimed'
  BY <1>5, <1>6 DEF UnnamedOnlyWhileUnclaimed
<1> QED
  BY <1>7, <1>8, <1>9, <1>10

\* What an information message does to the maps: the record at the indexed
\* NAME, or else (NAME 0 included) the unnamed record of the address, is replaced.
LEMMA InfoEffect ==
  ASSUME RegistryInv, NEW k \in Kinds, NEW a \in Address, NEW v \in Values,
         ReceiveInfo(k, a, v)
  PROVE  LET d == informedDevice(k, a, v)
             n == knownDeviceNamesByAddress[a]
         IN  \/ /\ n \in Names \ {0}
                /\ n # Nil
                /\ knownDevices' = [knownDevices EXCEPT ![n] = d]
                /\ knownDeviceNamesByAddress' = knownDeviceNamesByAddress
                /\ unknownKnownDevicesByAddress' = unknownKnownDevicesByAddress
             \/ /\ n \in {Nil, 0}
                /\ unknownKnownDevicesByAddress' =
                     [unknownKnownDevicesByAddress EXCEPT ![a] = d]
                /\ UNCHANGED <<knownDevices, knownDeviceNamesByAddress>>
<1> DEFINE d == informedDevice(k, a, v)
           n == knownDeviceNamesByAddress[a]
<1>1. setKnownDeviceForAddressLocked(a, d)
  BY DEF ReceiveInfo, updateKnownDeviceFromProductInfo,
         updateKnownDeviceFromConfigurationInfo, updateKnownDeviceFromPgnList
<1>2. /\ n # Nil => d.Name = n
      /\ n = Nil => d.Name = 0
  BY InformedDeviceType
<1> HIDE DEF d
<1>3. CASE n \notin {Nil, 0}
  <2>1. n \in Names
    BY <1>3 DEF RegistryInv, RegistryTypeOK
  <2>2. d.Name # 0
    BY <1>2, <1>3, <2>1, AddressFacts
  <2>3. unknownKnownDevicesByAddress[a] = Nil
    BY <1>3 DEF RegistryInv, UnnamedOnlyWhileUnclaimed
  <2>4. /\ [unknownKnownDevicesByAddress EXCEPT ![a] = Nil]
             = unknownKnownDevicesByAddress
        /\ [knownDeviceNamesByAddress EXCEPT ![a] = n] = knownDeviceNamesByAddress
    BY <2>3 DEF RegistryInv, RegistryTypeOK
  <2> QED
    BY <1>1, <1>2, <1>3, <2>1, <2>2, <2>4 DEF setKnownDeviceForAddressLocked, d
<1>4. CASE n \in {Nil, 0}
  <2>1. d.Name = 0
    BY <1>2, <1>4
  <2> QED
    BY <1>1, <1>4, <2>1 DEF setKnownDeviceForAddressLocked, d
<1> QED
  BY <1>3, <1>4

\* The three information handlers preserve the invariant.
LEMMA InfoPreservesInv ==
  ASSUME RegistryInv, NEW k \in Kinds, NEW a \in Address, NEW v \in Values,
         ReceiveInfo(k, a, v)
  PROVE  RegistryInv'
<1> DEFINE d == informedDevice(k, a, v)
           n == knownDeviceNamesByAddress[a]
<1>1. /\ d \in Device
      /\ d.Address = a
      /\ n # Nil => d.Name = n
      /\ n = Nil => d.Name = 0
  BY InformedDeviceType
<1>2. \/ /\ n \in Names \ {0}
         /\ n # Nil
         /\ knownDevices' = [knownDevices EXCEPT ![n] = d]
         /\ knownDeviceNamesByAddress' = knownDeviceNamesByAddress
         /\ unknownKnownDevicesByAddress' = unknownKnownDevicesByAddress
      \/ /\ n \in {Nil, 0}
         /\ unknownKnownDevicesByAddress' =
              [unknownKnownDevicesByAddress EXCEPT ![a] = d]
         /\ UNCHANGED <<knownDevices, knownDeviceNamesByAddress>>
  BY InfoEffect
<1> HIDE DEF d
<1>3. RegistryTypeOK'
  BY <1>1, <1>2 DEF RegistryInv, RegistryTypeOK
<1>4. PlacedIsIndexed'
  BY <1>1, <1>2 DEF RegistryInv, RegistryTypeOK, PlacedIsIndexed
<1>5. IndexLeadsToRecord'
  BY <1>1, <1>2, AddressFacts DEF RegistryInv, RegistryTypeOK, IndexLeadsToRecord
<1>6. UnnamedOnlyWhileUnclaimed'
  BY <1>1, <1>2, AddressFacts DEF RegistryInv, RegistryTypeOK, UnnamedOnlyWhileUnclaimed
<1> QED
  BY <1>3, <1>4, <1>5, <1>6 DEF RegistryInv

\* The registry's maps stay consistent with each other whatever NAMEs, source
\* addresses and information messages the bus delivers.
THEOREM RegistryInvariant == RegistrySpec => []RegistryInv
<1>1. RegistryInv /\ [RegistryNext]_registryVars => RegistryInv'
  <2> SUFFICES ASSUME RegistryInv, [RegistryNext]_registryVars
               PROVE  RegistryInv'
    OBVIOUS
  <2>1. CASE RegistryNext
    BY <2>1, ClaimPreservesInv, InfoPreservesInv DEF RegistryNext
  <2>2. CASE UNCHANGED registryVars
    BY <2>2 DEF registryVars, RegistryInv, RegistryTypeOK, PlacedIsIndexed,
                IndexLeadsToRecord, UnnamedOnlyWhileUnclaimed
  <2> QED
    BY <2>1, <2>2
<1> QED
  BY <1>1, RegistryInitInv, PTL DEF RegistrySpec

\* Two listed devices at one address are the same record: a named one is the one
\* the index names, an unnamed one exists only where the index is empty.
LEMMA InvGivesOneDevicePerAddress == RegistryInv => OneDevicePerAddress
<1> SUFFICES ASSUME RegistryInv, NEW d \in KnownDevices, NEW e \in KnownDevices,
                    d.Address = e.Address
             PROVE  d = e \/ (0 \in Names /\ d.Name = 0 /\ e.Name = 0)
  BY DEF OneDevicePerAddress
<1> DEFINE Named(x) == \E n \in Names : /\ x = cloneKnownDevice(knownDevices[n])
                                        /\ knownDevices[n] # Nil
                                        /\ knownDevices[n].Address = x.Address
                                        /\ x.Address \in Usable
                                        /\ x.Name = knownDevices[n].Name
           Unnamed(x) == \E a \in Address :
                           /\ x = cloneKnownDevice(unknownKnownDevicesByAddress[a])
                           /\ unknownKnownDevicesByAddress[a] # Nil
                           /\ x.Address = a
                           /\ x.Name = 0
<1>1. \A x \in Device : /\ cloneKnownDevice(x).Address = x.Address
                       /\ cloneKnownDevice(x).Name = x.Name
  BY DEF cloneKnownDevice, Device
<1>2. ASSUME NEW x \in KnownDevices PROVE Named(x) \/ Unnamed(x)
  BY <1>1 DEF KnownDevices, RegistryInv, RegistryTypeOK, UnnamedOnlyWhileUnclaimed
<1>3. ASSUME NEW n \in Names, knownDevices[n] # Nil, knownDevices[n].Address \in Usable
      PROVE  knownDeviceNamesByAddress[knownDevices[n].Address] = n
  BY <1>3, AddressFacts DEF RegistryInv, PlacedIsIndexed
<1>4. CASE Named(d) /\ Named(e)
  BY <1>3, <1>4
<1>5. CASE Unnamed(d) /\ Unnamed(e)
  BY <1>5
<1>6. ASSUME NEW x, NEW y, Named(x), Unnamed(y), x.Address = y.Address
      PROVE  0 \in Names /\ x.Name = 0 /\ y.Name = 0
  <2>1. PICK n \in Names : /\ knownDevices[n] # Nil
                           /\ knownDevices[n].Address = x.Address
                           /\ x.Address \in Usable
                           /\ x.Name = knownDevices[n].Name
    BY <1>6
  <2>2. knownDeviceNamesByAddress[x.Address] = n
    BY <1>3, <2>1
  <2>3. n \in {Nil, 0}
    BY <1>6, <2>1, <2>2, AddressFacts DEF RegistryInv, UnnamedOnlyWhileUnclaimed
  <2>4. n = 0 /\ knownDevices[n].Name = n
    BY <2>1, <2>2, <2>3, AddressFacts DEF RegistryInv, IndexLeadsToRecord
  <2> QED
    BY <1>6, <2>1, <2>4
<1> HIDE DEF Named, Unnamed
<1> QED
  BY <1>2, <1>4, <1>5, <1>6

\* KnownDevices lists at most one device at an address, in every execution, but
\* for a device that claims with NAME 0, which is listed with what it says beside it.
THEOREM SnapshotIsUnambiguous == RegistrySpec => []OneDevicePerAddress
BY RegistryInvariant, InvGivesOneDevicePerAddress, PTL

-----------------------------------------------------------------------------
(* When every claim comes from a usable address, the index is exact.       *)

ExactInv == RegistryInv /\ IndexedIsPlaced

\* With claims from usable addresses, every handler keeps the index exact.
LEMMA ExactStep ==
  ASSUME ClaimSources \subseteq Usable, ExactInv, [RegistryNext]_registryVars
  PROVE  ExactInv'
<1>1. RegistryInv'
  BY ClaimPreservesInv, InfoPreservesInv
  DEF ExactInv, RegistryNext, registryVars, RegistryInv, RegistryTypeOK,
      PlacedIsIndexed, IndexLeadsToRecord, UnnamedOnlyWhileUnclaimed
<1>2. ASSUME NEW a \in Address, NEW n \in Names, ReceiveClaim(a, n)
      PROVE  IndexedIsPlaced'
  <2>1. updateKnownDeviceFromClaim(a, n) /\ a \in Usable
    BY <1>2 DEF ReceiveClaim
  <2> SUFFICES ASSUME NEW b \in Address, knownDeviceNamesByAddress'[b] # Nil
               PROVE  /\ b \in Usable
                      /\ knownDevices'[knownDeviceNamesByAddress'[b]].Address = b
    BY DEF IndexedIsPlaced
  <2>2. CASE b = a
    BY <2>1, <2>2, ClaimedDeviceType
    DEF updateKnownDeviceFromClaim, ExactInv, RegistryInv
  <2>3. CASE b # a
    <3> DEFINE m == knownDeviceNamesByAddress[b]
    <3>1. /\ m = knownDeviceNamesByAddress'[b]
          /\ m # Nil
          /\ m \in Names
          /\ ~Vacated(a, n, b)
      BY <2>1, <2>3 DEF updateKnownDeviceFromClaim, ExactInv, RegistryInv, RegistryTypeOK
    <3>2. /\ b \in Usable
          /\ knownDevices[m] # Nil
          /\ knownDevices[m].Address = b
      BY <3>1 DEF ExactInv, IndexedIsPlaced, RegistryInv, IndexLeadsToRecord
    <3>3. m # n
      BY <2>3, <3>1, <3>2 DEF Vacated
    <3>4. ~Displaced(a, n, m)
      BY <2>3, <3>1, <3>2, <3>3 DEF Displaced, ExactInv, IndexedIsPlaced
    <3> QED
      BY <2>1, <3>1, <3>2, <3>3, <3>4 DEF updateKnownDeviceFromClaim
  <2> QED
    BY <2>2, <2>3
<1>3. ASSUME NEW k \in Kinds, NEW a \in Address, NEW v \in Values, ReceiveInfo(k, a, v)
      PROVE  IndexedIsPlaced'
  <2>1. RegistryInv
    BY DEF ExactInv
  <2>2. informedDevice(k, a, v).Address = a
    BY <2>1, InformedDeviceType
  <2>3. CASE knownDeviceNamesByAddress[a] \notin {Nil, 0}
    BY <1>3, <2>1, <2>2, <2>3, InfoEffect
    DEF ExactInv, IndexedIsPlaced, RegistryInv, RegistryTypeOK
  <2>4. CASE knownDeviceNamesByAddress[a] \in {Nil, 0}
    BY <1>3, <2>1, <2>4, InfoEffect DEF ExactInv, IndexedIsPlaced
  <2> QED
    BY <2>3, <2>4
<1>4. CASE UNCHANGED registryVars
  BY <1>1, <1>4 DEF registryVars, ExactInv, IndexedIsPlaced
<1> QED
  BY <1>1, <1>2, <1>3, <1>4 DEF ExactInv, RegistryNext

\* The empty index is exact.
LEMMA ExactInit == RegistryInit => ExactInv
BY RegistryInitInv DEF ExactInv, IndexedIsPlaced, RegistryInit

\* With claims from usable addresses only, the index and the records agree.
THEOREM IndexIsExact ==
  ASSUME ClaimSources \subseteq Usable
  PROVE  RegistrySpec => []IndexedIsPlaced
<1>1. ExactInv /\ [RegistryNext]_registryVars => ExactInv'
  BY ExactStep
<1>2. ExactInv => IndexedIsPlaced
  BY DEF ExactInv
<1> QED
  BY <1>1, <1>2, ExactInit, PTL DEF RegistrySpec

-----------------------------------------------------------------------------
(* The search for a free address.                                          *)

\* Every non-empty set of natural numbers has a least element.
LEMMA LeastElement ==
  ASSUME NEW S, S \subseteq Nat, S # {}
  PROVE  \E i \in S : \A j \in S : i <= j
<1> DEFINE less == {p \in Nat \X Nat : p[1] < p[2]}
<1>1. IsWellFoundedOn(less, Nat)
  BY NatLessThanWellFounded, Zenon DEF OpToRel
<1>2. \E i \in S : \A j \in S : <<j, i>> \notin less
  <2> HIDE DEF less
  <2> QED
    BY <1>1, WFMin
<1>3. \A i, j \in Nat : <<j, i>> \notin less => i <= j
  OBVIOUS
<1> HIDE DEF less
<1> QED
  BY <1>2, <1>3

\* The search goes once round the usable addresses and meets every one of them.
LEMMA SearchMeetsAll ==
  ASSUME NEW after \in Usable, NEW b \in Usable
  PROVE  \E i \in 1..(LastAddress + 1) : (after + i) % (LastAddress + 1) = b
<1>0. after \in Nat /\ b \in Nat /\ after <= LastAddress /\ b <= LastAddress /\ LastAddress \in Nat
  BY RegistryAssumption DEF Usable
<1>1. CASE b > after
  <2>1. (after + (b - after)) % (LastAddress + 1) = b
    BY <1>0
  <2>2. b - after \in 1..(LastAddress + 1)
    BY <1>0, <1>1
  <2> QED
    BY <2>1, <2>2
<1>2. CASE b <= after
  <2> DEFINE i == b - after + LastAddress + 1
  <2>1. after + i = b + (LastAddress + 1)
    BY <1>0
  <2>2. (b + (LastAddress + 1)) % (LastAddress + 1) = b
    BY <1>0
  <2>3. i \in 1..(LastAddress + 1)
    BY <1>0, <1>2
  <2> QED
    BY <2>1, <2>2, <2>3
<1> QED
  BY <1>0, <1>1, <1>2

\* nextAvailableAddressLocked returns a usable address that claimedAddresses does not
\* hold, and none only if it holds them all.
LEMMA NextAvailable ==
  ASSUME NEW after \in Address
  PROVE  LET next == nextAvailableAddressLocked(after)
         IN  /\ next \in Usable \cup {Nil}
             /\ next # Nil => next \notin claimedAddresses(after)
             /\ next = Nil /\ after \in Usable => Usable \subseteq claimedAddresses(after)
<1> DEFINE candidate(i) == (after + i) % (LastAddress + 1)
           free == {i \in 1..(LastAddress + 1) :
                      candidate(i) \notin claimedAddresses(after)}
<1>1. \A i \in Nat : candidate(i) \in Usable
  BY RegistryAssumption DEF Usable, Address, GlobalAddress
<1>2. CASE free = {}
  <2>1. nextAvailableAddressLocked(after) = Nil
    BY <1>2 DEF nextAvailableAddressLocked
  <2>2. ASSUME after \in Usable, NEW b \in Usable PROVE b \in claimedAddresses(after)
    <3>1. PICK i \in 1..(LastAddress + 1) : candidate(i) = b
      BY <2>2, SearchMeetsAll
    <3> QED
      BY <1>2, <3>1
  <2> QED
    BY <2>1, <2>2
<1>3. CASE free # {}
  <2> DEFINE least == CHOOSE i \in free : \A j \in free : i <= j
  <2>1. nextAvailableAddressLocked(after) = candidate(least)
    BY <1>3 DEF nextAvailableAddressLocked
  <2>2. \E i \in free : \A j \in free : i <= j
    <3>1. free \subseteq Nat
      OBVIOUS
    <3> HIDE DEF free
    <3> QED
      BY <1>3, <3>1, LeastElement
  <2>3. least \in free
    BY <2>2
  <2>4. candidate(least) \in Usable /\ candidate(least) \notin claimedAddresses(after)
    <3>1. least \in 1..(LastAddress + 1) /\ candidate(least) \notin claimedAddresses(after)
      BY <2>3
    <3>2. least \in Nat
      BY <3>1
    <3> HIDE DEF candidate, least
    <3> QED
      BY <3>1, <3>2, <1>1
  <2>5. Nil \notin Usable
    BY AddressFacts
  <2> QED
    BY <2>1, <2>4, <2>5
<1> QED
  BY <1>2, <1>3

\* Behind an exact index the addresses the search avoids are those of the listed
\* devices.
LEMMA ClaimedIsHeld ==
  ASSUME ExactInv, NEW after \in Usable
  PROVE  claimedAddresses(after) = (Usable \cap {d.Address : d \in KnownDevices}) \cup {after}
<1> DEFINE held == {d.Address : d \in KnownDevices}
<1>0. \A x \in Device : cloneKnownDevice(x).Address = x.Address
  BY DEF cloneKnownDevice, Device
<1>1. ASSUME NEW a \in Usable, knownDeviceNamesByAddress[a] # Nil PROVE a \in held
  <2> DEFINE n == knownDeviceNamesByAddress[a]
  <2>1. n \in Names /\ a \in Address
    BY <1>1, AddressFacts DEF ExactInv, RegistryInv, RegistryTypeOK
  <2>2. knownDevices[n] \in Device /\ knownDevices[n] # Nil /\ knownDevices[n].Address = a
    BY <1>1, <2>1 DEF ExactInv, RegistryInv, RegistryTypeOK, IndexLeadsToRecord, IndexedIsPlaced
  <2>3. cloneKnownDevice(knownDevices[n]) \in KnownDevices
    BY <2>1, <2>2 DEF KnownDevices
  <2> QED
    BY <2>2, <2>3, <1>0
<1>2. ASSUME NEW a \in Usable, unknownKnownDevicesByAddress[a] # Nil PROVE a \in held
  <2> DEFINE d == unknownKnownDevicesByAddress[a]
  <2>1. a \in Address
    BY AddressFacts
  <2>2. d \in Device /\ d.Address = a
    BY <1>2, <2>1 DEF ExactInv, RegistryInv, RegistryTypeOK, UnnamedOnlyWhileUnclaimed
  <2>3. cloneKnownDevice(d) \in KnownDevices
    BY <1>2, <2>1 DEF KnownDevices
  <2> QED
    BY <2>2, <2>3, <1>0
<1>3. ASSUME NEW d \in KnownDevices, d.Address \in Usable PROVE d.Address \in claimedAddresses(after)
  <2>1. CASE \E n \in Names : /\ knownDevices[n] # Nil
                              /\ knownDevices[n].Address \in Usable
                              /\ d = cloneKnownDevice(knownDevices[n])
    <3>1. PICK n \in Names : /\ knownDevices[n] # Nil
                             /\ knownDevices[n].Address \in Usable
                             /\ d = cloneKnownDevice(knownDevices[n])
      BY <2>1
    <3>2. knownDeviceNamesByAddress[knownDevices[n].Address] = n
      BY <3>1, AddressFacts DEF ExactInv, RegistryInv, PlacedIsIndexed
    <3>3. knownDevices[n] \in Device
      BY <3>1 DEF ExactInv, RegistryInv, RegistryTypeOK
    <3>4. d.Address = knownDevices[n].Address
      BY <3>1, <3>3, <1>0
    <3> QED
      BY <3>1, <3>2, <3>4, AddressFacts DEF claimedAddresses
  <2>2. CASE \E a \in Address : /\ unknownKnownDevicesByAddress[a] # Nil
                                /\ d = cloneKnownDevice(unknownKnownDevicesByAddress[a])
    <3>1. PICK a \in Address : /\ unknownKnownDevicesByAddress[a] # Nil
                               /\ d = cloneKnownDevice(unknownKnownDevicesByAddress[a])
      BY <2>2
    <3>2. unknownKnownDevicesByAddress[a] \in Device /\ unknownKnownDevicesByAddress[a].Address = a
      BY <3>1 DEF ExactInv, RegistryInv, RegistryTypeOK, UnnamedOnlyWhileUnclaimed
    <3>3. d.Address = a
      BY <3>1, <3>2, <1>0
    <3> QED
      BY <1>3, <3>1, <3>3 DEF claimedAddresses
  <2> QED
    BY <2>1, <2>2 DEF KnownDevices
<1> QED
  BY <1>1, <1>2, <1>3 DEF claimedAddresses

\* So the address a losing node retries is free and none is missed.
LEMMA ExactGivesFreeRetry == ExactInv => RetryAddressIsFree
<1> SUFFICES ASSUME ExactInv, NEW after \in Usable
             PROVE  LET held == {d.Address : d \in KnownDevices}
                        next == nextAvailableAddressLocked(after)
                    IN  IF next = Nil THEN Usable \subseteq held \cup {after}
                        ELSE next \in Usable \ (held \cup {after})
  BY DEF RetryAddressIsFree
<1>1. after \in Address
  BY AddressFacts
<1> QED
  BY <1>1, NextAvailable, ClaimedIsHeld

\* The address a node retries after losing one is held by no listed device, and
\* it gives up only when the listed devices hold all the others.
THEOREM RetryIsFree ==
  ASSUME ClaimSources \subseteq Usable
  PROVE  RegistrySpec => []RetryAddressIsFree
<1>1. ExactInv /\ [RegistryNext]_registryVars => ExactInv'
  BY ExactStep
<1> QED
  BY <1>1, ExactInit, ExactGivesFreeRetry, PTL DEF RegistrySpec

-----------------------------------------------------------------------------
(* The registry implements DeviceDirectory.                                *)

\* The empty registry is the empty directory.
LEMMA RefinementInit == RegistryInit => Directory!Init
BY AddressFacts
DEF RegistryInit, Directory!Init, Directory!NothingSaid, atBar, saysBar,
    asideBar, InfoOf, NoInfo

\* A claim fills what the device has not said itself from a copy of what was said
\* at its address.
LEMMA ClaimedInfo ==
  ASSUME RegistryTypeOK, NEW a \in Address, NEW n \in Names
  PROVE  claimedDevice(a, n).info =
           [k \in Kinds |->
              IF InfoOf(knownDevices[n])[k] = Nil
              THEN copied(InfoOf(unknownKnownDevicesByAddress[a]))[k]
              ELSE InfoOf(knownDevices[n])[k]]
<1> DEFINE d == knownDevice(n)
           u == unknownKnownDevicesByAddress[a]
<1>1. d \in Device /\ d.info = InfoOf(knownDevices[n])
  BY ZeroDeviceType DEF knownDevice, InfoOf
<1>2. CASE u = Nil
  <2>1. claimedDevice(a, n) = [d EXCEPT !.Address = a, !.Name = n]
    BY <1>2 DEF claimedDevice
  <2>2. claimedDevice(a, n).info = d.info
    BY <1>1, <2>1 DEF Device
  <2>3. d.info = [k \in Kinds |-> IF d.info[k] = Nil THEN Nil ELSE d.info[k]]
    BY <1>1 DEF Device, Info
  <2> QED
    BY <1>1, <1>2, <2>2, <2>3 DEF InfoOf, NoInfo, copied
<1>3. CASE u # Nil
  <2> DEFINE merged == [d EXCEPT
                !.Address = IF @ = 0 THEN u.Address ELSE @,
                !.info = [k \in Kinds |-> IF d.info[k] = Nil THEN copied(u.info)[k]
                                                             ELSE d.info[k]]]
  <2>1. claimedDevice(a, n) = [merged EXCEPT !.Address = a, !.Name = n]
    BY <1>3 DEF claimedDevice, mergeKnownDevice
  <2>2. merged.info = [k \in Kinds |-> IF d.info[k] = Nil THEN copied(u.info)[k] ELSE d.info[k]]
    BY <1>1 DEF Device
  <2>3. claimedDevice(a, n).info = merged.info
    BY <1>1, <2>1 DEF Device
  <2> QED
    BY <1>1, <1>3, <2>2, <2>3 DEF InfoOf
<1> QED
  BY <1>2, <1>3

\* A claim is the directory's Claim.
LEMMA ClaimRefines ==
  ASSUME ClaimSources \subseteq Usable, ExactInv,
         NEW a \in Address, NEW n \in Names, ReceiveClaim(a, n)
  PROVE  a \in Usable /\ Directory!Claim(n, a)
<1>1. updateKnownDeviceFromClaim(a, n) /\ a \in Usable
  BY DEF ReceiveClaim
<1>2. /\ claimedDevice(a, n) \in Device
      /\ claimedDevice(a, n).Address = a
  BY ClaimedDeviceType DEF ExactInv, RegistryInv
<1> DEFINE parked(m) == [knownDevice(m) EXCEPT !.Address = GlobalAddress]
<1>3. \A m \in Names : /\ parked(m) \in Device
                       /\ parked(m).Address = GlobalAddress
                       /\ parked(m).info = knownDevice(m).info
  BY ZeroDeviceType, AddressFacts DEF Device, ExactInv, RegistryInv
<1>4. \A m \in Names : knownDevices'[m] =
         IF m = n THEN claimedDevice(a, n)
         ELSE IF Displaced(a, n, m) THEN parked(m) ELSE knownDevices[m]
  BY <1>1 DEF updateKnownDeviceFromClaim
<1> HIDE DEF parked
<1>5. atBar' = [m \in Names |-> IF m = n THEN a
                                ELSE IF atBar[m] = a THEN Nil ELSE atBar[m]]
  <2> SUFFICES ASSUME NEW m \in Names
               PROVE  atBar'[m] = IF m = n THEN a
                                  ELSE IF atBar[m] = a THEN Nil ELSE atBar[m]
    BY DEF atBar
  <2>1. CASE m = n
    BY <1>1, <1>2, <1>4, <2>1, AddressFacts DEF atBar
  <2>2. CASE m # n /\ Displaced(a, n, m)
    <3>1. atBar[m] = a
      BY <1>1, <2>2, AddressFacts
      DEF Displaced, ExactInv, IndexedIsPlaced, RegistryInv, IndexLeadsToRecord, atBar
    <3>2. atBar'[m] = Nil
      BY <1>3, <1>4, <2>2, AddressFacts DEF atBar
    <3> QED
      BY <2>2, <3>1, <3>2
  <2>3. CASE m # n /\ ~Displaced(a, n, m)
    <3>1. atBar[m] # a
      BY <1>1, <2>3, AddressFacts
      DEF Displaced, ExactInv, RegistryInv, PlacedIsIndexed, atBar
    <3>2. atBar'[m] = atBar[m]
      BY <1>4, <2>3 DEF atBar
    <3> QED
      BY <2>3, <3>1, <3>2
  <2> QED
    BY <2>1, <2>2, <2>3
<1>6. saysBar' = [saysBar EXCEPT ![n] =
                    [k \in Kinds |-> IF saysBar[n][k] = Nil THEN copied(asideBar[a])[k]
                                                            ELSE saysBar[n][k]]]
  <2>1. saysBar'[n] = [k \in Kinds |-> IF saysBar[n][k] = Nil THEN copied(asideBar[a])[k]
                                                              ELSE saysBar[n][k]]
    <3>1. saysBar'[n] = claimedDevice(a, n).info
      BY <1>2, <1>4, AddressFacts DEF saysBar, InfoOf
    <3>2. saysBar[n] = InfoOf(knownDevices[n])
      BY DEF saysBar
    <3>3. asideBar[a] = InfoOf(unknownKnownDevicesByAddress[a])
      BY <1>1 DEF asideBar
    <3> QED
      BY <3>1, <3>2, <3>3, ClaimedInfo DEF ExactInv, RegistryInv
  <2>2. ASSUME NEW m \in Names, m # n PROVE saysBar'[m] = saysBar[m]
    <3>1. CASE Displaced(a, n, m)
      <4>1. knownDevices[m] # Nil
        BY <2>2, <3>1, AddressFacts DEF Displaced, ExactInv, RegistryInv, IndexLeadsToRecord
      <4>2. knownDevices'[m] # Nil /\ knownDevices'[m].info = knownDevices[m].info
        BY <1>3, <1>4, <2>2, <3>1, <4>1, AddressFacts DEF knownDevice
      <4> QED
        BY <4>1, <4>2 DEF saysBar, InfoOf
    <3>2. CASE ~Displaced(a, n, m)
      BY <1>4, <2>2, <3>2 DEF saysBar
    <3> QED
      BY <3>1, <3>2
  <2> QED
    BY <2>1, <2>2 DEF saysBar
<1>7. asideBar' = [asideBar EXCEPT ![a] = NoInfo]
  <2>1. \A b \in Usable : unknownKnownDevicesByAddress'[b] =
                            IF b = a THEN Nil ELSE unknownKnownDevicesByAddress[b]
    BY <1>1, AddressFacts
    DEF updateKnownDeviceFromClaim, ExactInv, RegistryInv, RegistryTypeOK
  <2> QED
    BY <2>1 DEF asideBar, InfoOf
<1>8. \A info : Directory!Credited(info) = copied(info)
  BY DEF Directory!Credited, copied
<1> QED
  BY <1>1, <1>5, <1>6, <1>7, <1>8 DEF Directory!Claim, Directory!NothingSaid, NoInfo

\* An information message is the directory's Say, or changes nothing it shows.
LEMMA InfoRefines ==
  ASSUME ExactInv, NEW k \in Kinds, NEW a \in Address, NEW v \in Values,
         ReceiveInfo(k, a, v)
  PROVE  \/ a \in Usable /\ Directory!Say(a, k, v)
         \/ UNCHANGED <<atBar, saysBar, asideBar>>
<1> DEFINE d == informedDevice(k, a, v)
           n == knownDeviceNamesByAddress[a]
<1>1. RegistryInv
  BY DEF ExactInv
<1>2. d \in Device /\ d.Address = a
  BY <1>1, InformedDeviceType
<1>3. d.info = [knownDeviceForAddressLocked(a).info EXCEPT ![k] = v]
  <2> DEFINE e == knownDeviceForAddressLocked(a)
  <2>1. e \in Device
    BY <1>1, ForAddressType
  <2>2. d = [e EXCEPT !.Address = a, !.info = [e.info EXCEPT ![k] = v]]
    BY DEF informedDevice
  <2> HIDE DEF e, d
  <2>3. d.info = [e.info EXCEPT ![k] = v]
    BY <2>1, <2>2 DEF Device
  <2> QED
    BY <2>3 DEF e
<1> HIDE DEF d
<1>4. CASE n \notin {Nil, 0}
  <2>1. /\ n \in Names \ {0}
        /\ knownDevices' = [knownDevices EXCEPT ![n] = d]
        /\ knownDeviceNamesByAddress' = knownDeviceNamesByAddress
        /\ unknownKnownDevicesByAddress' = unknownKnownDevicesByAddress
    BY <1>1, <1>4, InfoEffect DEF d
  <2>2. /\ a \in Usable
        /\ knownDevices[n] # Nil
        /\ knownDevices[n].Address = a
    BY <1>1, <1>4 DEF ExactInv, IndexedIsPlaced, RegistryInv, IndexLeadsToRecord
  <2>3. d.info = [knownDevices[n].info EXCEPT ![k] = v]
    BY <1>3, <1>4, <2>2 DEF knownDeviceForAddressLocked, knownDevice
  <2>4. atBar' = atBar /\ atBar[n] = a
    BY <1>1, <1>2, <2>1, <2>2, AddressFacts DEF atBar, RegistryInv, RegistryTypeOK
  <2>5. saysBar' = [saysBar EXCEPT ![n] = [@ EXCEPT ![k] = v]]
    <3>1. saysBar[n] = knownDevices[n].info
      BY <2>1, <2>2 DEF saysBar, InfoOf
    <3>2. saysBar'[n] = d.info
      BY <1>1, <1>2, <2>1, AddressFacts DEF saysBar, InfoOf, RegistryInv, RegistryTypeOK
    <3>3. ASSUME NEW m \in Names, m # n PROVE saysBar'[m] = saysBar[m]
      BY <1>1, <2>1, <3>3 DEF saysBar, RegistryInv, RegistryTypeOK
    <3> HIDE DEF n
    <3> QED
      BY <2>1, <2>3, <3>1, <3>2, <3>3 DEF saysBar
  <2>6. asideBar' = asideBar
    BY <2>1 DEF asideBar
  <2> QED
    BY <2>1, <2>2, <2>4, <2>5, <2>6 DEF Directory!Say
<1>5. CASE n \in {Nil, 0}
  <2>1. /\ unknownKnownDevicesByAddress' =
             [unknownKnownDevicesByAddress EXCEPT ![a] = d]
        /\ UNCHANGED <<knownDevices, knownDeviceNamesByAddress>>
    BY <1>1, <1>5, InfoEffect DEF d
  <2>2. UNCHANGED <<atBar, saysBar>>
    BY <2>1 DEF atBar, saysBar
  <2>3. CASE a \notin Usable
    <3>1. asideBar' = asideBar
      BY <1>1, <2>1, <2>3, AddressFacts DEF asideBar, RegistryInv, RegistryTypeOK
    <3> QED
      BY <2>2, <3>1
  <2>4. CASE a \in Usable
    <3>1. asideBar'[a] = d.info
      BY <1>1, <1>2, <2>1, <2>4, AddressFacts
      DEF asideBar, InfoOf, RegistryInv, RegistryTypeOK
    <3>2. ASSUME NEW b \in Usable, b # a PROVE asideBar'[b] = asideBar[b]
      BY <1>1, <2>1, <3>2, AddressFacts DEF asideBar, RegistryInv, RegistryTypeOK
    <3>3. asideBar' = [asideBar EXCEPT ![a] = d.info]
      BY <3>1, <3>2, <2>4 DEF asideBar
    <3>4. CASE n = Nil
      <4>1. \A m \in Names : atBar[m] # a
        BY <1>1, <3>4, <2>4, AddressFacts DEF atBar, RegistryInv, PlacedIsIndexed
      <4>2. knownDeviceForAddressLocked(a).info = InfoOf(unknownKnownDevicesByAddress[a])
        BY <3>4 DEF knownDeviceForAddressLocked, InfoOf
      <4>3. asideBar[a] = InfoOf(unknownKnownDevicesByAddress[a])
        BY <2>4 DEF asideBar
      <4>4. d.info = [asideBar[a] EXCEPT ![k] = v]
        BY <1>3, <4>2, <4>3
      <4>5. asideBar' = [asideBar EXCEPT ![a] = [@ EXCEPT ![k] = v]]
        BY <2>4, <3>3, <4>4 DEF asideBar
      <4> QED
        BY <2>2, <2>4, <4>1, <4>5 DEF Directory!Say
    <3>5. CASE n = 0 /\ n # Nil
      <4>1. 0 \in Names /\ knownDevices[0] # Nil
        BY <1>1, <3>5 DEF RegistryInv, RegistryTypeOK, IndexLeadsToRecord
      <4>2. atBar[0] = a
        BY <2>4, <3>5, <4>1 DEF ExactInv, IndexedIsPlaced, atBar
      <4>3. knownDeviceForAddressLocked(a).info = saysBar[0]
        BY <3>5, <4>1 DEF knownDeviceForAddressLocked, knownDevice, saysBar, InfoOf
      <4>4. asideBar' = [asideBar EXCEPT ![a] = [saysBar[0] EXCEPT ![k] = v]]
        BY <1>3, <3>3, <4>3
      <4> QED
        BY <2>2, <2>4, <4>1, <4>2, <4>4 DEF Directory!Say
    <3> QED
      BY <1>5, <3>4, <3>5
  <2> QED
    BY <2>3, <2>4
<1> QED
  BY <1>4, <1>5

\* With claims from usable addresses only, every step of the registry is a
\* step of the directory, or changes nothing a reader of it can see.
THEOREM RegistryImplementsDirectory ==
  ASSUME ClaimSources \subseteq Usable
  PROVE  RegistrySpec => ImplementsDirectory
<1>1. ASSUME ExactInv, [RegistryNext]_registryVars
      PROVE  [Directory!Next]_<<atBar, saysBar, asideBar>>
  <2>1. ASSUME NEW a \in Address, NEW n \in Names, ReceiveClaim(a, n)
        PROVE  Directory!Next
    BY <1>1, <2>1, ClaimRefines DEF Directory!Next
  <2>2. ASSUME NEW k \in Kinds, NEW a \in Address, NEW v \in Values, ReceiveInfo(k, a, v)
        PROVE  Directory!Next \/ UNCHANGED <<atBar, saysBar, asideBar>>
    BY <1>1, <2>2, InfoRefines DEF Directory!Next
  <2>3. CASE UNCHANGED registryVars
    BY <2>3 DEF registryVars, atBar, saysBar, asideBar
  <2> QED
    BY <1>1, <2>1, <2>2, <2>3 DEF RegistryNext
<1>2. ExactInv /\ [RegistryNext]_registryVars => ExactInv'
  BY ExactStep
<1> QED
  BY <1>1, <1>2, ExactInit, RefinementInit, PTL
  DEF RegistrySpec, ImplementsDirectory, Directory!Spec
=============================================================================
