---------------------------- MODULE NodeRegistry ----------------------------
(***************************************************************************)
(* The known-device registry of pkg/node/node.go: three maps under the     *)
(* node's mutex, updated by the process goroutine for every ISO Address    *)
(* Claim, Product Information, Configuration Information and PGN List it   *)
(* takes from its queue.                                                   *)
(*                                                                         *)
(* A Go map is a total function whose missing entries are Nil.  Addresses  *)
(* keep the shape of the code's uint8 space: 0..LastAddress are usable     *)
(* (253 in the code), then the null address (254) and the global one (255).*)
(* LastSeen is left out: no decision depends on it.                        *)
(***************************************************************************)
EXTENDS Naturals

CONSTANTS LastAddress,   \* the highest claimable address: 253 in the code
          Names,         \* the 64-bit NAMEs of the devices on the bus
          Kinds,         \* the enrichment fields of KnownDevice that are followed
          Values,        \* what such a field can hold
          EmptyList,     \* the PGN list with no entry
          ClaimSources,  \* the source addresses of the claims on the bus
          InfoSources,   \* the source addresses of the other three messages
          Nil            \* a nil pointer or slice, a missing map entry

NullAddress   == LastAddress + 1
GlobalAddress == LastAddress + 2
Usable        == 0..LastAddress
Address       == 0..GlobalAddress

ListKinds == {"TransmitPGNs", "ReceivePGNs"}
AllKinds  == {"ProductInfo", "ConfigInfo"} \cup ListKinds

Info   == [Kinds -> Values \cup {Nil}]
NoInfo == [k \in Kinds |-> Nil]

\* type KnownDevice: Name is 0 while the NAME is not known, and for the device
\* that claims with NAME 0.
Device == [Address : Address, Name : Names \cup {0}, info : Info]

ASSUME RegistryAssumption ==
  /\ LastAddress \in Nat
  /\ Names \subseteq Nat           \* 0, the NAME of an empty claim, included
  /\ Kinds \subseteq AllKinds
  /\ ClaimSources \subseteq Address
  /\ InfoSources \subseteq Address

ASSUME NilAssumption == Nil \notin Names \cup Values \cup Device \cup Address

VARIABLES knownDevices,
          knownDeviceNamesByAddress,
          unknownKnownDevicesByAddress

registryVars == <<knownDevices, knownDeviceNamesByAddress,
                  unknownKnownDevicesByAddress>>

RegistryInit ==
  /\ knownDevices = [n \in Names |-> Nil]
  /\ knownDeviceNamesByAddress = [a \in Address |-> Nil]
  /\ unknownKnownDevicesByAddress = [a \in Address |-> Nil]

-----------------------------------------------------------------------------
(* Helpers of the handlers.                                                *)

\* What Go's knownDevices[name] yields: the zero KnownDevice when missing.
knownDevice(name) ==
  IF knownDevices[name] = Nil
  THEN [Address |-> 0, Name |-> 0, info |-> NoInfo]
  ELSE knownDevices[name]

\* A PGN list is copied with append([]uint32(nil), list...): the copy of an
\* empty one is nil.
copied(info) ==
  [k \in Kinds |-> IF k \in ListKinds /\ info[k] = EmptyList THEN Nil ELSE info[k]]

\* Mutant: what was said from the address wins over what the device said.
mergeKnownDeviceOverlayFirst(device, overlay) ==
  [device EXCEPT
     !.Address = IF @ = 0 THEN overlay.Address ELSE @,
     !.info = [k \in Kinds |-> IF overlay.info[k] # Nil THEN copied(overlay.info)[k]
                                                        ELSE device.info[k]]]

\* The overlay only fills what the device does not say yet.
mergeKnownDevice(device, overlay) ==
  [device EXCEPT
     !.Address = IF @ = 0 THEN overlay.Address ELSE @,
     !.info = [k \in Kinds |-> IF device.info[k] = Nil THEN copied(overlay.info)[k]
                                                       ELSE device.info[k]]]

knownDeviceForAddressLocked(address) ==
  IF knownDeviceNamesByAddress[address] # Nil
  THEN knownDevice(knownDeviceNamesByAddress[address])
  ELSE IF unknownKnownDevicesByAddress[address] # Nil
       THEN unknownKnownDevicesByAddress[address]
       ELSE [Address |-> address, Name |-> 0, info |-> NoInfo]

setKnownDeviceForAddressLocked(address, device) ==
  \/ /\ device.Name # 0
     /\ knownDevices' = [knownDevices EXCEPT ![device.Name] = device]
     /\ knownDeviceNamesByAddress' =
          [knownDeviceNamesByAddress EXCEPT ![address] = device.Name]
     /\ unknownKnownDevicesByAddress' =
          [unknownKnownDevicesByAddress EXCEPT ![address] = Nil]
  \/ /\ device.Name = 0
     /\ unknownKnownDevicesByAddress' =
          [unknownKnownDevicesByAddress EXCEPT ![address] = device]
     /\ UNCHANGED <<knownDevices, knownDeviceNamesByAddress>>

\* A reader gets a copy of a device.
cloneKnownDevice(device) == [device EXCEPT !.info = copied(device.info)]

\* The snapshot KnownDevices returns; its order by address is left out.
KnownDevices ==
  {cloneKnownDevice(knownDevices[n]) :
     n \in {m \in Names : /\ knownDevices[m] # Nil
                          /\ knownDevices[m].Address \in Usable}}
  \cup {cloneKnownDevice(unknownKnownDevicesByAddress[a]) :
          a \in {b \in Address : unknownKnownDevicesByAddress[b] # Nil}}

\* Mutant: addresses known only from information messages count as free.
claimedAddressesNamedOnly(after) ==
  {a \in Usable : knownDeviceNamesByAddress[a] # Nil} \cup {after}

\* The first address after `after`, going round 0..LastAddress, that no
\* registry entry holds; Nil when there is none.
claimedAddresses(after) ==
  {a \in Usable : \/ knownDeviceNamesByAddress[a] # Nil
                  \/ unknownKnownDevicesByAddress[a] # Nil} \cup {after}

nextAvailableAddressLocked(after) ==
  LET candidate(i) == (after + i) % (LastAddress + 1)
      free == {i \in 1..(LastAddress + 1) :
                 candidate(i) \notin claimedAddresses(after)}
  IN  IF free = {} THEN Nil
      ELSE candidate(CHOOSE i \in free : \A j \in free : i <= j)

-----------------------------------------------------------------------------
(* The four handlers.  Each runs under the write lock and is one step; the *)
(* changes it hands to publishDeviceChanges are given by the operators     *)
(* claimChanges and infoChanges, for module DeviceChanges.                 *)

\* The record a claim of `name` from `address` leaves in knownDevices.
claimedDevice(address, name) ==
  LET unknown == unknownKnownDevicesByAddress[address]
      merged  == IF unknown = Nil THEN knownDevice(name)
                 ELSE mergeKnownDevice(knownDevice(name), unknown)
  IN  [merged EXCEPT !.Address = address, !.Name = name]

\* Mutant: the previous holder of the address is left where it was.
DisplacedNever(address, name, m) == FALSE

\* Another NAME that the address map still shows at `address`.
Displaced(address, name, m) ==
  /\ m # name
  /\ knownDeviceNamesByAddress[address] = m

\* Mutant: the address a device leaves stays indexed.
VacatedNever(address, name, a) == FALSE

\* The address map forgets where a known device was, if that was usable.
Vacated(address, name, a) ==
  /\ knownDevices[name] # Nil
  /\ knownDevices[name].Address = a
  /\ a \in Usable
  /\ a # address

\* Mutant: the unnamed record of the address is not deleted.
updateKnownDeviceFromClaimKeepUnknown(address, name) ==
  /\ knownDevices' =
       [m \in Names |->
          IF m = name THEN claimedDevice(address, name)
          ELSE IF Displaced(address, name, m)
               THEN [knownDevice(m) EXCEPT !.Address = GlobalAddress]
               ELSE knownDevices[m]]
  /\ knownDeviceNamesByAddress' =
       [a \in Address |->
          IF a = address THEN name
          ELSE IF Vacated(address, name, a) THEN Nil
               ELSE knownDeviceNamesByAddress[a]]
  /\ UNCHANGED unknownKnownDevicesByAddress

updateKnownDeviceFromClaim(address, name) ==
  /\ knownDevices' =
       [m \in Names |->
          IF m = name THEN claimedDevice(address, name)
          ELSE IF Displaced(address, name, m)
               THEN [knownDevice(m) EXCEPT !.Address = GlobalAddress]
               ELSE knownDevices[m]]
  /\ knownDeviceNamesByAddress' =
       [a \in Address |->
          IF a = address THEN name
          ELSE IF Vacated(address, name, a) THEN Nil
               ELSE knownDeviceNamesByAddress[a]]
  /\ unknownKnownDevicesByAddress' =
       [unknownKnownDevicesByAddress EXCEPT ![address] = Nil]

claimChanges(address, name) ==
  LET change(kind) ==
        <<[Kind |-> kind, Device |-> cloneKnownDevice(claimedDevice(address, name))]>>
  IN  IF knownDevices[name] = Nil THEN change("Observed")
      ELSE IF knownDevices[name].Address # address THEN change("AddressChanged")
      ELSE <<>>

\* Product Information, Configuration Information and the two PGN lists are
\* stored alike: the field is replaced when it differs, the record is saved
\* either way.  A PGN list message with another function code changes nothing.
informedDevice(kind, address, value) ==
  LET device == knownDeviceForAddressLocked(address)
  IN  [device EXCEPT !.Address = address,
                     !.info = [device.info EXCEPT ![kind] = value]]

updateKnownDeviceFromProductInfo(address, value) ==
  setKnownDeviceForAddressLocked(address, informedDevice("ProductInfo", address, value))

updateKnownDeviceFromConfigurationInfo(address, value) ==
  setKnownDeviceForAddressLocked(address, informedDevice("ConfigInfo", address, value))

updateKnownDeviceFromPgnList(kind, address, value) ==
  setKnownDeviceForAddressLocked(address, informedDevice(kind, address, value))

\* changedPGNs is append(nil, pgns...), which stays nil for an empty list: the
\* code takes that for "nothing changed".
infoChanges(kind, address, value) ==
  IF \/ knownDeviceForAddressLocked(address).info[kind] = value
     \/ kind \in ListKinds /\ value = EmptyList
  THEN <<>>
  ELSE <<[Kind |-> kind,
          Device |-> cloneKnownDevice(informedDevice(kind, address, value))]>>

-----------------------------------------------------------------------------

ReceiveClaim(a, n) ==
  /\ a \in ClaimSources
  /\ updateKnownDeviceFromClaim(a, n)

ReceiveInfo(kind, a, v) ==
  /\ a \in InfoSources
  /\ \/ /\ kind = "ProductInfo"
        /\ updateKnownDeviceFromProductInfo(a, v)
     \/ /\ kind = "ConfigInfo"
        /\ updateKnownDeviceFromConfigurationInfo(a, v)
     \/ /\ kind \in ListKinds
        /\ updateKnownDeviceFromPgnList(kind, a, v)

RegistryNext ==
  \/ \E a \in Address, n \in Names : ReceiveClaim(a, n)
  \/ \E k \in Kinds, a \in Address, v \in Values : ReceiveInfo(k, a, v)

RegistrySpec == RegistryInit /\ [][RegistryNext]_registryVars

-----------------------------------------------------------------------------
(* Properties.                                                             *)

\* The three maps hold values of their Go types.
RegistryTypeOK ==
  /\ knownDevices \in [Names -> Device \cup {Nil}]
  /\ knownDeviceNamesByAddress \in [Address -> Names \cup {Nil}]
  /\ unknownKnownDevicesByAddress \in [Address -> Device \cup {Nil}]

\* The KnownDevices snapshot never lists two devices at one address, whatever
\* the order of claims, moves, displacements and early Product Information,
\* claims from the null address included.  The one exception is a device that
\* claims with NAME 0: what it says goes to a second record without a NAME.
OneDevicePerAddress ==
  \A d, e \in KnownDevices :
    d.Address = e.Address => \/ d = e
                             \/ 0 \in Names /\ d.Name = 0 /\ e.Name = 0

\* A NAME that the registry places at an address is the one the address index
\* names there (255 is where a displaced device is parked).
PlacedIsIndexed ==
  \A n \in Names :
    /\ knownDevices[n] # Nil
    /\ knownDevices[n].Address # GlobalAddress
    => knownDeviceNamesByAddress[knownDevices[n].Address] = n

\* An entry of the address index leads to a record of that NAME.
IndexLeadsToRecord ==
  \A a \in Address :
    LET n == knownDeviceNamesByAddress[a]
    IN  n # Nil => /\ knownDevices[n] # Nil
                   /\ knownDevices[n].Name = n

\* An address is tracked without a NAME only while no NAME but 0 is indexed there.
UnnamedOnlyWhileUnclaimed ==
  \A a \in Address :
    LET d == unknownKnownDevicesByAddress[a]
    IN  d # Nil => /\ knownDeviceNamesByAddress[a] \in {Nil, 0}
                   /\ d.Name = 0
                   /\ d.Address = a

\* The parts of the inductive invariant that hold whatever the bus sends.
RegistryInv == /\ RegistryTypeOK
               /\ PlacedIsIndexed
               /\ IndexLeadsToRecord
               /\ UnnamedOnlyWhileUnclaimed

\* An indexed NAME is at that address.  It holds when claims come from usable
\* addresses only, and is what makes the index worth consulting.
IndexedIsPlaced ==
  \A a \in Address : knownDeviceNamesByAddress[a] # Nil
    => /\ a \in Usable
       /\ knownDevices[knownDeviceNamesByAddress[a]].Address = a

\* The address a losing node retries is held by no listed device, and the node
\* gives up only when every other usable address is held by a listed one.
RetryAddressIsFree ==
  \A after \in Usable :
    LET held == {d.Address : d \in KnownDevices}
        next == nextAvailableAddressLocked(after)
    IN  IF next = Nil THEN Usable \subseteq held \cup {after}
        ELSE next \in Usable \ (held \cup {after})

\* The registry implements DeviceDirectory.
InfoOf(d) == IF d = Nil THEN NoInfo ELSE d.info

atBar    == [n \in Names |-> IF knownDevices[n] = Nil THEN Nil
                             ELSE IF knownDevices[n].Address \in Usable
                                  THEN knownDevices[n].Address ELSE Nil]
saysBar  == [n \in Names |-> InfoOf(knownDevices[n])]
asideBar == [a \in Usable |-> InfoOf(unknownKnownDevicesByAddress[a])]

Directory == INSTANCE DeviceDirectory
               WITH Elsewhere <- ClaimSources \ Usable,
                    at <- atBar, says <- saysBar, aside <- asideBar

\* Behind the index, the registry behaves as a directory that places every NAME
\* at its last claimed address.
ImplementsDirectory == Directory!Spec
=============================================================================
