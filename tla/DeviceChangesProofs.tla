------------------------ MODULE DeviceChangesProofs ------------------------
(***************************************************************************)
(* An application that subscribes to device changes first and takes its    *)
(* snapshot second stays in step with the registry, for every set of       *)
(* NAMEs, addresses, values and followers.                                 *)
(***************************************************************************)
EXTENDS DeviceChanges, NodeRegistryProofs

\* Whatever the followers do, the registry behaves as module NodeRegistry says.
LEMMA RegistryUnderneath == Spec => RegistrySpec
<1>1. [Next]_vars => [RegistryNext]_registryVars
  BY DEF Next, ProcessClaim, ProcessInfo, SnapshotSubscribers, Callback,
         SubscribeToDeviceChanges, TakeSnapshot, UnsubscribeDeviceChanges, vars,
         RegistryNext, registryVars
<1> QED
  BY <1>1, PTL DEF Spec, RegistrySpec, Init

-----------------------------------------------------------------------------
(* The snapshot.                                                           *)

\* No PGN list on the bus is empty: cloneKnownDevice makes an empty list nil, which
\* the code takes for "unchanged".
NoEmptyLists == EmptyList \notin Values

\* No device claims with NAME 0: what it says is listed beside it, under no NAME,
\* and a change tells nothing of the two records apart.
NoNameZero == 0 \notin Names

\* Then a copy of a device says what the device says.
LEMMA CloneSame ==
  ASSUME NoEmptyLists, NEW d \in Device
  PROVE  cloneKnownDevice(d) = d
<1>1. d.info \in Info
  BY DEF Device
<1>2. copied(d.info) = d.info
  BY <1>1, AddressFacts DEF NoEmptyLists, Info, copied
<1> QED
  BY <1>1, <1>2 DEF cloneKnownDevice, Device

\* The records KnownDevices lists, before they are copied.
NamedAt(x, n) == /\ knownDevices[n] # Nil
                 /\ knownDevices[n].Address \in Usable
                 /\ x = knownDevices[n]
UnnamedAt(x, a) == /\ unknownKnownDevicesByAddress[a] # Nil
                   /\ x = unknownKnownDevicesByAddress[a]
Listed == {x \in Device : \/ \E n \in Names : NamedAt(x, n)
                          \/ \E a \in Address : UnnamedAt(x, a)}

\* KnownDevices lists those records.
LEMMA KnownIsListed == NoEmptyLists /\ RegistryTypeOK => KnownDevices = Listed
<1> SUFFICES ASSUME NoEmptyLists, RegistryTypeOK PROVE KnownDevices = Listed
  OBVIOUS
<1>1. \A n \in Names : knownDevices[n] # Nil => knownDevices[n] \in Device
  BY DEF RegistryTypeOK
<1>2. \A a \in Address : unknownKnownDevicesByAddress[a] # Nil
                           => unknownKnownDevicesByAddress[a] \in Device
  BY DEF RegistryTypeOK
<1> QED
  BY <1>1, <1>2, CloneSame DEF KnownDevices, Listed, NamedAt, UnnamedAt

\* What the listed records are, behind an exact index.
LEMMA ListedFacts ==
  ASSUME NoNameZero, ExactInv
  PROVE  /\ \A n \in Names, x \in Device : NamedAt(x, n) =>
              /\ x.Name = n
              /\ x.Address \in Usable
              /\ knownDeviceNamesByAddress[x.Address] = n
         /\ \A a \in Address, x \in Device : UnnamedAt(x, a) =>
              /\ x.Name = 0
              /\ x.Address = a
              /\ knownDeviceNamesByAddress[a] = Nil
<1>1. ASSUME NEW n \in Names, NEW x \in Device, NamedAt(x, n)
      PROVE  /\ x.Name = n
             /\ x.Address \in Usable
             /\ knownDeviceNamesByAddress[x.Address] = n
  <2>1. knownDeviceNamesByAddress[x.Address] = n /\ x.Address \in Address
    BY <1>1, AddressFacts DEF NamedAt, ExactInv, RegistryInv, PlacedIsIndexed
  <2> QED
    BY <1>1, <2>1, AddressFacts DEF NamedAt, ExactInv, RegistryInv, IndexLeadsToRecord
<1>2. ASSUME NEW a \in Address, NEW x \in Device, UnnamedAt(x, a)
      PROVE  x.Name = 0 /\ x.Address = a /\ knownDeviceNamesByAddress[a] = Nil
  BY <1>2 DEF UnnamedAt, ExactInv, RegistryInv, UnnamedOnlyWhileUnclaimed,
              RegistryTypeOK, NoNameZero
<1> QED
  BY <1>1, <1>2

-----------------------------------------------------------------------------
(* What a message does to the snapshot.                                    *)

\* A claim replaces what was listed at the address and under the NAME.
LEMMA ClaimListed ==
  ASSUME NoNameZero, ExactInv, NEW a \in Usable, NEW n \in Names, updateKnownDeviceFromClaim(a, n)
  PROVE  Listed' = Applied(Listed, claimedDevice(a, n))
<1> DEFINE c == claimedDevice(a, n)
<1>0. a \in Address
  BY AddressFacts
<1>1. c \in Device /\ c.Address = a /\ c.Name = n
  BY <1>0, ClaimedDeviceType DEF ExactInv, RegistryInv
<1>2. c.Name # 0
  BY <1>1 DEF NoNameZero
<1>3. /\ knownDevices' = [m \in Names |->
                            IF m = n THEN c
                            ELSE IF Displaced(a, n, m)
                                 THEN [knownDevice(m) EXCEPT !.Address = GlobalAddress]
                                 ELSE knownDevices[m]]
      /\ unknownKnownDevicesByAddress' = [unknownKnownDevicesByAddress EXCEPT ![a] = Nil]
  BY DEF updateKnownDeviceFromClaim
<1> HIDE DEF c
<1>4. knownDevices'[n] = c /\ c # Nil
  BY <1>1, <1>3, AddressFacts
<1>5. ASSUME NEW m \in Names, m # n, NEW x \in Device
      PROVE  NamedAt(x, m)' <=> NamedAt(x, m) /\ x.Address # a
  <2>1. CASE Displaced(a, n, m)
    <3>1. ~NamedAt(x, m)'
      <4>1. knownDevices'[m] = [knownDevice(m) EXCEPT !.Address = GlobalAddress]
        BY <1>3, <1>5, <2>1
      <4>2. knownDevice(m) \in Device
        BY ZeroDeviceType DEF ExactInv, RegistryInv
      <4>3. knownDevices'[m].Address = GlobalAddress
        BY <4>1, <4>2 DEF Device
      <4> QED
        BY <4>3, AddressFacts DEF NamedAt
    <3>2. NamedAt(x, m) => x.Address = a
      BY <1>0, <2>1, AddressFacts DEF Displaced, NamedAt, ExactInv, IndexedIsPlaced
    <3> QED
      BY <3>1, <3>2
  <2>2. CASE ~Displaced(a, n, m)
    <3>1. knownDevices'[m] = knownDevices[m]
      BY <1>3, <1>5, <2>2
    <3>2. NamedAt(x, m) => x.Address # a
      BY <1>5, <2>2, ListedFacts DEF Displaced
    <3> QED
      BY <3>1, <3>2 DEF NamedAt
  <2> QED
    BY <2>1, <2>2
<1>6. ASSUME NEW b \in Address, NEW x \in Device
      PROVE  UnnamedAt(x, b)' <=> UnnamedAt(x, b) /\ x.Address # a
  BY <1>0, <1>3, ListedFacts DEF UnnamedAt, ExactInv, RegistryInv, RegistryTypeOK
<1>7. ASSUME NEW x \in Device PROVE NamedAt(x, n)' <=> x = c
  BY <1>1, <1>4 DEF NamedAt
<1>8. Applied(Listed, c) = {x \in Listed : x.Address # a /\ x.Name # n} \cup {c}
  BY <1>1, <1>2 DEF Applied
<1>9. ASSUME NEW x \in Device
      PROVE  x \in Listed' <=> x \in Applied(Listed, c)
  <2>1. x \in Listed' <=> \/ x = c
                          \/ \E m \in Names \ {n} : NamedAt(x, m) /\ x.Address # a
                          \/ \E b \in Address : UnnamedAt(x, b) /\ x.Address # a
    BY <1>5, <1>6, <1>7 DEF Listed
  <2>2. \A m \in Names : NamedAt(x, m) => (x.Name # n <=> m # n)
    BY ListedFacts
  <2>3. \A b \in Address : UnnamedAt(x, b) => x.Name # n
    BY ListedFacts DEF NoNameZero
  <2> QED
    BY <1>8, <2>1, <2>2, <2>3 DEF Listed
<1>10. Applied(Listed, c) \subseteq Device /\ Listed' \subseteq Device
  BY <1>1, <1>8 DEF Listed
<1> QED
  BY <1>9, <1>10 DEF c

\* An information message replaces what was listed at its address.
LEMMA InfoListed ==
  ASSUME NoNameZero, ExactInv, NEW k \in Kinds, NEW a \in Address, NEW v \in Values,
         ReceiveInfo(k, a, v)
  PROVE  Listed' = Applied(Listed, informedDevice(k, a, v))
<1> DEFINE d == informedDevice(k, a, v)
           n == knownDeviceNamesByAddress[a]
<1>1. /\ d \in Device
      /\ d.Address = a
      /\ n # Nil => d.Name = n
      /\ n = Nil => d.Name = 0
  BY InformedDeviceType DEF ExactInv
<1>2. \/ /\ n \in Names \ {0}
         /\ n # Nil
         /\ knownDevices' = [knownDevices EXCEPT ![n] = d]
         /\ unknownKnownDevicesByAddress' = unknownKnownDevicesByAddress
      \/ /\ n = Nil
         /\ unknownKnownDevicesByAddress' = [unknownKnownDevicesByAddress EXCEPT ![a] = d]
         /\ knownDevices' = knownDevices
  BY InfoEffect DEF ExactInv, NoNameZero, RegistryInv, RegistryTypeOK
<1>3. n # Nil => a \in Usable
  BY DEF ExactInv, IndexedIsPlaced
<1>4. ASSUME NEW x \in Device, NEW m \in Names, NamedAt(x, m)
      PROVE  x.Name = m /\ m # 0 /\ (x.Address = a <=> m = n)
  <2>1. x.Name = m /\ knownDeviceNamesByAddress[x.Address] = m
    BY <1>4, ListedFacts
  <2>2. m = n => x.Address = a
    BY <1>4, AddressFacts DEF NamedAt, ExactInv, IndexedIsPlaced
  <2> QED
    BY <2>1, <2>2 DEF NoNameZero
<1>5. ASSUME NEW x \in Device, NEW b \in Address, UnnamedAt(x, b)
      PROVE  x.Name = 0 /\ x.Address = b /\ (b = a => n = Nil)
  BY <1>5, ListedFacts
<1> HIDE DEF d, n
<1>6. Applied(Listed, d) = {x \in Listed : x.Address # a /\ (d.Name = 0 \/ x.Name # d.Name)}
                           \cup {d}
  <2>1. d.Address \in Usable \/ d.Name = 0
    BY <1>1, <1>3
  <2> QED
    BY <1>1, <2>1 DEF Applied
<1>7. Applied(Listed, d) \subseteq Device /\ Listed' \subseteq Device
  BY <1>1, <1>6 DEF Listed
<1>8. CASE n # Nil
  <2>1. /\ n \in Names
        /\ knownDevices' = [knownDevices EXCEPT ![n] = d]
        /\ unknownKnownDevicesByAddress' = unknownKnownDevicesByAddress
        /\ d.Name = n
        /\ a \in Usable
        /\ d # Nil
        /\ n # 0
    BY <1>1, <1>2, <1>3, <1>8, AddressFacts DEF NoNameZero
  <2>2. knownDevices \in [Names -> Device \cup {Nil}]
    BY DEF ExactInv, RegistryInv, RegistryTypeOK
  <2>3. ASSUME NEW x \in Device, NEW m \in Names
        PROVE  NamedAt(x, m)' <=> IF m = n THEN x = d ELSE NamedAt(x, m)
    BY <1>1, <2>1, <2>2 DEF NamedAt
  <2>4. ASSUME NEW x \in Device, NEW b \in Address
        PROVE  UnnamedAt(x, b)' <=> UnnamedAt(x, b)
    BY <2>1 DEF UnnamedAt
  <2>5. ASSUME NEW x \in Device
        PROVE  x \in Listed' <=> x \in Applied(Listed, d)
    <3>1. x \in Listed' <=> \/ x = d
                            \/ \E m \in Names \ {n} : NamedAt(x, m)
                            \/ \E b \in Address : UnnamedAt(x, b)
      BY <2>1, <2>3, <2>4 DEF Listed
    <3>2. \A m \in Names : NamedAt(x, m) =>
            (m # n <=> x.Address # a /\ (d.Name = 0 \/ x.Name # d.Name))
      BY <1>4, <2>1
    <3>3. \A b \in Address : UnnamedAt(x, b) => x.Address # a /\ x.Name # d.Name
      BY <1>5, <1>8, <2>1
    <3> QED
      BY <1>6, <3>1, <3>2, <3>3 DEF Listed
  <2> QED
    BY <1>7, <2>5 DEF d
<1>9. CASE n = Nil
  <2>1. /\ knownDevices' = knownDevices
        /\ unknownKnownDevicesByAddress' = [unknownKnownDevicesByAddress EXCEPT ![a] = d]
        /\ d.Name = 0
        /\ d # Nil
    BY <1>1, <1>2, <1>9, AddressFacts
  <2>2. unknownKnownDevicesByAddress \in [Address -> Device \cup {Nil}]
    BY DEF ExactInv, RegistryInv, RegistryTypeOK
  <2>3. ASSUME NEW x \in Device, NEW m \in Names
        PROVE  NamedAt(x, m)' <=> NamedAt(x, m)
    BY <2>1 DEF NamedAt
  <2>4. ASSUME NEW x \in Device, NEW b \in Address
        PROVE  UnnamedAt(x, b)' <=> IF b = a THEN x = d ELSE UnnamedAt(x, b)
    BY <2>1, <2>2 DEF UnnamedAt
  <2>5. ASSUME NEW x \in Device
        PROVE  x \in Listed' <=> x \in Applied(Listed, d)
    <3>1. x \in Listed' <=> \/ x = d
                            \/ \E m \in Names : NamedAt(x, m)
                            \/ \E b \in Address \ {a} : UnnamedAt(x, b)
      BY <2>3, <2>4 DEF Listed
    <3>2. \A m \in Names : NamedAt(x, m) => x.Address # a
      BY <1>4, <1>9, AddressFacts
    <3>3. \A b \in Address : UnnamedAt(x, b) => (b # a <=> x.Address # a)
      BY <1>5
    <3> QED
      BY <1>6, <2>1, <3>1, <3>2, <3>3 DEF Listed
  <2> QED
    BY <1>7, <2>5 DEF d
<1> QED
  BY <1>8, <1>9

-----------------------------------------------------------------------------
(* What is published.                                                      *)

\* Applying a change twice is applying it once.
LEMMA AppliedTwice == ASSUME NEW S, NEW d PROVE Applied(Applied(S, d), d) = Applied(S, d)
BY DEF Applied

\* A claim from the address the device already has changes nothing.
LEMMA ClaimAnnounces ==
  ASSUME NoEmptyLists, NoNameZero, ExactInv, NEW a \in Usable, NEW n \in Names,
         updateKnownDeviceFromClaim(a, n)
  PROVE  \/ claimChanges(a, n) = <<>> /\ Listed' = Listed
         \/ /\ claimChanges(a, n) # <<>>
            /\ Listed' = Applied(Listed, claimChanges(a, n)[1].Device)
<1>0. a \in Address
  BY AddressFacts
<1>1. claimedDevice(a, n) \in Device
  BY <1>0, ClaimedDeviceType DEF ExactInv, RegistryInv
<1>2. cloneKnownDevice(claimedDevice(a, n)) = claimedDevice(a, n)
  BY <1>1, CloneSame
<1>3. Listed' = Applied(Listed, claimedDevice(a, n))
  BY ClaimListed
<1>4. CASE knownDevices[n] = Nil \/ knownDevices[n].Address # a
  <2>1. /\ claimChanges(a, n) # <<>>
        /\ claimChanges(a, n)[1].Device = claimedDevice(a, n)
    BY <1>2, <1>4 DEF claimChanges
  <2> QED
    BY <1>3, <2>1
<1>5. CASE knownDevices[n] # Nil /\ knownDevices[n].Address = a
  <2>1. claimChanges(a, n) = <<>>
    BY <1>5 DEF claimChanges
  <2>2. knownDeviceNamesByAddress[a] = n
    BY <1>0, <1>5, AddressFacts DEF ExactInv, RegistryInv, PlacedIsIndexed
  <2>3. unknownKnownDevicesByAddress[a] = Nil
    BY <1>0, <2>2, AddressFacts DEF ExactInv, RegistryInv, UnnamedOnlyWhileUnclaimed, NoNameZero
  <2>4. knownDevices[n].Name = n /\ knownDevices[n] \in Device
    BY <1>0, <1>5, <2>2, AddressFacts
    DEF ExactInv, RegistryInv, IndexLeadsToRecord, RegistryTypeOK
  <2>5. claimedDevice(a, n) = knownDevices[n]
    BY <1>5, <2>3, <2>4 DEF claimedDevice, knownDevice, Device
  <2>6. knownDevices' = knownDevices
    <3>1. \A m \in Names : ~Displaced(a, n, m)
      BY <2>2 DEF Displaced
    <3>2. knownDevices \in [Names -> Device \cup {Nil}]
      BY DEF ExactInv, RegistryInv, RegistryTypeOK
    <3> QED
      BY <2>5, <3>1, <3>2 DEF updateKnownDeviceFromClaim
  <2>7. unknownKnownDevicesByAddress' = unknownKnownDevicesByAddress
    BY <1>0, <2>3 DEF updateKnownDeviceFromClaim, ExactInv, RegistryInv, RegistryTypeOK
  <2> QED
    BY <2>1, <2>6, <2>7 DEF Listed, NamedAt, UnnamedAt
<1> QED
  BY <1>4, <1>5

\* Neither does a message that says what is known already.
LEMMA InfoAnnounces ==
  ASSUME NoEmptyLists, NoNameZero, ExactInv, NEW k \in Kinds, NEW a \in Address, NEW v \in Values,
         ReceiveInfo(k, a, v)
  PROVE  \/ infoChanges(k, a, v) = <<>> /\ Listed' = Listed
         \/ /\ infoChanges(k, a, v) # <<>>
            /\ Listed' = Applied(Listed, infoChanges(k, a, v)[1].Device)
<1> DEFINE e == knownDeviceForAddressLocked(a)
           n == knownDeviceNamesByAddress[a]
<1>1. informedDevice(k, a, v) \in Device
  BY InformedDeviceType DEF ExactInv
<1>2. cloneKnownDevice(informedDevice(k, a, v)) = informedDevice(k, a, v)
  BY <1>1, CloneSame
<1>3. Listed' = Applied(Listed, informedDevice(k, a, v))
  BY InfoListed
<1>4. CASE e.info[k] # v
  <2>1. v # EmptyList
    BY DEF NoEmptyLists
  <2>2. /\ infoChanges(k, a, v) # <<>>
        /\ infoChanges(k, a, v)[1].Device = informedDevice(k, a, v)
    BY <1>2, <1>4, <2>1 DEF infoChanges
  <2> QED
    BY <1>3, <2>2
<1>5. CASE e.info[k] = v
  <2>1. infoChanges(k, a, v) = <<>>
    BY <1>5 DEF infoChanges
  <2>2. e \in Device
    BY ForAddressType DEF ExactInv
  <2>3. v # Nil
    BY AddressFacts
  <2>4. CASE n # Nil
    <3>1. n \in Names /\ knownDevices[n] # Nil /\ knownDevices[n].Address = a
      BY <2>4
      DEF ExactInv, RegistryInv, RegistryTypeOK, IndexLeadsToRecord, IndexedIsPlaced
    <3>2. e = knownDevices[n]
      BY <2>4, <3>1 DEF knownDeviceForAddressLocked, knownDevice
    <3>3. informedDevice(k, a, v) = e
      BY <1>5, <2>2, <3>1, <3>2 DEF informedDevice, Device, Info
    <3>4. /\ knownDevices' = [knownDevices EXCEPT ![n] = e]
          /\ unknownKnownDevicesByAddress' = unknownKnownDevicesByAddress
      BY <2>4, <3>1, <3>3, InfoEffect DEF ExactInv, NoNameZero
    <3>5. knownDevices' = knownDevices
      BY <3>1, <3>2, <3>4 DEF ExactInv, RegistryInv, RegistryTypeOK
    <3> QED
      BY <2>1, <3>4, <3>5 DEF Listed, NamedAt, UnnamedAt
  <2>5. CASE n = Nil
    <3>1. unknownKnownDevicesByAddress[a] # Nil
      BY <1>5, <2>3, <2>5 DEF knownDeviceForAddressLocked, NoInfo
    <3>2. e = unknownKnownDevicesByAddress[a] /\ e.Address = a
      BY <2>5, <3>1
      DEF knownDeviceForAddressLocked, ExactInv, RegistryInv, UnnamedOnlyWhileUnclaimed
    <3>3. informedDevice(k, a, v) = e
      BY <1>5, <2>2, <3>2 DEF informedDevice, Device, Info
    <3>4. /\ unknownKnownDevicesByAddress' = [unknownKnownDevicesByAddress EXCEPT ![a] = e]
          /\ knownDevices' = knownDevices
      BY <2>5, <3>3, InfoEffect DEF ExactInv
    <3>5. unknownKnownDevicesByAddress' = unknownKnownDevicesByAddress
      BY <3>2, <3>4 DEF ExactInv, RegistryInv, RegistryTypeOK
    <3> QED
      BY <2>1, <3>4, <3>5 DEF Listed, NamedAt, UnnamedAt
  <2> QED
    BY <2>4, <2>5
<1> QED
  BY <1>4, <1>5

-----------------------------------------------------------------------------
(* The followers.                                                          *)

\* The registry already holds the change being published.  A follower that the
\* change has not reached gets the registry by applying it; one that it has
\* reached, or that took its snapshot since, has it.
SyncInv ==
  /\ copy = [f \in Followers |-> copy[f]]
  /\ pc # "update" => Applied(Listed, changes[1].Device) = Listed
  /\ \A f \in synced : IF Outstanding(f) THEN Applied(copy[f], changes[1].Device) = Listed
                       ELSE copy[f] = Listed

FollowInv == ExactInv /\ TypeOK /\ SyncInv

\* The registry's records are the same as long as the maps are.
LEMMA ListedStays ==
  ASSUME UNCHANGED registryVars
  PROVE  Listed' = Listed /\ (ExactInv => ExactInv') /\ (RegistryTypeOK => RegistryTypeOK')
BY DEF registryVars, Listed, NamedAt, UnnamedAt, ExactInv, IndexedIsPlaced, RegistryInv,
       RegistryTypeOK, PlacedIsIndexed, IndexLeadsToRecord, UnnamedOnlyWhileUnclaimed

\* The end of a handler: every follower is now owed the change, if there is one.
LEMMA PublishKeeps ==
  ASSUME FollowInv, pc = "update", ExactInv', NEW list, Publish(list),
         \/ list = <<>> /\ Listed' = Listed
         \/ list # <<>> /\ Listed' = Applied(Listed, list[1].Device)
  PROVE  FollowInv'
<1> USE DEF FollowInv, TypeOK, SyncInv, Outstanding, Publish, followerVars
<1>1. RegistryTypeOK'
  BY DEF ExactInv, RegistryInv
<1>2. targets = {}
  OBVIOUS
<1>3. CASE list = <<>>
  BY <1>1, <1>2, <1>3
<1>4. CASE list # <<>>
  <2>1. TypeOK'
    BY <1>1, <1>2, <1>4
  <2>2. changes' = list /\ pc' = "snapshot" /\ UNCHANGED <<targets, copy, synced>>
    BY <1>4
  <2>3. Applied(Listed', list[1].Device) = Listed'
    BY <1>4, AppliedTwice
  <2>4. \A f \in synced : copy[f] = Listed
    BY <1>2
  <2>5. \A f \in synced : Applied(copy[f], list[1].Device) = Listed'
    BY <1>4, <2>4
  <2> QED
    BY <2>1, <2>2, <2>3, <2>5
<1> QED
  BY <1>3, <1>4

\* The inductive step: what a follower is owed is settled by the callback, and
\* nothing but a handler changes what it is.
LEMMA FollowStep ==
  ASSUME NoEmptyLists, NoNameZero, ClaimSources \subseteq Usable, FollowInv, [Next]_vars
  PROVE  FollowInv'
<1>1. CASE ProcessClaim
  <2>1. PICK a \in Address, n \in Names : ReceiveClaim(a, n) /\ Publish(claimChanges(a, n))
    BY <1>1 DEF ProcessClaim
  <2>2. a \in Usable /\ updateKnownDeviceFromClaim(a, n)
    BY <2>1 DEF ReceiveClaim
  <2>3. ExactInv'
    BY <2>1, ExactStep DEF RegistryNext, FollowInv
  <2>4. \/ claimChanges(a, n) = <<>> /\ Listed' = Listed
        \/ /\ claimChanges(a, n) # <<>>
           /\ Listed' = Applied(Listed, claimChanges(a, n)[1].Device)
    BY <2>2, ClaimAnnounces DEF FollowInv
  <2> QED
    BY <1>1, <2>1, <2>3, <2>4, PublishKeeps DEF ProcessClaim
<1>2. CASE ProcessInfo
  <2>1. PICK k \in Kinds, a \in Address, v \in Values :
          ReceiveInfo(k, a, v) /\ Publish(infoChanges(k, a, v))
    BY <1>2 DEF ProcessInfo
  <2>2. ExactInv'
    BY <2>1, ExactStep DEF RegistryNext, FollowInv
  <2>3. \/ infoChanges(k, a, v) = <<>> /\ Listed' = Listed
        \/ /\ infoChanges(k, a, v) # <<>>
           /\ Listed' = Applied(Listed, infoChanges(k, a, v)[1].Device)
    BY <2>1, InfoAnnounces DEF FollowInv
  <2> QED
    BY <1>2, <2>1, <2>2, <2>3, PublishKeeps DEF ProcessInfo
<1> USE DEF FollowInv, TypeOK, SyncInv, Outstanding, publishVars, followerVars
<1>3. CASE SnapshotSubscribers
  BY <1>3, ListedStays DEF SnapshotSubscribers
<1>4. ASSUME NEW f \in Followers, Callback(f)
      PROVE  FollowInv'
  <2>1. ExactInv' /\ Listed' = Listed /\ RegistryTypeOK'
    BY <1>4, ListedStays DEF Callback
  <2>2. TypeOK'
    BY <1>4, <2>1 DEF Callback
  <2>3. f \in synced => copy'[f] = Listed
    BY <1>4 DEF Callback
  <2>4. \A g \in Followers \ {f} : copy'[g] = copy[g] /\ (g \in targets' <=> g \in targets)
    BY <1>4 DEF Callback
  <2>5. /\ copy' = [g \in Followers |-> copy'[g]]
        /\ synced' = synced /\ synced \subseteq Followers
        /\ f \notin targets'
        /\ pc = "callbacks" /\ pc' # "snapshot"
        /\ pc' # "update" => changes' = changes
        /\ targets' # {} => changes' = changes
    BY <1>4 DEF Callback
  <2>6. \A g \in synced : IF g \in targets' THEN Applied(copy'[g], changes'[1].Device) = Listed
                          ELSE copy'[g] = Listed
    BY <2>3, <2>4, <2>5
  <2> QED
    BY <2>1, <2>2, <2>5, <2>6
<1>5. ASSUME NEW f \in Followers, SubscribeToDeviceChanges(f)
      PROVE  FollowInv'
  BY <1>5, ListedStays DEF SubscribeToDeviceChanges
<1>6. ASSUME NEW f \in Followers, TakeSnapshot(f)
      PROVE  FollowInv'
  <2>1. KnownDevices = Listed
    BY KnownIsListed DEF ExactInv, RegistryInv
  <2> QED
    BY <1>6, <2>1, ListedStays DEF TakeSnapshot
<1>7. ASSUME NEW f \in Followers, UnsubscribeDeviceChanges(f)
      PROVE  FollowInv'
  BY <1>7, ListedStays DEF UnsubscribeDeviceChanges
<1>8. CASE UNCHANGED vars
  BY <1>8, ListedStays DEF vars
<1> QED
  BY <1>1, <1>2, <1>3, <1>4, <1>5, <1>6, <1>7, <1>8 DEF Next

\* An application that subscribes first and takes the snapshot second loses no
\* change: with claims from usable addresses, no NAME 0 and no empty PGN list, its copy is
\* the registry whenever the change in flight has reached it, wherever its calls
\* fell between the node's lock regions.
THEOREM FollowersStayInSync ==
  ASSUME NoEmptyLists, NoNameZero, ClaimSources \subseteq Usable
  PROVE  Spec => []FollowerInSync
<1>1. Init => FollowInv
  BY ExactInit DEF Init, FollowInv, TypeOK, SyncInv, ExactInv, RegistryInv
<1>2. FollowInv /\ [Next]_vars => FollowInv'
  BY FollowStep
<1>3. FollowInv => FollowerInSync
  <2> SUFFICES ASSUME FollowInv PROVE FollowerInSync
    OBVIOUS
  <2>1. KnownDevices = Listed
    BY KnownIsListed DEF FollowInv, ExactInv, RegistryInv
  <2> QED
    BY <2>1 DEF FollowInv, SyncInv, FollowerInSync
<1> QED
  BY <1>1, <1>2, <1>3, PTL DEF Spec
=============================================================================
