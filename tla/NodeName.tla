------------------------------ MODULE NodeName ------------------------------
(***************************************************************************)
(* The 64-bit NAME of pkg/node/node.go: packed from the device information *)
(* of this node, from a received address claim, and from a received        *)
(* commanded address.                                                      *)
(***************************************************************************)
EXTENDS Words

\* A field that did not arrive adds nothing to the NAME.
Part(value, at) == IF value = Nil THEN Zero ELSE Up(Bits(value), at)

\* What computeName accepts; it returns an error for anything else.
ValidDeviceInfo(d) ==
  /\ d.UniqueNumber \in Low(2^21)
  /\ d.ManufacturerCode \in Low(2^11)
  /\ d.DeviceInstanceLower \in Low(8)
  /\ d.DeviceInstanceUpper \in Low(32)
  /\ d.DeviceFunction \in Low(256)
  /\ d.DeviceClass \in Low(128)
  /\ d.SystemInstance \in Low(16)
  /\ d.IndustryGroup \in Low(8)

computeName(d) ==
  Part(d.UniqueNumber, 0) \cup Part(d.ManufacturerCode, 21)
  \cup Part(d.DeviceInstanceLower, 32) \cup Part(d.DeviceInstanceUpper, 35)
  \cup Part(d.DeviceFunction, 40) \cup Part(d.DeviceClass, 49)
  \cup Part(d.SystemInstance, 56) \cup Part(d.IndustryGroup, 60)
  \cup (IF d.ArbitraryAddressCapable THEN {63} ELSE Zero)

computeNameFromClaim(claim) ==
  Part(claim.UniqueNumber, 0) \cup Part(claim.ManufacturerCode, 21)
  \cup Part(claim.DeviceInstanceLower, 32) \cup Part(claim.DeviceInstanceUpper, 35)
  \cup Part(claim.DeviceFunction, 40) \cup Part(claim.DeviceClass, 49)
  \cup Part(claim.SystemInstance, 56) \cup Part(claim.IndustryGroup, 60)
  \cup (IF claim.ArbitraryAddressCapable = 1 THEN {63} ELSE Zero)

\* Mutant: the third byte of the unique number is forgotten.
computeNameFromCommandTwoBytes(cmd) ==
  cmd.UniqueNumber[1] \cup Up(cmd.UniqueNumber[2], 8)
  \cup Part(cmd.ManufacturerCode, 21)
  \cup Part(cmd.DeviceInstanceLower, 32) \cup Part(cmd.DeviceInstanceUpper, 35)
  \cup Part(cmd.DeviceFunction, 40) \cup Part(cmd.DeviceClass, 49)
  \cup Part(cmd.SystemInstance, 56) \cup Part(cmd.IndustryCode, 60)

\* The unique number arrives as bytes, and bit 63 does not arrive at all.
computeNameFromCommand(cmd) ==
  cmd.UniqueNumber[1] \cup Up(cmd.UniqueNumber[2], 8) \cup Up(cmd.UniqueNumber[3], 16)
  \cup Part(cmd.ManufacturerCode, 21)
  \cup Part(cmd.DeviceInstanceLower, 32) \cup Part(cmd.DeviceInstanceUpper, 35)
  \cup Part(cmd.DeviceFunction, 40) \cup Part(cmd.DeviceClass, 49)
  \cup Part(cmd.SystemInstance, 56) \cup Part(cmd.IndustryCode, 60)

\* buildAddressClaim: the struct a node announces itself with.
buildAddressClaim(d) ==
  [d EXCEPT !.ArbitraryAddressCapable = IF @ THEN 1 ELSE 0]
=============================================================================
