--------------------------- MODULE DeviceChanges ---------------------------
(***************************************************************************)
(* Device-change events: SubscribeToDeviceChanges, publishDeviceChanges    *)
(* and an application that follows the registry.                           *)
(*                                                                         *)
(* The process goroutine updates the registry under the lock, releases it, *)
(* takes the lock again to copy the subscriber map, and runs the callbacks *)
(* without it.  Subscriptions, removals and KnownDevices calls of the      *)
(* application fall anywhere between those steps.                          *)
(*                                                                         *)
(* A follower is the application docs/node-design.md speaks of: it         *)
(* subscribes, then takes a snapshot, then applies every change to its     *)
(* copy.                                                                   *)
(***************************************************************************)
EXTENDS NodeRegistry

CONSTANT Followers

VARIABLES deviceChangeSubscribers,
          pc,        \* where the process goroutine is
          changes,   \* the changes it is publishing
          targets,   \* the callbacks it still has to run
          synced,    \* the followers that have taken their snapshot
          copy       \* the device list each follower holds

publishVars  == <<pc, changes, targets>>
followerVars == <<deviceChangeSubscribers, synced, copy>>
vars == <<registryVars, publishVars, followerVars>>

Init == /\ RegistryInit
        /\ pc = "update"
        /\ changes = <<>>
        /\ targets = {}
        /\ deviceChangeSubscribers = {}
        /\ synced = {}
        /\ copy = [f \in Followers |-> {}]

\* The end of a handler: nothing to publish means the next message.
Publish(list) ==
  /\ changes' = list
  /\ pc' = IF list = <<>> THEN "update" ELSE "snapshot"
  /\ UNCHANGED <<targets, followerVars>>

ProcessClaim ==
  /\ pc = "update"
  /\ \E a \in Address, n \in Names : /\ ReceiveClaim(a, n)
                                     /\ Publish(claimChanges(a, n))

ProcessInfo ==
  /\ pc = "update"
  /\ \E k \in Kinds, a \in Address, v \in Values :
       /\ ReceiveInfo(k, a, v)
       /\ Publish(infoChanges(k, a, v))

\* publishDeviceChanges copies the subscriber map under the read lock.
SnapshotSubscribers ==
  /\ pc = "snapshot"
  /\ targets' = deviceChangeSubscribers
  /\ pc' = IF deviceChangeSubscribers = {} THEN "update" ELSE "callbacks"
  /\ changes' = IF deviceChangeSubscribers = {} THEN <<>> ELSE changes
  /\ UNCHANGED <<registryVars, followerVars>>

\* The follower's copy after a change: its device replaces the record of the
\* same NAME and whatever was listed at its address.
Applied(list, device) ==
  {d \in list : /\ d.Address # device.Address
                /\ device.Name = 0 \/ d.Name # device.Name}
  \cup {d \in {device} : d.Address \in Usable \/ d.Name = 0}

\* Mutant: publication ends after the first callback.
CallbackFirstOnly(f) ==
  /\ pc = "callbacks"
  /\ f \in targets
  /\ copy' = IF f \in synced THEN [copy EXCEPT ![f] = Applied(@, changes[1].Device)]
                              ELSE copy
  /\ targets' = {}
  /\ pc' = "update"
  /\ changes' = <<>>
  /\ UNCHANGED <<registryVars, deviceChangeSubscribers, synced>>

\* One callback, in an order the map iteration leaves open.  Before its snapshot
\* a follower has nothing to apply a change to.
Callback(f) ==
  /\ pc = "callbacks"
  /\ f \in targets
  /\ copy' = IF f \in synced THEN [copy EXCEPT ![f] = Applied(@, changes[1].Device)]
                              ELSE copy
  /\ targets' = targets \ {f}
  /\ pc' = IF targets' = {} THEN "update" ELSE pc
  /\ changes' = IF targets' = {} THEN <<>> ELSE changes
  /\ UNCHANGED <<registryVars, deviceChangeSubscribers, synced>>

SubscribeToDeviceChanges(f) ==
  /\ f \notin deviceChangeSubscribers
  /\ deviceChangeSubscribers' = deviceChangeSubscribers \cup {f}
  /\ UNCHANGED <<registryVars, publishVars, synced, copy>>

TakeSnapshot(f) ==
  /\ f \in deviceChangeSubscribers
  /\ f \notin synced
  /\ copy' = [copy EXCEPT ![f] = KnownDevices]
  /\ synced' = synced \cup {f}
  /\ UNCHANGED <<registryVars, publishVars, deviceChangeSubscribers>>

UnsubscribeDeviceChanges(f) ==
  /\ f \in deviceChangeSubscribers
  /\ deviceChangeSubscribers' = deviceChangeSubscribers \ {f}
  /\ synced' = synced \ {f}
  /\ copy' = [copy EXCEPT ![f] = {}]
  /\ UNCHANGED <<registryVars, publishVars>>

Next ==
  \/ ProcessClaim
  \/ ProcessInfo
  \/ SnapshotSubscribers
  \/ \E f \in Followers : \/ Callback(f)
                          \/ SubscribeToDeviceChanges(f)
                          \/ TakeSnapshot(f)
                          \/ UnsubscribeDeviceChanges(f)

Spec == Init /\ [][Next]_vars

-----------------------------------------------------------------------------

\* Types of the publication state.
TypeOK ==
  /\ RegistryTypeOK
  /\ pc \in {"update", "snapshot", "callbacks"}
  /\ (pc = "update") = (changes = <<>>)
  /\ targets \subseteq Followers
  /\ (pc = "callbacks") = (targets # {})
  /\ synced \subseteq deviceChangeSubscribers
  /\ deviceChangeSubscribers \subseteq Followers

\* The change being published has not reached follower f yet.
Outstanding(f) == pc = "snapshot" \/ f \in targets

\* What a list has for an address.
At(list, a) == {d \in list : d.Address = a}

\* The device at an address has said that it sends or takes no PGN.  Such a change
\* is stored and not published.
SaysEmptyList(a) ==
  \E k \in Kinds \cap ListKinds : knownDeviceForAddressLocked(a).info[k] = EmptyList

\* No device has claimed with NAME 0, which the two records it is listed with share.
NoNameZeroYet == 0 \in Names => knownDevices[0] = Nil

\* Beside the types: subscribing first and taking the snapshot second loses nothing.  Once the
\* change in flight has been delivered, the follower's list is the registry's at
\* every address, wherever its calls fell between the node's lock regions, but
\* for a device whose PGN list is empty.
FollowerInSync ==
  /\ TypeOK
  /\ NoNameZeroYet =>
       \A f \in synced, a \in Address :
         ~Outstanding(f) /\ ~SaysEmptyList(a) => At(copy[f], a) = At(KnownDevices, a)
=============================================================================
