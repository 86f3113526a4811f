# TLA+ models of boatkit-io/n2k

This directory holds TLA+ specifications of the run-time core of the n2k library,
the TLC configurations that check them on small instances, and TLAPS proofs of the
most important invariants for every instance. Paths below are relative to the
repository root; `PROJECT.json` ties every definition to the lines it models, lists
the runs, the theorems, a mutant for every property, and the hazards the properties
were written for.

    tlc -config Service.cfg MCService      # one run; see the table below
    tlapm NodeProofs.tla                   # one module of proofs

## 1. The system and its parts

The library connects a CAN transport to typed messages. Inbound:

    endpoint -> N2kService (queue, processor) -> CANAdapter (fast packets)
             -> packet decoder -> SubscribeManager -> callbacks of Node and application

Outbound: `Node.Write` / `N2kService.Write` -> encoder -> `CANAdapter` ->
`Endpoint.WriteFrame`.

| Part | State | Operations | What is hard |
|---|---|---|---|
| Known-device registry, `pkg/node/node.go` 442-463, 1046-1278 | three maps: record by NAME, NAME by address, unnamed record by address | claim, Product Info, Configuration Info, PGN List; `KnownDevices`; search for a free address | messages in any order about addresses that change hands; the null address; wrap-around |
| Device-change events, `node.go` 465-490, 1294-1311 | subscriber map | subscribe, unsubscribe, publish | the registry is updated, the subscribers copied and the callbacks run in three separate steps |
| Node life and address claim, `node.go` 275-604, 966-1044, 1313-1355, 1392-1557 | address, preferred address, claim state, read-only flag, context, `pgnIn`, `wakeUp`, tickers | `Start`, `Stop`, `ClaimAddress`, `Write`, heartbeats, claims, commanded address | the process goroutine, application calls, subscription callbacks and `Stop` interleave; decide-then-lock; timeouts; a full queue |
| Requests and group functions, `node.go` 546-550, 606-964, 1357-1390, 1448-1466 | the configuration provider; none of their own | answer ISO requests, read, write and command configuration fields, build and send responses | responses are built from one snapshot and sent under another; the provider is called without the lock and may fail at each step |
| Several nodes on one bus | the claim state of each node, what each has yet to hear | claim, defend, yield, move, be commanded, lose power | everybody's claims cross; a node that missed a message believes another picture of the bus |
| NAME, `node.go` 1332-1355, 1559-1664 | none | pack a `DeviceInfo`, an announced claim and a command into 64 bits | three packings that must agree, one of them after the wire has clamped the values |
| Message codecs, `internal/pgn`, `internal/converter`, `internal/pkt` | cursor of a bit stream | encode, cut, pack the identifier, find the decoder, decode | values at the ends of their range, missing values, fields that share bytes, lists that fill the message, messages cut short |
| CAN adapter, `internal/adapter/canadapter` | next sequence id per PGN, partial messages | cut into frames, reassemble | lost, repeated, overtaking frames; reuse of sequence ids; concurrent writers |
| Message service, `internal/n2kinternal/n2kinternal.go` | current and last run, output gates, queue with WaitGroup, processor | `Start`, `Stop`, `UpdateEndpoint`, `Wait`, `HandleMessage` | five kinds of goroutine per run, four locks, cancellation at any moment |
| Subscription manager, `internal/subscribe` | lists by struct name and for everything | subscribe, unsubscribe, `HandleStruct` | callbacks run without the lock and change the lists |
| SocketCAN endpoint, `pkg/endpoint/socketcanendpoint` | two bounded queues, one writer per `Run`, closed and running flags | `Run`, `Close`, `WriteFrame`, retries | `Close` against a starting `Run`, back-pressure, a full kernel buffer |
| Other endpoints, metrics, commands | - | - | I/O around a read loop, counters nothing depends on; not modelled |

## 2. Modules

| Module | Models | Notes |
|---|---|---|
| `NodeRegistry` | the registry: one action per handler, one step per lock region | helpers keep the source's names; an empty PGN list is a value of its own, since copying one yields nil; a NAME may be 0, as a claim without fields yields it |
| `DeviceDirectory` | abstract: every NAME is at its last claimed address, with what was said from there; what device 0 says is set aside | `NodeRegistry` implements it (`ImplementsDirectory`) |
| `NodeRegistryProofs` | proofs about the two | |
| `DeviceChanges` | publication of device changes, with an application that subscribes, takes a snapshot and follows | extends `NodeRegistry` |
| `DeviceChangesProofs` | proofs about the followers | extends `NodeRegistryProofs` |
| `Node` | the node's life; extends `NodeRegistry`, whose handlers are part of its `TakeClaim` and `TakeInfo` | composition of registry, process goroutine, callers and callback |
| `NodeRequests` | requests and group functions on the node's process goroutine, and the configuration provider | extends `Node`: every step of the node may fall between the steps of an answer |
| `NodeProofs` | proofs about the node and its answers | extends `NodeRequests` and `NodeRegistryProofs` |
| `AddressBus` | two or three nodes on one bus, each with the claim logic of `Node` in coarser steps, with power cuts, missed messages and devices known only from what they say | a component of its own: the composition of nodes |
| `AddressBusProofs` | proofs about any number of nodes on one bus | |
| `Words` | machine words as sets of bits: shifts, masks, or, truncation | TLC's integers have 32 bits, a NAME has 64 |
| `CanId`, `NodeName` | packing and unpacking of the CAN identifier and of the NAME | |
| `DataStream` | the bit stream, its readers and writers, and the field metadata the generator computes | |
| `Codecs` | the layouts of ten message types, `Publisher.Write`, `WritePgn`, `sendSingle`, `FindDecoder`, `HandlePacket` | composes the four modules above |
| `FastPacket` | `sendFast`, `MultiBuilder`, `sequence` and a faulty bus | `sent` keeps the sequence id of each message as history |
| `FastPacketProofs` | proofs about one writer, and about `CanId` | |
| `Service` | endpoint runs, message queue and processor of the message service | |
| `ServiceProofs` | proofs about `Service` | |
| `PubSub` | abstract: a struct goes to the subscriptions in place when it was published, once, in order | |
| `SubscribeManager` | the subscription manager | implements `PubSub` |
| `SubscribeProofs` | proofs about the manager and that it implements `PubSub` | |
| `SocketCan` | lifecycle and outbound path of the SocketCAN endpoint | |
| `SocketCanProofs` | proofs about `SocketCan` | |
| `MC*` | the same modules for TLC (`MCDeviceChanges` for the registry too), with symmetry where the sets are interchangeable | |

Where a module's invariants need its types, the first of them has `TypeOK` as a conjunct, so that
TLC checks the types in the same run: `FollowerInSync`, `DeliveredIsSent`, `CountIsExact`, `ListsMatchSubs`,
`OnePlace`, `AnswersComeFromAsked` (`RequestsTypeOK`), `QuietMeansDistinct` (`BusTypeOK`), `ReadBackIsWritten`
(`CodecTypeOK`).

How state corresponds to the code:

* A Go map is a total function with `Nil` for a missing entry. Addresses keep the
  shape of the uint8 space: `0..LastAddress` are usable (253 in the code), the next is
  the null address, then the global one. A NAME is a number; `TopBit` stands for bit 63.
* A step is a lock region, a channel operation or a publication. What a goroutine has
  read and carries across an unlock is a variable (`snap`, `out`, `msg` in `Node`;
  `waits`, `run` in `Service`; `calls` in `SubscribeManager`).
* Time is left out: a ticker or timer may fire whenever it is armed. Ages of queued
  messages are left out too; the service may find a message too old whenever another
  one is waiting or being handled.
* A call that is refused and changes nothing has no step. Logging, error texts,
  `LastSeen`, lag and metrics are left out: no decision depends on them.
* Definitions commented `Mutant:` are the code with one plausible mistake. They are
  used by no specification; they show which mistake each property would catch.
* Two steps of the code lie outside the models on purpose. In `Node` a callback
  that finds its context gone panics in the code and simply does not go on in the model
  (`EnqueueDone`); `CallbackFindsContext` is the property that says this does not happen,
  and it does not hold. And `Start` waits for the old process goroutine, so that what two
  process goroutines would do after two overlapping `Stop`s is not explored.
* `NodeRequests` adds a program counter to the process goroutine. An answer is taken,
  the provider read, the new configuration stored, and the responses published one by
  one in separate steps; between them the application may move the address, turn the
  node read-only or stop it. What the handler has read stays in `job`.
* In `AddressBus` a round of a node's process loop is one step. The finer interleavings inside
  a node are the subject of `Node`; here the messages between nodes interleave.
* In `Codecs` a message takes three steps: it is written, it is on the wire, whole or cut short,
  and it is read. A layout is a sequence of field descriptions; one interpreter writes and one
  reads them, as the generated encoders and decoders do with the same calls. The generated code
  repeats these calls for some 600 types; the ten modelled are those the node itself speaks, the
  fallback that shadows one of them, and a proprietary one.

## 3. Runs

| Run | Configuration | Shows |
|---|---|---|
| `device_changes` | `DeviceChanges.cfg` | The registry and its publication: the three maps agree (`RegistryInv`), the snapshot lists one device per address, the index is exact, the address a losing node retries is free, the registry implements `DeviceDirectory`, and a follower that subscribes first and takes its snapshot second is never out of step once the change in flight has reached it. |
| `node_contention` | `NodeContention.cfg` | A claim against lower and higher NAMEs, commands and information messages of devices that have not claimed: a claimed address is usable, requested, announced since the last claim against it, and the only one written from. |
| `node_lifecycle` | `NodeLifecycle.cfg` | Start, Stop, restart, read-only mode, heartbeats, an information message and failing publications: no address means no writes, Stop returns after the goroutine is gone, every claim ends. |
| `fast_packet` | `FastPacket.cfg` | With one writer and a bus that loses, repeats and reorders: no packet joins frames of two messages except through a lost frame 0, and every undamaged message is delivered. |
| `service` | `Service.cfg` | See below. |
| `node_requests` | `NodeRequests.cfg` | Requests answered while the address is won, lost and moved, the node turns read-only or stops and the provider is replaced, edited and fails: an answer comes from the address that was asked and was won, a reply to a write is positive exactly when the provider took it, a write takes effect in every field it names or in none, and every type the node answers with is in its PGN list. |
| `address_bus` | `AddressBus.cfg` | Nodes that start in any order, crash, miss messages, are commanded, and hear from devices that have not claimed: a quiet bus has no two nodes at one address, the lowest NAME is never driven off its address, nobody who may choose gives up while the others and its unnamed records leave an address, and contention ends (`Settles`). |
| `codecs` | `Codecs.cfg` | From `Write` to the receiver's struct: header and fields arrive, a cut message yields nothing that was not sent, the NAME a receiver computes is the sender's where no part of it is a reserved value, and what fits is sent. |
| `codecs_half_byte`, `codecs_names` | `CodecsHalfByte.cfg`, `CodecsNames.cfg` | Two counterexamples; see below. |
| `subscriptions` | `SubscribeManager.cfg` | The lists stay ordered and match the subscriptions; `SubscribeManager` implements `PubSub`. |
| `socketcan` | `SocketCan.cfg` | One writer at a time; none takes a frame once `Close` has returned; a frame is in one place; high frames leave in order; `Close` releases everyone though the kernel's buffer stays full. |

The `service` run has two callers of `Start`, `Stop` and `UpdateEndpoint` against
contexts cancelled at any time and endpoints that fail to start, end by themselves and
deliver messages. It shows that the WaitGroup counts exactly the messages queued or in
work, that messages are handled one at a time although an endpoint handles its own
message when no processor is installed, that a finished run is quiet (endpoint closed,
`Run` returned, processor gone, output shut), that a run nobody has cancelled has its own
processor and an open output, that it loses no message when it ends by itself, and that
nobody is left waiting.

### The counterexamples

`codecs_half_byte` checks `RoundTrips`: a message that was written without an error is read back
by the receiver. An acknowledgement lists a four-bit code per parameter. With an odd
number of them the stream ends in the middle of a byte, and `Publisher.Write` passes on only the
whole bytes (`internal/pgn/write.go:44`); the last code is gone, `NumberOfParameters` still counts
it, and the receiver's decoder runs off the end and reports an `UnknownPGN`.

`codecs_names` checks `ClaimCarriesName`: the NAME other nodes compute from a claim is the one the sender
compares claims with. `docs/node-design.md:135-147` gives the sizes `SetDeviceInfo` accepts and asks for
"the same packing when sending address claims, handling commanded address, and comparing competing claims".
`computeName` (`node.go:1560-1593`) accepts and packs every value of these sizes. The encoder of the claim keeps the
top values of a numeric field for a missing or reserved one and pins a value above the rest (`WriteRaw`,
`writedatastream.go:288-290`): unique numbers `0x1FFFFE` and `0x1FFFFF`, lower instance 7, upper instances 30 and 31,
system instances 14 and 15 are announced one or two lower. A node whose own NAME is above that of a contender and whose
announced NAME is below it yields, and so does the contender. `NamesAgree`, in the passing run, shows that a NAME without these values is the same
everywhere, and that otherwise what the receivers compute is what the claim's eight bytes say. (`ISOCommandedAddress` carries
the unique number as bytes, which nothing pins.)

### Further departures from the documents

The passing runs are restricted so that they do not meet these. Each can be seen by lifting
the restriction named.

| The code | What the documents say | To see it |
|---|---|---|
| `ClaimAddress` on a claimed node leaves `addressClaimed` set (`node.go:420`); the loop then moves the source address. | "must not transmit application PGNs until it has claimed a source address" (`docs/node-design.md:54`) | `MaxClaimCalls = 2` with `WritesFromWonAddress` |
| A handler decides under the read lock and writes under a second one (`node.go:989`, `1017`) without looking again, so that a node that turned read-only in between claims. | read-only nodes do not "claim an address" (`README.md:115-117`) | `ReadOnlyIsPassive` with `ReadOnlyAddress` among `AppAddresses` |
| `enqueuePgn` reads `n.ctx` twice without the lock (`node.go:583`) while `Stop` sets it to nil. | "callbacks must tolerate shutdown races" (`docs/node-design.md:673`) | `CallbackFindsContext` with one stopper |
| `sendFast` reads and stores the sequence id and emits frames without a lock (`canadapter.go:152`). | "public methods must be safe to call from concurrent goroutines" (`docs/node-design.md:665`) | two `Writers` with `DeliveredIsSent` |
| A command is acknowledged as done though the write it caused was refused (`node.go:804-821`). | "Send a positive acknowledgement only if the device-specific handler accepts and applies or persists the change" (`docs/node-design.md:554-555`) | `AcknowledgedIsApplied` in `NodeRequests.cfg` |
| While a command is handled the application may turn the node read-only and claim again. `processNmeaCommandGroupFunction` reads `networkAddress` once more for its acknowledgement (`node.go:808-810`) and `sendProcessResponses` looks at `readOnly` only, so that the acknowledgement leaves from 255. | "must not transmit application PGNs until it has claimed a source address" (`docs/node-design.md:54`) | `MaxClaimCalls = 3` in `NodeRequests.cfg` |
| An ISO Acknowledgement is never delivered as such: the standardized fallback comes first for 59392 and matches everything, although the node subscribes to it (`node.go:301`). | "ISO Acknowledgement subscription and logging" (`docs/node-design.md:688`) | an `ISOAcknowledgement` among the `Wireable` messages of `ReadBackIsWritten` |
| Two nodes of one NAME both defend and never stop. | an equal NAME "should surface an error or state transition" (`docs/node-design.md:189-191`) | `AddressBus` cannot express it: nodes are their NAMEs |
| A string's bit length is cut to 16 bits (`writedatastream.go:41`) and a byte value's length too (`82`): a string of 8192 bytes is sent as an empty one, and no error is returned. | `Write` "returns an error if invalid" (`internal/pgn/write.go:32`) | `FittingIsSent` without its `Wraps` |

And some that no document speaks of: a
command that names a field without metadata (a lookup) cannot be decoded; `buildNmeaGroupNak` leaves
`NumberOfParameters` missing, so that no reader sees its parameter; a string longer than the
message, but short enough for its length not to wrap, makes `writeBinary` panic (`writedatastream.go:86`); a field the application
edits while a write of another field is between the provider's `GetConfigurationInfo` and `SetConfigurationInfo`
(`node.go:847`, `876`) gets its old value back; a claim without fields yields NAME 0 (`node.go:1602-1633`), which
`setKnownDeviceForAddressLocked` (`1230-1238`) takes for an unnamed device, so that what such a device says next is kept in a
second record and the device is listed twice; an unnamed record outlives the move of the device it is of (`1057` deletes
only the one at the new address), and a losing node does not take its address; restarting a
node does not empty `pgnIn`, so that it acts on claims heard in its previous life.

### Where the passing runs are restricted, and why

These are restrictions of constants, not of the specifications; each can be lifted in
the configuration to see the behaviour described.

* `device_changes`: `ClaimSources` are usable addresses. With claims from the null address
  (254, "cannot claim") the index entry of 254 survives its device's move
  (`node.go:1064`), and the next cannot-claim of another NAME parks that device at 255:
  `IndexedIsPlaced` and `ImplementsDirectory` fail. `RegistryInv` and
  `OneDevicePerAddress` are proved without the restriction; the latter excepts the two records of NAME 0.
  `FollowerInSync` says nothing of an address whose device has an empty PGN list, nor of a registry with a device of NAME 0,
  though both are in the run: the code takes the nil slice that a copied
  empty list yields for "unchanged" (`node.go:1172`), so that the change to an empty list
  is stored and never published, and a change of one of the two records of NAME 0 does not say which.
* `node_contention`: one `ClaimAddress` call, publications that succeed, commands of
  usable addresses. A second call can race the running claim's timeout, which then
  confirms the old address (`node.go:1535`); a failed claim publication is not retried
  (`1327`). A commanded 254 or 255 is left out because `ReadRaw` reads both as missing
  (`readdatastream.go:428-493`); no run shows that, since this library's encoder puts 253 on the wire instead of 254.
* `node_lifecycle`: one caller of `Stop`. With two, the later one's reset can hit a node
  that was started again in between (`378-392`).
* `service`: `Restartable` is `FALSE`: `Start` of every endpoint in `pkg/endpoint` fails once
  it is closed. For an endpoint that could be started again, the watcher of the old run
  may shut the output the new run shares with it (`n2kinternal.go:524`), and
  `RunIsHeard` fails. Also, a message that slips in between the processor's last discard
  (`713`) and its uninstallation (`699-704`) outlives its run and is taken by the next
  run's processor; no property excludes it.
* `node_requests`: a request that is taken while a claimed node is being moved is not held
  against `AnswersFromWonAddress` (`job.moving`): this is the first departure above. The application may edit
  the provider at any moment, but `WritesAreWhole` leaves out the fields it has edited since the request was taken:
  an edit between the node's read and its store is overwritten. The application calls `ClaimAddress`
  twice at most, which leaves out the acknowledgement from 255 in the table above.
* `address_bus`: NAMEs are distinct, every node calls `ClaimAddress` once, and a missed message is made
  up for only by a request for address claims on an otherwise idle bus, as devices send it when they
  join. A node that is still claiming does not answer such a request, and nobody announces that it
  could not claim; both are in the model as they are in the code. Only what the search for an address reads is kept of
  the registries, and only for nodes that may choose: the index, and which addresses have an unnamed record.
* `codecs`: `ReadBackIsWritten` speaks of the `Wireable` messages: no length that wraps, parameters counted, an even number of
  four-bit codes, fields that have metadata, and not the shadowed ISO Acknowledgement. Values outside the
  range a field can carry are expected back clamped, which is what the sender's struct says.
  ISO Commanded Address has nine bytes and is no fast-packet type; the transport protocol that would
  carry it is external (`Transport`).

### Bounds

* `device_changes`: three NAMEs, one of them 0, on two usable addresses, so that devices meet, displace each other and
  come back; a PGN list, with an entry or empty; two followers. A list is the field with the most cases; the other
  fields are handled alike and are in the two node runs.
* `node_contention`: three addresses, a lower, an equal and a higher NAME (8 is the
  arbitrary-address bit), three messages in a queue of two, so that it overflows; Product Information from two
  addresses, one of them that of a contender, so that unnamed records meet claims and the search.
  `node_lifecycle`: two starts, two `ClaimAddress` calls (one of them read-only), one
  configuration call and one message (a claim, a command or Configuration Information) in a queue of one.
* `fast_packet`: four messages over two sequence ids, so that ids are reused with a
  partial message left behind; lengths 6, 13 and 14 are the boundaries of one, two and three
  frames; two faults anywhere.
* `node_requests`: one request at a time out of 21 shapes (every handler, addressed and broadcast, known,
  foreign and missing PGN, good, unknown, missing and undecodable parameters), two messages on the bus,
  a stop, two claim calls of which one may be read-only, one edit, failing provider and publications.
* `address_bus`: two choosers with one fault and two commands, requests or information messages, three nodes without, two that may not
  choose with one fault; three addresses, all preferring the same. Two nodes suffice for every crossing
  of a pair of claims, three for a node that is displaced onto a third.
* `codecs`: messages of at most 12 bytes instead of 223, so that lists fill the message and overrun it; lengths of
  11 bits instead of 16, so that strings and values of a few hundred and of 2048 bytes wrap;
  every numeric field at both ends of its range and next to its reserved values, every length of a
  message cut short.
* `service`: two runs, of one or of two endpoints, two stops, one endpoint update, two
  messages, two callers. `subscriptions`: three subscriptions, two packages with two struct
  names each, two publishers. `socketcan`: two runs, one close, two high and two low frames,
  queues of one, so that back-pressure and drops happen; retries are unbounded.

Deadlock is not checked where the actors may all have done what the bounds allow.
`NobodyStuck` and `CloseEndsAll` take its place: they say that no goroutine is left waiting
in such a state.

### Fairness

`node_lifecycle` and `address_bus` need it (`FairSpec`). In `address_bus` every node's process loop runs when it
can (weak fairness of each `Process(n)`): a goroutine that is scheduled, a ticker that ticks. Power cuts,
missed messages, commands and requests are not fair and are bounded, so `Settles` says: once the disturbances
are over, contention ends. In `node_lifecycle`, goroutines that can run do run (weak fairness
of `Process`, `FinishStop`, `Enqueue`), the claim ticker ticks (`ClaimTick`), and a
`select` with several ready channels picks one at random, so that a channel that is ready
again and again is not passed over for ever: strong fairness of `TakeClaimTick` and
`TakeDone`. The application is not obliged to call and the bus not obliged to deliver.
`Service` and `SocketCan` state progress as an invariant over `ENABLED Progress`: in every
reachable state either some goroutine can go on by itself or nobody is waiting. Each
such step uses something up, so the goroutines do come to rest.

## 4. Proofs

TLAPS proves the theorems below for all values of the constants that satisfy the named
assumptions, hence for the code's 254 addresses, any NAMEs, queue sizes and numbers of
calls. The assumptions (`RegistryAssumption`, `NilAssumption`, `NodeAssumption`,
`RequestsAssumption`, `BusAssumption`, `ServiceAssumption`, `SubscribeAssumption`,
`SocketCanAssumption`, `FastPacketAssumption`) say what sort of value each constant is and that `Nil` is none of the
others. Where a theorem needs more, the hypothesis is part of its statement; each is a
circumstance of the run that checks the same property, and section 3 says what happens without it. The inductive
invariants were checked by TLC before they were proved.

### Registry (`NodeRegistryProofs`)

* `RegistryInvariant`: `RegistryInv` is inductive, for any NAMEs, 0 included, and any sources of claims. It joins the types with three
  facts that need each other: a NAME placed at an address is the one indexed there, an
  indexed NAME has a record of that NAME, an unnamed record exists only at an address
  with no indexed NAME but 0.
* `SnapshotIsUnambiguous`: `OneDevicePerAddress` follows from it: two placed
  devices at one address would both be the indexed one, and an unnamed one excludes both, unless the NAME is 0.
* `IndexIsExact`: with `ClaimSources \subseteq Usable`, `ExactInv` (the above and
  `IndexedIsPlaced`) is inductive.
* `RetryIsFree`, under the same hypothesis: what `nextAvailableAddress` returns is held by no listed
  device, and it returns nothing only if every usable address but the excluded one is held. The
  index decides, `KnownDevices` lists; `ExactInv` makes the two agree.
* `RegistryImplementsDirectory`, under the same hypothesis: `ImplementsDirectory`. The
  mapping takes a record at a usable address to that place, a parked one to none, and
  an unnamed record to what was said from its address; a list with no entry is nothing once it has been copied, as in the code. Each handler is a step of the
  directory or leaves its state as it is; `ExactInv` is needed to know that the
  displaced device is the one the directory moves.

### Device changes (`DeviceChangesProofs`)

* `FollowersStayInSync`: with usable claim sources, no NAME 0 and no empty PGN lists, `FollowerInSync` for any number of followers.
  `SyncInv` speaks of the change in flight: applied to the copy of a follower it has not reached it
  gives the registry, and applied to the registry it gives the registry again. The second
  half is what saves a follower whose snapshot falls between the update and the callback and who
  therefore sees the same change twice.

### Node (`NodeProofs`)

* `TypeCorrectness`: `TypeOK` of `Node`, including the capacity of `pgnIn` and which local
  of the process goroutine is set at which program point. It rests on
  `NextAvailableIsUsable`: the search for a free address returns nothing or a usable one.
* `NoAddressNoWritesHolds`: inductive together with `TypeOK`, for any interleaving and any
  number of callers of `Stop`.
* `StopWaitsForProcess`: `StoppedMeansExited` for at most one caller of `Stop`, from `StopInv`:
  the node is started exactly while it has a context, the goroutine lives only while
  started, a waiting `Stop` has cancelled the context, and one that resets has seen the
  goroutine exit.
* `NodeKeepsRegistry`: every step of `Node` is a registry step, `TakeClaim` and `TakeInfo` being those, or leaves the registry alone,
  so `OneDevicePerAddress` holds inside the node too.
* `LoserGoesFree`: with usable claim sources, and whatever claims and information of unnamed devices have come, the address a losing node moves to under its second lock is free in
  the registry of that moment, or it gives up because it may not choose or nothing is free.
* `WritesAreWonUnlessMoved`: without hypotheses, no PGN leaves from an address that was
  not won, except while `ClaimAddress` moves a claimed node. `WonInv` carries this through the snapshot
  a writer holds between its locks. `WritesAreWon` is `WritesFromWonAddress` itself, for one `ClaimAddress` call.
* `ClaimsAreAnnounced`: `ClaimedIsAnnounced` in the circumstances of `node_contention` (`OrderlyClaim`:
  one claim call, one stopper, one NAME, publications that succeed, usable commands). `ClaimInv` has five parts: the
  one call has been made or not, a read-only node runs no claim, the NAME is known before it is
  used, a timeout never runs for an address other than the one asked for, and the claim behind a running timeout is
  on the bus, about to be put there, or about to be given up for a lower NAME.

### Requests (`NodeProofs`)

* `RequestTypesHold`: the types of the answer in work, at every program point of the handler.
* `RepliesAreTrue`: `RepliesTellTheTruth` without hypotheses, from `TruthInv`, which follows
  the outcome of the provider's calls through the handler to the reply.
* `WritesAreAllOrNothing`: `WritesAreWhole` without hypotheses. `WholeInv` says at every program point of the handler what
  the configuration is, apart from the fields the application has edited since the request was taken: what it was, or, from the
  provider's store on, what the request wants; and that what is about to be stored is what was read, changed in the named
  fields. It needs that the outcome the handler carries is the provider's.
* `AnswersAreFromAsked`, `AnswersAreFromWon`: with `FewCalls` (two claim calls, or none that asks for
  255) and one stopper. `AskedInv`: while a request is handled the node keeps the address it was found at or has none (`HandInv`), group
  functions go on for requests to this node only, and what is about to be sent and what was published is owed to the request. `FewCalls` is exactly what excludes
  the acknowledgement from 255: without it `HandInv` is not inductive, and TLC shows the violation.

* `AnswersAreListed`: `AnswersAreAdvertised` without hypotheses, for PGN lists of any length and with any repetitions. Two things are needed.
  What `mergePGNs` returns: its fold is a recursive function on the sets of indices, which is shown to exist
  (`MergesExist`) and to return each PGN once (`Merged`) by induction on the largest index; the induction itself
  (`Counting`) is the least-element principle of `WellFoundedInduction`. And `ListedInv`: the provider is asked only for a
  PGN that is in the list, and what is about to be sent and what was published is listed.

### Several nodes (`AddressBusProofs`)

No hypotheses: any set of NAMEs, any number of addresses, power cuts, missed messages, commands and
requests. `Rounds` sorts a round of the process loop into nothing, timeout, defence, move and loss, so that
each invariant is shown for five kinds of step.

* `TrafficHolds`: the types; a node claims and holds the address it wants; only nodes that take part have power,
  only nodes with power have messages, and none of these is their own claim.
* `AddressesAreDistinct`: `QuietMeansDistinct`. `DistinctInv`: of two nodes at one address, one has
  the other's claim in its queue, or the other has a request it will answer, unless a message was
  missed and no request has made up for it. A claim in a queue therefore is the only excuse for a shared
  address.
* `LowestIsSteady`: `LowestNameUndisturbed`, also with messages missed: no claim in any queue beats the
  lowest NAME (`LowestUnbeaten`), so that every round of it is a defence.
* `NobodyLosesNeedlessly`: `NobodyLostNeedlessly`, a property of the step in which a node gives up. Every address a node believes taken
  was claimed by another NAME, each NAME is believed at one place and an unnamed record is at an address the index has nobody
  at (`HeardInv`, and `Known` in `TrafficInv`). The search finds nothing only when each address but the lost one is in the index or has a record, and the
  lost one has just been claimed; so the addresses map one to one into the other nodes and the records, and
  counting them (`FiniteSetTheorems`) gives the bound.

### Message service (`ServiceProofs`)

* `ControlAlways`: `ControlInv`, the program counters and locals of callers, watchers, endpoints and
  processors against the states of the runs: one run is up at a time, a starting run is the
  current one, whoever stops a run knows it, an unused run is fresh. `MessagesHandledSerially` and
  `DoneRunsAreQuiet` follow.
* `MessagesAreCounted`: `CountIsExact` is inductive on top of it.
* `EndedEndpointLosesNothing`: `NothingLostUncancelled`, from `ReasonsInv`: whoever shuts an output or stops a processor
  has a reason to, and a run that closes without having been cancelled has drained its queue.
* `UnstoppedRunIsHeard`: `RunIsHeard` while a closed endpoint cannot be started again (`Restartable = FALSE`).
  `HeardInv` needs that no other run has the endpoint of the run that is up (`OwnEndpoint`), which is what a restart would break.

### Subscriptions (`SubscribeProofs`)

* `ListsAlwaysMatchSubs`: the lists hold the live subscriptions, each once, in the order in which they were made.
* `ManagerImplementsPubSub`: `ImplementsPubSub`. A call in progress holds a copy of the list; `CallsInOrder`
  says the copy is in order and has only issued identifiers, which makes each callback the abstract
  specification's next one.

### SocketCAN (`SocketCanProofs`)

* `WritersAreExclusive`, `FramesHaveOnePlace`, `HighFramesLeaveInOrder` follow from `EndpointInv`: the life cycle of
  `Run` and `Close` (`LifeInv`), every frame is where its state says, and once (`Placed`), and the accepted high frames are those taken from the queue, all but
  the last of them done with, followed by those still in it (`InOrder`).

### Fast packets (`FastPacketProofs`)

`DeliveredWasSent` and `IntactArrives` (`DeliveredIsSent`, `IntactIsDelivered`) hold for any messages, lengths, streams,
sequence ids and number of faults, with one writer (`OneWriter`, the circumstance of the run
`fast_packet`): `sendFast` takes its sequence ids without a lock, and with two writers one id
may be given twice (section 3). Three invariants, each on top of the one before, make up `Inv`:

* `OrderInv`: the wire keeps the order in which the frames were written, and once frame 0 of a message has
  passed, everything sent earlier has.
* `SoundInv`: what a partial message holds was cut from the message of its frame 0, or from one whose own
  frame 0 was lost. The frames that follow frame 0 therefore find their own message under their sequence id.
* `IntactInv`: a message nothing happened to is on its way whole, half received with exactly
  the frames that have passed, or delivered. It needs that a shorter prefix of frames never has as many bytes
  as the message (`FrameCount`).

`IdRoundTrip`: `DecodeCanID` gives back what `CanIDFromData` was given, for every PGN, source, priority and
destination. It is not true of the low byte of an addressed PGN, which the destination replaces, and the
destination of a PGN that is not addressed is not kept: the theorem says what is read in both cases.

### Only model-checked

* Liveness (`ClaimResolves`, `StopReturns`, `Settles`) and the invariants that use `ENABLED` (`NobodyStuck`,
  `CloseEndsAll`): out of the prover's reach.
* What the message codecs compute (`ReadBackIsWritten`, `NothingInvented`, `NamesAgree`, `FittingIsSent`, and the two counterexamples): the readers and
  writers of `DataStream` and `Codecs` are recursive operators, which the provers do not take.

## 5. Not modelled

* Subscription errors in `Node.Start`, which returns at the first and keeps the earlier subscriptions;
  callbacks that call `Stop` on the goroutine they run on, which wait for themselves.
* Scaled floating-point fields, units, UTF-16 and fixed-length strings, fields with an offset; the RAW text format.
* The remaining endpoints (USB CAN, raw, file, idle): I/O around a read loop, under the contract
  `Service` assumes of an endpoint. The replay adapter, whose frames are handled on the caller's goroutine.
* Metrics and lag, on which no decision depends; the command-line tools; the generator, except for the
  field metadata it computes.
* The bulk of the generated code. `internal/pgn/*_generated.go` and `pkg/pgn/*_generated.go` hold some
  139,000 of the repository's 155,000 lines: one encoder, decoder, metadata record and struct
  per message type, all made of the few calls `DataStream` models. Modelling more of these types would
  repeat the ten layouts of `Codecs` and show nothing new, so that only a small share of all lines
  is modelled; of the hand-written library it is more than half.

## 6. Plan

Every safety invariant and action property the runs check is proved, but for those of the codecs and the two over
`ENABLED`. Proving the codecs would take `DataStream` rewritten with recursive functions in place of recursive operators;
`Counting` then gives the inductions over the fields of a message.

Models that could follow: the partial set of subscriptions a failing `Start` leaves, and the USB CAN endpoint
against the contract of `Service`.
