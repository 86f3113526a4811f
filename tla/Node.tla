-------------------------------- MODULE Node --------------------------------
(***************************************************************************)
(* The address-claim life of one node (pkg/node/node.go).                  *)
(*                                                                         *)
(* Four kinds of goroutine share the node:                                 *)
(*   - the process goroutine, one pc step per lock region or publication;  *)
(*   - application goroutines calling ClaimAddress, Write, EnableHeartbeat *)
(*     and the like: one step per lock region;                             *)
(*   - callers of Stop, which waits between its two lock regions;          *)
(*   - a subscription callback, which puts one PGN into pgnIn.             *)
(* Publications happen outside the lock: what is sent was read from a      *)
(* state that may be gone by then.                                         *)
(*                                                                         *)
(* The known-device registry that claims and information messages update   *)
(* is that of NodeRegistry; ISO Acknowledgements are only logged and have  *)
(* no step.                                                                *)
(* A NAME is a number; its top bit (63 in the code) says that the device   *)
(* may choose another address.                                             *)
(***************************************************************************)
EXTENDS NodeRegistry, Sequences

CONSTANTS TopBit,            \* 2^63 in the code
          DefaultAddress,    \* 128 in the code
          OwnNames,          \* the NAMEs SetDeviceInfo can compute
          AppAddresses,      \* what the application passes to ClaimAddress
          CommandAddresses,  \* the NewSourceAddress of commands on the bus
          QueueSize,         \* nodePGNQueueSize: 2048 in the code
          SeqModulus,        \* 256 in the code
          Stoppers,          \* the goroutines that call Stop
          WriteMayFail,      \* whether publisher.Write can return an error
          MaxClaimCalls,     \* bounds for TLC: calls of ClaimAddress,
          MaxConfigCalls,    \* of EnableHeartbeat and SetHeartbeatInterval,
          MaxStarts,         \* of Start,
          MaxMessages        \* and PGNs delivered to the callback

\* A command's NewSourceAddress is Nil when the field is absent.
ASSUME NodeAssumption ==
  /\ TopBit \in Nat \ {0}
  /\ DefaultAddress \in Usable
  /\ OwnNames \subseteq Nat
  /\ AppAddresses \subseteq Address
  /\ CommandAddresses \subseteq Address \cup {Nil}
  /\ Nil \notin {"live", "done", "armed", "fired"}
  /\ QueueSize \in Nat \ {0}
  /\ SeqModulus \in Nat \ {0}
  /\ WriteMayFail \in BOOLEAN
  /\ {MaxClaimCalls, MaxConfigCalls, MaxStarts, MaxMessages} \subseteq Nat

VARIABLES
  \* fields of the node, under its mutex
  networkAddress, preferredAddress, addressClaimed, addressState, readOnly,
  name, deviceInfoSet, heartbeatEnabled, heartbeatSeq, started, ctx, subscribed,
  \* its channels
  pgnIn, wakeUp,
  \* the process goroutine
  pc, claimTicker, heartbeatTicker, msg, snap, out, ret,
  \* the other goroutines
  stopPc, callback,
  \* history: the address of the last claim this node put on the bus, forgotten
  \* when the node takes a lower NAME's claim to that address from its queue
  announced,
  \* history: the address whose claim timeout the node sat out last
  won,
  \* calls and messages left within the bounds
  budget

addressVars == <<networkAddress, preferredAddress, addressClaimed, addressState,
                 readOnly>>
configVars  == <<name, deviceInfoSet, heartbeatEnabled>>
runVars     == <<started, ctx, subscribed>>
processVars == <<pc, claimTicker, heartbeatTicker, msg, snap, out, ret>>
otherVars   == <<stopPc, callback>>
historyVars == <<announced, won>>
vars == <<addressVars, configVars, heartbeatSeq, runVars, pgnIn, wakeUp, processVars,
          otherVars, historyVars, budget, registryVars>>

Messages ==
  [type : {"claim"}, src : ClaimSources, name : Names]
  \cup [type : {"command"}, new : CommandAddresses, name : {n % TopBit : n \in Names \cup OwnNames}]
  \cup [type : {"info"}, kind : Kinds, src : InfoSources, value : Values]

Init ==
  /\ RegistryInit
  /\ networkAddress = GlobalAddress
  /\ preferredAddress = DefaultAddress
  /\ addressClaimed = FALSE
  /\ addressState = "Unclaimed"
  /\ readOnly = TRUE
  /\ name = 0
  /\ deviceInfoSet = FALSE
  /\ heartbeatEnabled = FALSE
  /\ heartbeatSeq = 0
  /\ started = FALSE
  /\ ctx = Nil
  /\ subscribed = FALSE
  /\ pgnIn = <<>>
  /\ wakeUp = FALSE
  /\ pc = "off"
  /\ claimTicker = Nil
  /\ heartbeatTicker = Nil
  /\ msg = Nil
  /\ snap = Nil
  /\ out = Nil
  /\ ret = "select"
  /\ stopPc = [s \in Stoppers |-> "idle"]
  /\ callback = Nil
  /\ announced = Nil
  /\ won = Nil
  /\ budget = [claim |-> MaxClaimCalls, config |-> MaxConfigCalls,
               start |-> MaxStarts, message |-> MaxMessages]

Spend(kind) == /\ budget[kind] > 0
               /\ budget' = [budget EXCEPT ![kind] = @ - 1]

-----------------------------------------------------------------------------
(* Application calls.  The calls that return an error change nothing and   *)
(* have no step.                                                           *)

SetDeviceInfo(newName) ==
  /\ name' = newName
  /\ deviceInfoSet' = TRUE
  /\ UNCHANGED <<addressVars, heartbeatEnabled, heartbeatSeq, runVars, pgnIn, wakeUp,
                 processVars, otherVars, historyVars, budget, registryVars>>

\* Mutant: the process goroutine is not woken.
ClaimAddressNoWakeUp(address) ==
  /\ address \in Usable
  /\ deviceInfoSet
  /\ preferredAddress' = address
  /\ readOnly' = FALSE
  /\ addressState' = "Claiming"
  /\ Spend("claim")
  /\ UNCHANGED <<networkAddress, addressClaimed, wakeUp, configVars, heartbeatSeq, runVars,
                 pgnIn, processVars, otherVars, historyVars, registryVars>>

\* The sends on wakeUp do not block: a full channel already holds a wake-up.
ClaimAddress(address) ==
  /\ \/ /\ address = GlobalAddress            \* ReadOnlyAddress
        /\ preferredAddress' = address
        /\ networkAddress' = GlobalAddress
        /\ addressState' = "Unclaimed"
        /\ addressClaimed' = FALSE
        /\ readOnly' = TRUE
     \/ /\ address \in Usable
        /\ deviceInfoSet
        /\ preferredAddress' = address
        /\ readOnly' = FALSE
        /\ addressState' = "Claiming"
        /\ UNCHANGED <<networkAddress, addressClaimed>>
  /\ wakeUp' = TRUE
  /\ Spend("claim")
  /\ UNCHANGED <<configVars, heartbeatSeq, runVars, pgnIn, processVars, otherVars,
                 historyVars, registryVars>>

EnableHeartbeat(enable) ==
  /\ heartbeatEnabled' = enable
  /\ wakeUp' = TRUE
  /\ Spend("config")
  /\ UNCHANGED <<addressVars, name, deviceInfoSet, heartbeatSeq, runVars, pgnIn,
                 processVars, otherVars, historyVars, registryVars>>

\* The interval itself is time, which is left out; a running ticker keeps its own.
SetHeartbeatInterval ==
  /\ wakeUp' = TRUE
  /\ Spend("config")
  /\ UNCHANGED <<addressVars, configVars, heartbeatSeq, runVars, pgnIn,
                 processVars, otherVars, historyVars, registryVars>>

\* What write's read-locked snapshot yields: the source address of the PGN that is
\* then published outside the lock, or Nil when the write is refused.  Write and
\* WriteTo change no field of the node.
write == IF ~readOnly /\ addressClaimed THEN networkAddress ELSE Nil

-----------------------------------------------------------------------------
(* Start and Stop.                                                         *)

\* The process goroutine starts with no tickers.  started goes FALSE only when the
\* old goroutine has exited, unless two goroutines call Stop at once: the guard on
\* pc leaves out what a second process goroutine would do after that.
Start ==
  /\ ~started
  /\ pc = "off"
  /\ subscribed' = TRUE
  /\ ctx' = "live"
  /\ started' = TRUE
  /\ pc' = "top"
  /\ claimTicker' = Nil
  /\ heartbeatTicker' = Nil
  /\ Spend("start")
  /\ UNCHANGED <<addressVars, configVars, heartbeatSeq, pgnIn, wakeUp, msg, snap, out, ret,
                 otherVars, historyVars, registryVars>>

\* Mutant: the context is not cancelled.
StopBeginNoCancel(s) ==
  /\ stopPc[s] = "idle"
  /\ started
  /\ subscribed' = FALSE
  /\ stopPc' = [stopPc EXCEPT ![s] = "wait"]
  /\ UNCHANGED <<addressVars, configVars, heartbeatSeq, started, ctx, pgnIn, wakeUp,
                 processVars, callback, historyVars, budget, registryVars>>

\* First lock region of Stop: unsubscribe everything, cancel the context.
StopBegin(s) ==
  /\ stopPc[s] = "idle"
  /\ started
  /\ subscribed' = FALSE
  /\ ctx' = IF ctx = Nil THEN Nil ELSE "done"
  /\ stopPc' = [stopPc EXCEPT ![s] = "wait"]
  /\ UNCHANGED <<addressVars, configVars, heartbeatSeq, started, pgnIn, wakeUp,
                 processVars, callback, historyVars, budget, registryVars>>

\* Mutant: Stop does not wait for the goroutine.
StopNotWaited(s) ==
  /\ stopPc[s] = "wait"
  /\ stopPc' = [stopPc EXCEPT ![s] = "reset"]
  /\ UNCHANGED <<addressVars, configVars, heartbeatSeq, runVars, pgnIn, wakeUp,
                 processVars, callback, historyVars, budget, registryVars>>

\* wg.Wait returns.
StopWaited(s) ==
  /\ stopPc[s] = "wait"
  /\ pc = "off"
  /\ stopPc' = [stopPc EXCEPT ![s] = "reset"]
  /\ UNCHANGED <<addressVars, configVars, heartbeatSeq, runVars, pgnIn, wakeUp,
                 processVars, callback, historyVars, budget, registryVars>>

\* Mutant: the address outlives Stop.
StopResetKeepAddress(s) ==
  /\ stopPc[s] = "reset"
  /\ started' = FALSE
  /\ addressState' = "Unclaimed"
  /\ addressClaimed' = FALSE
  /\ readOnly' = TRUE
  /\ ctx' = Nil
  /\ stopPc' = [stopPc EXCEPT ![s] = "idle"]
  /\ UNCHANGED <<networkAddress, preferredAddress, configVars, heartbeatSeq, subscribed,
                 pgnIn, wakeUp, processVars, callback, historyVars, budget, registryVars>>

\* Second lock region.  pgnIn, wakeUp and the registry are left as they are.
StopReset(s) ==
  /\ stopPc[s] = "reset"
  /\ started' = FALSE
  /\ addressState' = "Unclaimed"
  /\ addressClaimed' = FALSE
  /\ networkAddress' = GlobalAddress
  /\ readOnly' = TRUE
  /\ ctx' = Nil
  /\ stopPc' = [stopPc EXCEPT ![s] = "idle"]
  /\ UNCHANGED <<preferredAddress, configVars, heartbeatSeq, subscribed, pgnIn, wakeUp,
                 processVars, callback, historyVars, budget, registryVars>>

-----------------------------------------------------------------------------
(* The subscription callback: handleIsoAddressClaim and the like call      *)
(* enqueuePgn.  The subscriber hands the PGN over while the node is        *)
(* subscribed; the callback may still be running when Stop unsubscribes.   *)

CallbackBegin(m) ==
  /\ subscribed
  /\ callback = Nil
  /\ callback' = [msg |-> m, at |-> "check"]
  /\ Spend("message")
  /\ UNCHANGED <<addressVars, configVars, heartbeatSeq, runVars, pgnIn, wakeUp,
                 processVars, stopPc, historyVars, registryVars>>

\* if n.ctx != nil: read without the lock.
EnqueueCheck ==
  /\ callback # Nil
  /\ callback.at = "check"
  /\ callback' = [callback EXCEPT !.at = IF ctx = Nil THEN "put" ELSE "done"]
  /\ UNCHANGED <<addressVars, configVars, heartbeatSeq, runVars, pgnIn, wakeUp,
                 processVars, stopPc, historyVars, budget, registryVars>>

\* <-n.ctx.Done(): n.ctx is read again.  A nil context panics here; the model
\* has no step for it.
EnqueueDone ==
  /\ callback # Nil
  /\ callback.at = "done"
  /\ ctx # Nil
  /\ callback' = IF ctx = "done" THEN Nil ELSE [callback EXCEPT !.at = "put"]
  /\ UNCHANGED <<addressVars, configVars, heartbeatSeq, runVars, pgnIn, wakeUp,
                 processVars, stopPc, historyVars, budget, registryVars>>

\* Mutant: the queue grows past its capacity.
EnqueuePutUnbounded ==
  /\ callback # Nil
  /\ callback.at = "put"
  /\ pgnIn' = Append(pgnIn, callback.msg)
  /\ callback' = Nil
  /\ UNCHANGED <<addressVars, configVars, heartbeatSeq, runVars, wakeUp,
                 processVars, stopPc, historyVars, budget, registryVars>>

\* The send on pgnIn does not block: a PGN that finds it full is dropped.
EnqueuePut ==
  /\ callback # Nil
  /\ callback.at = "put"
  /\ pgnIn' = IF Len(pgnIn) < QueueSize THEN Append(pgnIn, callback.msg) ELSE pgnIn
  /\ callback' = Nil
  /\ UNCHANGED <<addressVars, configVars, heartbeatSeq, runVars, wakeUp,
                 processVars, stopPc, historyVars, budget, registryVars>>

-----------------------------------------------------------------------------
(* The process goroutine.                                                  *)

\* A ticker is Nil, "armed", or "fired" with a tick in its channel.
ClaimTick ==
  /\ claimTicker = "armed"
  /\ claimTicker' = "fired"
  /\ UNCHANGED <<addressVars, configVars, heartbeatSeq, runVars, pgnIn, wakeUp, pc,
                 heartbeatTicker, msg, snap, out, ret, otherVars, historyVars, budget,
                 registryVars>>

HeartbeatTick ==
  /\ heartbeatTicker = "armed"
  /\ heartbeatTicker' = "fired"
  /\ UNCHANGED <<addressVars, configVars, heartbeatSeq, runVars, pgnIn, wakeUp, pc,
                 claimTicker, msg, snap, out, ret, otherVars, historyVars, budget,
                 registryVars>>

\* The top of the loop, under the lock.  A claim (re)starts when none is running
\* or when the running one is for another address.
ClaimRestarts == /\ addressState = "Claiming"
                 /\ claimTicker = Nil \/ networkAddress # preferredAddress

HeartbeatStarts == heartbeatEnabled /\ addressClaimed /\ heartbeatTicker = Nil

LoopTop ==
  /\ pc = "top"
  /\ claimTicker' = IF ClaimRestarts THEN "armed"
                    ELSE IF addressState = "Claiming" THEN claimTicker ELSE Nil
  /\ networkAddress' = IF ClaimRestarts THEN preferredAddress ELSE networkAddress
  /\ heartbeatTicker' = IF HeartbeatStarts THEN "armed"
                        ELSE IF heartbeatEnabled /\ addressClaimed
                             THEN heartbeatTicker ELSE Nil
  /\ pc' = IF ClaimRestarts THEN "claim" ELSE IF HeartbeatStarts THEN "beat" ELSE "select"
  /\ ret' = IF ClaimRestarts /\ HeartbeatStarts THEN "beat" ELSE "select"
  /\ UNCHANGED <<preferredAddress, addressClaimed, addressState, readOnly, configVars,
                 heartbeatSeq, runVars, pgnIn, wakeUp, msg, snap, out, otherVars,
                 historyVars, budget, registryVars>>

\* Where the goroutine goes on after a publication.
Return == /\ pc' = ret
          /\ ret' = "select"

\* sendAddressClaim: the snapshot, then the publication.
sendAddressClaim ==
  /\ pc = "claim"
  /\ \/ /\ readOnly
        /\ Return
        /\ UNCHANGED out
     \/ /\ ~readOnly
        /\ out' = networkAddress
        /\ pc' = "publishClaim"
        /\ UNCHANGED ret
  /\ UNCHANGED <<addressVars, configVars, heartbeatSeq, runVars, pgnIn, wakeUp,
                 claimTicker, heartbeatTicker, msg, snap, otherVars, historyVars, budget,
                 registryVars>>

\* An error of publisher.Write is logged and otherwise ignored.
PublishClaim ==
  /\ pc = "publishClaim"
  /\ \/ announced' = out
     \/ WriteMayFail /\ UNCHANGED announced
  /\ out' = Nil
  /\ Return
  /\ UNCHANGED <<addressVars, configVars, heartbeatSeq, runVars, pgnIn, wakeUp,
                 claimTicker, heartbeatTicker, msg, snap, otherVars, won, budget, registryVars>>

\* sendHeartbeat goes through Write and counts a rejected heartbeat too.
sendHeartbeat ==
  /\ pc = "beat"
  /\ \/ /\ readOnly \/ ~addressClaimed
        /\ heartbeatSeq' = (heartbeatSeq + 1) % SeqModulus
        /\ Return
        /\ UNCHANGED out
     \/ /\ write # Nil
        /\ out' = write
        /\ pc' = "publishBeat"
        /\ UNCHANGED <<heartbeatSeq, ret>>
  /\ UNCHANGED <<addressVars, configVars, runVars, pgnIn, wakeUp, claimTicker,
                 heartbeatTicker, msg, snap, otherVars, historyVars, budget, registryVars>>

PublishHeartbeat ==
  /\ pc = "publishBeat"
  /\ out' = Nil
  /\ heartbeatSeq' = (heartbeatSeq + 1) % SeqModulus
  /\ Return
  /\ UNCHANGED <<addressVars, configVars, runVars, pgnIn, wakeUp, claimTicker,
                 heartbeatTicker, msg, snap, otherVars, historyVars, budget, registryVars>>

\* The channels are evaluated once per round, n.ctx.Done() among them.
SelectEnter ==
  /\ pc = "select"
  /\ ctx # Nil
  /\ pc' = "wait"
  /\ UNCHANGED <<addressVars, configVars, heartbeatSeq, runVars, pgnIn, wakeUp, claimTicker,
                 heartbeatTicker, msg, snap, out, ret, otherVars, historyVars, budget,
                 registryVars>>

\* An address claim is taken from the queue: processIsoAddressClaim first
\* updates the registry.
TakeClaim ==
  /\ pc = "wait"
  /\ pgnIn # <<>>
  /\ Head(pgnIn).type = "claim"
  /\ LET m == Head(pgnIn)
     IN  /\ updateKnownDeviceFromClaim(m.src, m.name)
         /\ msg' = m
         /\ announced' = IF m.name < name /\ m.src = announced THEN Nil ELSE announced
  /\ pgnIn' = Tail(pgnIn)
  /\ pc' = "decide"
  /\ UNCHANGED <<addressVars, configVars, heartbeatSeq, runVars, wakeUp, claimTicker,
                 heartbeatTicker, snap, out, ret, otherVars, won, budget>>

\* Product Information, Configuration Information or a PGN List: the registry's
\* handler is all there is to it.
TakeInfo ==
  /\ pc = "wait"
  /\ pgnIn # <<>>
  /\ Head(pgnIn).type = "info"
  /\ LET m == Head(pgnIn) IN ReceiveInfo(m.kind, m.src, m.value)
  /\ pgnIn' = Tail(pgnIn)
  /\ pc' = "top"
  /\ UNCHANGED <<addressVars, configVars, heartbeatSeq, runVars, wakeUp, claimTicker,
                 heartbeatTicker, msg, snap, out, ret, otherVars, historyVars, budget>>

\* Mutant: contention is looked at only once the address is claimed.
processIsoAddressClaimWhenClaimed ==
  /\ pc = "decide"
  /\ IF addressState = "Claimed" /\ msg.src = networkAddress /\ msg.name < name
     THEN pc' = "yield" /\ snap' = networkAddress
     ELSE pc' = "top" /\ UNCHANGED snap
  /\ msg' = Nil
  /\ UNCHANGED <<addressVars, configVars, heartbeatSeq, runVars, pgnIn, wakeUp, claimTicker,
                 heartbeatTicker, out, ret, otherVars, historyVars, budget, registryVars>>

\* Its read-locked snapshot: a claim to our address is yielded to or answered.
processIsoAddressClaim ==
  /\ pc = "decide"
  /\ IF addressState \in {"Claiming", "Claimed"} /\ msg.src = networkAddress
     THEN IF msg.name < name
          THEN /\ pc' = "yield"
               /\ snap' = networkAddress
               /\ UNCHANGED ret
          ELSE /\ pc' = "claim"
               /\ ret' = "top"
               /\ UNCHANGED snap
     ELSE /\ pc' = "top"
          /\ UNCHANGED <<snap, ret>>
  /\ msg' = Nil
  /\ UNCHANGED <<addressVars, configVars, heartbeatSeq, runVars, pgnIn, wakeUp, claimTicker,
                 heartbeatTicker, out, otherVars, historyVars, budget, registryVars>>

\* The address the node retries after losing `lost`: Nil when it may not choose
\* one or none is left.
RetryAddress(lost) ==
  IF name >= TopBit THEN nextAvailableAddressLocked(lost) ELSE Nil

\* Its write-locked region.  What it decided from may have changed since.
YieldAddress ==
  /\ pc = "yield"
  /\ addressClaimed' = FALSE
  /\ \/ /\ RetryAddress(snap) # Nil
        /\ preferredAddress' = RetryAddress(snap)
        /\ addressState' = "Claiming"
        /\ UNCHANGED networkAddress
     \/ /\ RetryAddress(snap) = Nil
        /\ addressState' = "Lost"
        /\ networkAddress' = GlobalAddress
        /\ UNCHANGED preferredAddress
  /\ wakeUp' = TRUE
  /\ snap' = Nil
  /\ pc' = "top"
  /\ UNCHANGED <<readOnly, configVars, heartbeatSeq, runVars, pgnIn, claimTicker,
                 heartbeatTicker, msg, out, ret, otherVars, historyVars, budget, registryVars>>

\* A commanded address: the snapshot decides whether it is for this node.
TakeCommand ==
  /\ pc = "wait"
  /\ pgnIn # <<>>
  /\ Head(pgnIn).type = "command"
  /\ LET m == Head(pgnIn)
     IN  IF ~readOnly /\ m.name = name % TopBit /\ m.new # Nil
         THEN pc' = "command" /\ msg' = m
         ELSE pc' = "top" /\ UNCHANGED msg
  /\ pgnIn' = Tail(pgnIn)
  /\ UNCHANGED <<addressVars, configVars, heartbeatSeq, runVars, wakeUp, claimTicker,
                 heartbeatTicker, snap, out, ret, otherVars, historyVars, budget, registryVars>>

\* Mutant: the node may go on writing while it claims the commanded address.
processIsoCommandedAddressStillClaimed ==
  /\ pc = "command"
  /\ preferredAddress' = msg.new
  /\ addressState' = "Claiming"
  /\ msg' = Nil
  /\ pc' = "top"
  /\ UNCHANGED <<networkAddress, addressClaimed, readOnly, configVars, heartbeatSeq, runVars,
                 pgnIn, wakeUp, claimTicker, heartbeatTicker, snap, out, ret, otherVars,
                 historyVars, budget, registryVars>>

processIsoCommandedAddress ==
  /\ pc = "command"
  /\ preferredAddress' = msg.new
  /\ addressState' = "Claiming"
  /\ addressClaimed' = FALSE
  /\ msg' = Nil
  /\ pc' = "top"
  /\ UNCHANGED <<networkAddress, readOnly, configVars, heartbeatSeq, runVars, pgnIn, wakeUp,
                 claimTicker, heartbeatTicker, snap, out, ret, otherVars, historyVars,
                 budget, registryVars>>

\* The claim timeout.
TakeClaimTick ==
  /\ pc = "wait"
  /\ claimTicker = "fired"
  /\ claimTicker' = "armed"
  /\ \/ /\ addressState = "Claiming"
        /\ addressState' = "Claimed"
        /\ addressClaimed' = TRUE
        /\ won' = networkAddress
     \/ /\ addressState # "Claiming"
        /\ UNCHANGED <<addressState, addressClaimed, won>>
  /\ pc' = "top"
  /\ UNCHANGED <<networkAddress, preferredAddress, readOnly, configVars, heartbeatSeq,
                 runVars, pgnIn, wakeUp, heartbeatTicker, msg, snap, out, ret,
                 otherVars, announced, budget, registryVars>>

TakeHeartbeatTick ==
  /\ pc = "wait"
  /\ heartbeatTicker = "fired"
  /\ heartbeatTicker' = "armed"
  /\ pc' = "beat"
  /\ ret' = "top"
  /\ UNCHANGED <<addressVars, configVars, heartbeatSeq, runVars, pgnIn, wakeUp, claimTicker,
                 msg, snap, out, otherVars, historyVars, budget, registryVars>>

TakeWakeUp ==
  /\ pc = "wait"
  /\ wakeUp
  /\ wakeUp' = FALSE
  /\ pc' = "top"
  /\ UNCHANGED <<addressVars, configVars, heartbeatSeq, runVars, pgnIn, claimTicker,
                 heartbeatTicker, msg, snap, out, ret, otherVars, historyVars, budget,
                 registryVars>>

\* The context is done: both tickers are stopped and the goroutine returns.
TakeDone ==
  /\ pc = "wait"
  /\ ctx = "done"
  /\ pc' = "off"
  /\ claimTicker' = Nil
  /\ heartbeatTicker' = Nil
  /\ UNCHANGED <<addressVars, configVars, heartbeatSeq, runVars, pgnIn, wakeUp, msg, snap,
                 out, ret, otherVars, historyVars, budget, registryVars>>

-----------------------------------------------------------------------------

Process ==
  \/ LoopTop \/ sendAddressClaim \/ PublishClaim \/ sendHeartbeat \/ PublishHeartbeat
  \/ SelectEnter \/ TakeClaim \/ TakeInfo \/ processIsoAddressClaim \/ YieldAddress
  \/ TakeCommand \/ processIsoCommandedAddress \/ TakeClaimTick \/ TakeHeartbeatTick
  \/ TakeWakeUp \/ TakeDone

Application ==
  \/ \E n \in OwnNames : SetDeviceInfo(n)
  \/ \E a \in AppAddresses : ClaimAddress(a)
  \/ \E b \in BOOLEAN : EnableHeartbeat(b)
  \/ SetHeartbeatInterval
  \/ Start
  \/ \E s \in Stoppers : StopBegin(s)

FinishStop == \E s \in Stoppers : StopWaited(s) \/ StopReset(s)

Enqueue == EnqueueCheck \/ EnqueueDone \/ EnqueuePut

Next ==
  \/ Process
  \/ Application
  \/ FinishStop
  \/ \E m \in Messages : CallbackBegin(m)
  \/ Enqueue
  \/ ClaimTick
  \/ HeartbeatTick

Spec == Init /\ [][Next]_vars

\* The goroutines run and the claim ticker ticks.  When several channels are ready Go
\* picks one at random, so a ready one is not passed over for ever: the
\* claim ticker and the context need strong fairness.  Nothing obliges the
\* application to call or the bus to deliver.
Fairness ==
  /\ WF_vars(Process)
  /\ WF_vars(FinishStop)
  /\ WF_vars(Enqueue)
  /\ WF_vars(ClaimTick)
  /\ SF_vars(TakeClaimTick)
  /\ SF_vars(TakeDone)

FairSpec == Spec /\ Fairness

-----------------------------------------------------------------------------
(* Properties.                                                             *)

AddressStates == {"Unclaimed", "Claiming", "Claimed", "Lost"}
Pcs == {"off", "top", "claim", "publishClaim", "beat", "publishBeat", "select", "wait",
        "decide", "yield", "command"}
Tickers == {Nil, "armed", "fired"}

FlagsOK ==
  /\ addressClaimed \in BOOLEAN
  /\ readOnly \in BOOLEAN
  /\ deviceInfoSet \in BOOLEAN
  /\ heartbeatEnabled \in BOOLEAN
  /\ started \in BOOLEAN
  /\ subscribed \in BOOLEAN
  /\ wakeUp \in BOOLEAN

FieldsOK ==
  /\ networkAddress \in Address
  /\ preferredAddress \in Address
  /\ addressState \in AddressStates
  /\ name \in OwnNames \cup {0}
  /\ heartbeatSeq \in 0..(SeqModulus - 1)
  /\ ctx \in {Nil, "live", "done"}
  /\ announced \in Address \cup {Nil}
  /\ won \in Address \cup {Nil}

ProcessOK ==
  /\ pc \in Pcs
  /\ claimTicker \in Tickers
  /\ heartbeatTicker \in Tickers
  /\ msg \in Messages \cup {Nil}
  /\ pc = "decide" => msg \in Messages /\ msg.type = "claim"
  /\ pc = "command" => msg \in Messages /\ msg.type = "command" /\ msg.new # Nil
  /\ snap \in Address \cup {Nil}
  /\ (pc = "yield") = (snap # Nil)
  /\ out \in Address \cup {Nil}
  /\ (pc \in {"publishClaim", "publishBeat"}) = (out # Nil)
  /\ ret \in {"top", "beat", "select"}

CallersOK ==
  /\ stopPc \in [Stoppers -> {"idle", "wait", "reset"}]
  /\ callback \in [msg : Messages, at : {"check", "done", "put"}] \cup {Nil}
  /\ pgnIn \in Seq(Messages)
  /\ Len(pgnIn) <= QueueSize
  /\ budget \in [{"claim", "config", "start", "message"} -> Nat]

\* The fields, channels and locals hold values of their types, pgnIn never
\* exceeds its capacity, and the locals of the process goroutine are set exactly
\* where it uses them.
TypeOK == RegistryTypeOK /\ FlagsOK /\ FieldsOK /\ ProcessOK /\ CallersOK

\* A node that has no address, because it never claimed one, was put in
\* read-only mode, was stopped, or lost one, keeps no source address and no
\* permission to write, however the calls and the handlers interleave; and a
\* claimed state always comes with that permission.
NoAddressNoWrites ==
  /\ addressState \in {"Unclaimed", "Lost"} =>
       networkAddress = GlobalAddress /\ ~addressClaimed
  /\ addressState = "Claimed" => addressClaimed

\* A claimed address is usable, is the one asked for last, by the application, a
\* command or the search for a free one, and is one the node has announced on the
\* bus after the last lower-NAME claim to it that the node has taken from its queue
\* (while that claim is being handled the node may still be claimed).
ClaimedIsAnnounced ==
  addressState = "Claimed" =>
    /\ networkAddress = preferredAddress
    /\ networkAddress \in Usable
    /\ pc \notin {"decide", "yield"} => announced = networkAddress

\* Application PGNs and heartbeats leave only from an address whose claim has
\* run its time, not from one whose claim is still running.
WritesFromWonAddress == write # Nil => write = won

\* In read-only mode the node holds no address and claims none.  This does not
\* hold: a handler that decided before ClaimAddress(ReadOnlyAddress) writes after it.
ReadOnlyIsPassive == readOnly => addressState = "Unclaimed" /\ ~addressClaimed

\* A stopped node has no process goroutine, and a running one has its context:
\* process dereferences n.ctx on every round.
StoppedMeansExited ==
  /\ ~started => pc = "off" /\ ctx = Nil
  /\ pc # "off" => ctx # Nil

\* A callback that has seen a context finds one when it dereferences it.  This
\* does not hold: Stop may reset the context in between.
CallbackFindsContext == callback # Nil /\ callback.at = "done" => ctx # Nil

\* A claim ends: the address is claimed, lost or given up, or the node stops.
ClaimResolves == [](started /\ addressState = "Claiming"
                    => <>(~started \/ addressState # "Claiming"))

\* Stop returns.
StopReturns == \A s \in Stoppers : [](stopPc[s] = "wait" => <>(stopPc[s] = "idle"))
=============================================================================
