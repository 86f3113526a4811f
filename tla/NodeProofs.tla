----------------------------- MODULE NodeProofs -----------------------------
(***************************************************************************)
(* Theorems about modules Node and NodeRequests, for any number of         *)
(* addresses, NAMEs, callers of Stop, calls and messages, and for every    *)
(* set of requests, configurations and edits.                              *)
(***************************************************************************)
EXTENDS NodeRequests, NodeRegistryProofs, SequenceTheorems, FiniteSetTheorems,
        FunctionTheorems

\* What the fields of a queued PGN are.
LEMMA MessageFacts ==
  ASSUME NEW m \in Messages
  PROVE  /\ m.type \in {"claim", "command", "info"}
         /\ m.type = "claim" => m.src \in ClaimSources /\ m.name \in Names
         /\ m.type = "info" => m.kind \in Kinds /\ m.src \in InfoSources /\ m.value \in Values
         /\ m.type = "command" => m.new \in CommandAddresses
BY DEF Messages

-----------------------------------------------------------------------------
(* Type correctness.  RegistryTypeOK is kept whole: only TakeClaim and     *)
(* TakeInfo touch the registry.                                            *)

\* The initial state is well typed.
LEMMA InitType == Init => TypeOK
<1> SUFFICES ASSUME Init PROVE TypeOK
  OBVIOUS
<1>1. RegistryTypeOK
  BY RegistryInitInv DEF Init, RegistryInv
<1>2. FlagsOK
  BY Zenon DEF Init, FlagsOK
<1>3. FieldsOK
  BY AddressFacts, NodeAssumption DEF Init, FieldsOK, AddressStates
<1>4. ProcessOK
  BY DEF Init, ProcessOK, Pcs, Tickers
<1>5. CallersOK
  BY NodeAssumption DEF Init, CallersOK
<1> QED
  BY <1>1, <1>2, <1>3, <1>4, <1>5 DEF TypeOK

\* The steps of the process goroutine keep the types.
LEMMA ProcessType == ASSUME TypeOK, Process PROVE TypeOK'
<1> USE NodeAssumption, AddressFacts
    DEF TypeOK, FlagsOK, FieldsOK, ProcessOK, CallersOK, AddressStates, Pcs, Tickers,
        addressVars, configVars, runVars, processVars, otherVars, historyVars
<1>0. UNCHANGED registryVars => RegistryTypeOK'
  BY DEF registryVars, RegistryTypeOK
<1>1. CASE LoopTop
  BY <1>0, <1>1 DEF LoopTop, ClaimRestarts, HeartbeatStarts
<1>2. CASE sendAddressClaim
  BY <1>0, <1>2 DEF sendAddressClaim, Return
<1>3. CASE PublishClaim
  BY <1>0, <1>3 DEF PublishClaim, Return
<1>4. CASE sendHeartbeat
  <2>1. FlagsOK'
    BY <1>4, Zenon DEF sendHeartbeat, Return, write
  <2>2. FieldsOK'
    BY <1>4 DEF sendHeartbeat, Return, write
  <2>3. ProcessOK'
    BY <1>4 DEF sendHeartbeat, Return, write
  <2>4. CallersOK'
    BY <1>4 DEF sendHeartbeat, Return, write
  <2>5. RegistryTypeOK'
    BY <1>0, <1>4, Zenon DEF sendHeartbeat, Return, write
  <2> HIDE DEF FlagsOK, FieldsOK, ProcessOK, CallersOK
  <2> QED
    BY <2>1, <2>2, <2>3, <2>4, <2>5 DEF TypeOK
<1>5. CASE PublishHeartbeat
  BY <1>0, <1>5 DEF PublishHeartbeat, Return
<1>6. CASE SelectEnter
  BY <1>0, <1>6 DEF SelectEnter
<1>7. CASE TakeClaim
  <2>1. /\ Head(pgnIn) \in Messages
        /\ Tail(pgnIn) \in Seq(Messages)
        /\ Len(Tail(pgnIn)) <= QueueSize
    BY <1>7 DEF TakeClaim
  <2>2. Head(pgnIn).src \in Address /\ Head(pgnIn).name \in Names
    BY <1>7, <2>1, MessageFacts, RegistryAssumption DEF TakeClaim
  <2>3. RegistryTypeOK'
    BY <1>7, <2>2, ClaimKeepsTypes DEF TakeClaim
  <2> QED
    BY <2>3, <1>7, <2>1 DEF TakeClaim
<1>8. CASE processIsoAddressClaim
  <2>1. FlagsOK'
    BY <1>8, Zenon DEF processIsoAddressClaim
  <2>2. FieldsOK'
    BY <1>8, Zenon DEF processIsoAddressClaim
  <2>3. ProcessOK'
    BY <1>8 DEF processIsoAddressClaim
  <2>4. CallersOK'
    BY <1>8 DEF processIsoAddressClaim
  <2>5. RegistryTypeOK'
    BY <1>0, <1>8, Zenon DEF processIsoAddressClaim
  <2> HIDE DEF FlagsOK, FieldsOK, ProcessOK, CallersOK
  <2> QED
    BY <2>1, <2>2, <2>3, <2>4, <2>5 DEF TypeOK
<1>9. CASE YieldAddress
  <2>1. RetryAddress(snap) \in Usable \cup {Nil}
    BY <1>9, NextAvailable DEF RetryAddress, YieldAddress
  <2>2. FlagsOK'
    BY <1>9, Zenon DEF YieldAddress
  <2>3. (FieldsOK /\ ProcessOK /\ CallersOK)'
    BY <1>9, <2>1 DEF YieldAddress
  <2> QED
    BY <1>0, <1>9, <2>2, <2>3 DEF YieldAddress
<1>10. CASE TakeCommand
  <2>1. /\ Head(pgnIn) \in Messages
        /\ Tail(pgnIn) \in Seq(Messages)
        /\ Len(Tail(pgnIn)) <= QueueSize
    BY <1>10 DEF TakeCommand
  <2>2. FlagsOK'
    BY <1>10, Zenon DEF TakeCommand
  <2>3. FieldsOK'
    BY <1>10, <2>1 DEF TakeCommand
  <2>4. ProcessOK'
    <3>1. /\ pc = "wait"
          /\ \/ /\ pc' = "command" /\ msg' = Head(pgnIn)
                /\ Head(pgnIn).type = "command" /\ Head(pgnIn).new # Nil
             \/ pc' = "top" /\ UNCHANGED msg
          /\ UNCHANGED <<claimTicker, heartbeatTicker, snap, out, ret>>
      BY <1>10, Zenon DEF TakeCommand
    <3> QED
      BY <2>1, <3>1
  <2>5. CallersOK'
    BY <1>10, <2>1 DEF TakeCommand
  <2>6. RegistryTypeOK'
    BY <1>0, <1>10, Zenon DEF TakeCommand
  <2> HIDE DEF FlagsOK, FieldsOK, ProcessOK, CallersOK
  <2> QED
    BY <2>2, <2>3, <2>4, <2>5, <2>6 DEF TypeOK
<1>11. CASE processIsoCommandedAddress
  <2>1. msg.new \in Address
    BY <1>11, MessageFacts DEF processIsoCommandedAddress
  <2>2. FlagsOK'
    BY <1>11, Zenon DEF processIsoCommandedAddress
  <2>3. (FieldsOK /\ ProcessOK /\ CallersOK)'
    BY <1>11, <2>1 DEF processIsoCommandedAddress
  <2> QED
    BY <1>0, <1>11, <2>2, <2>3 DEF processIsoCommandedAddress
<1>12. CASE TakeClaimTick
  <2>1. FlagsOK'
    BY <1>12, Zenon DEF TakeClaimTick
  <2>2. (FieldsOK /\ ProcessOK /\ CallersOK)'
    BY <1>12 DEF TakeClaimTick
  <2> QED
    BY <1>0, <1>12, <2>1, <2>2 DEF TakeClaimTick
<1>13. CASE TakeHeartbeatTick
  BY <1>0, <1>13 DEF TakeHeartbeatTick
<1>14. CASE TakeWakeUp
  <2>1. FlagsOK'
    BY <1>14, Zenon DEF TakeWakeUp
  <2>2. (FieldsOK /\ ProcessOK /\ CallersOK)'
    BY <1>14 DEF TakeWakeUp
  <2> QED
    BY <1>0, <1>14, <2>1, <2>2 DEF TakeWakeUp
<1>15. CASE TakeDone
  BY <1>0, <1>15 DEF TakeDone
<1>16. CASE TakeInfo
  <2>1. /\ Head(pgnIn) \in Messages
        /\ Tail(pgnIn) \in Seq(Messages)
        /\ Len(Tail(pgnIn)) <= QueueSize
    BY <1>16 DEF TakeInfo
  <2>2. Head(pgnIn).kind \in Kinds /\ Head(pgnIn).src \in Address /\ Head(pgnIn).value \in Values
    BY <1>16, <2>1, MessageFacts, RegistryAssumption DEF TakeInfo
  <2>3. RegistryTypeOK'
    BY <1>16, <2>2, InfoKeepsTypes DEF TakeInfo
  <2> QED
    BY <2>3, <1>16, <2>1 DEF TakeInfo
<1> QED
  BY <1>1, <1>2, <1>3, <1>4, <1>5, <1>6, <1>7, <1>8, <1>9, <1>10, <1>11, <1>12, <1>13, <1>14, <1>15, <1>16 DEF Process

\* So do the steps of everyone else.
LEMMA OtherType ==
  ASSUME TypeOK,
         \/ Application \/ FinishStop \/ Enqueue \/ ClaimTick \/ HeartbeatTick
         \/ \E m \in Messages : CallbackBegin(m)
  PROVE  TypeOK'
<1> USE NodeAssumption, AddressFacts
    DEF TypeOK, FlagsOK, FieldsOK, ProcessOK, CallersOK, AddressStates, Pcs, Tickers,
        addressVars, configVars, runVars, processVars, otherVars, historyVars
<1>0. UNCHANGED registryVars => RegistryTypeOK'
  BY DEF registryVars, RegistryTypeOK
<1>1. CASE \E n \in OwnNames : SetDeviceInfo(n)
  <2>1. FlagsOK'
    BY <1>1, Zenon DEF SetDeviceInfo
  <2>2. (FieldsOK /\ ProcessOK /\ CallersOK)'
    BY <1>1 DEF SetDeviceInfo
  <2> QED
    BY <1>0, <1>1, <2>1, <2>2 DEF SetDeviceInfo
<1>2. CASE \E a \in AppAddresses : ClaimAddress(a)
  <2>1. FlagsOK'
    BY <1>2, Zenon DEF ClaimAddress, Spend
  <2>2. FieldsOK'
    BY <1>2 DEF ClaimAddress, Spend
  <2>3. ProcessOK'
    <3>1. UNCHANGED processVars
      BY <1>2 DEF ClaimAddress
    <3> QED
      BY <3>1
  <2>4. CallersOK'
    BY <1>2 DEF ClaimAddress, Spend
  <2>5. RegistryTypeOK'
    BY <1>0, <1>2, Zenon DEF ClaimAddress, Spend
  <2> HIDE DEF FlagsOK, FieldsOK, ProcessOK, CallersOK
  <2> QED
    BY <2>1, <2>2, <2>3, <2>4, <2>5 DEF TypeOK
<1>3. CASE \E b \in BOOLEAN : EnableHeartbeat(b)
  <2>1. FlagsOK'
    BY <1>3, Zenon DEF EnableHeartbeat, Spend
  <2>2. FieldsOK'
    BY <1>3 DEF EnableHeartbeat, Spend
  <2>3. ProcessOK'
    BY <1>3 DEF EnableHeartbeat, Spend
  <2>4. CallersOK'
    BY <1>3 DEF EnableHeartbeat, Spend
  <2>5. RegistryTypeOK'
    BY <1>0, <1>3, Zenon DEF EnableHeartbeat, Spend
  <2> HIDE DEF FlagsOK, FieldsOK, ProcessOK, CallersOK
  <2> QED
    BY <2>1, <2>2, <2>3, <2>4, <2>5 DEF TypeOK
<1>4. CASE SetHeartbeatInterval
  <2>1. FlagsOK'
    BY <1>4, Zenon DEF SetHeartbeatInterval, Spend
  <2>2. FieldsOK'
    BY <1>4 DEF SetHeartbeatInterval, Spend
  <2>3. ProcessOK'
    BY <1>4 DEF SetHeartbeatInterval, Spend
  <2>4. CallersOK'
    BY <1>4 DEF SetHeartbeatInterval, Spend
  <2>5. RegistryTypeOK'
    BY <1>0, <1>4, Zenon DEF SetHeartbeatInterval, Spend
  <2> HIDE DEF FlagsOK, FieldsOK, ProcessOK, CallersOK
  <2> QED
    BY <2>1, <2>2, <2>3, <2>4, <2>5 DEF TypeOK
<1>5. CASE Start
  <2>1. FlagsOK'
    BY <1>5, Zenon DEF Start, Spend
  <2>2. FieldsOK'
    BY <1>5 DEF Start, Spend
  <2>3. ProcessOK'
    BY <1>5 DEF Start, Spend
  <2>4. CallersOK'
    BY <1>5 DEF Start, Spend
  <2>5. RegistryTypeOK'
    BY <1>0, <1>5, Zenon DEF Start, Spend
  <2> HIDE DEF FlagsOK, FieldsOK, ProcessOK, CallersOK
  <2> QED
    BY <2>1, <2>2, <2>3, <2>4, <2>5 DEF TypeOK
<1>6. CASE \E s \in Stoppers : StopBegin(s)
  <2>1. FlagsOK'
    BY <1>6, Zenon DEF StopBegin
  <2>2. (FieldsOK /\ ProcessOK /\ CallersOK)'
    BY <1>6 DEF StopBegin
  <2> QED
    BY <1>0, <1>6, <2>1, <2>2 DEF StopBegin
<1>7. CASE \E s \in Stoppers : StopWaited(s)
  BY <1>0, <1>7 DEF StopWaited
<1>8. CASE \E s \in Stoppers : StopReset(s)
  <2>1. FlagsOK'
    BY <1>8, Zenon DEF StopReset
  <2>2. (FieldsOK /\ ProcessOK /\ CallersOK)'
    BY <1>8 DEF StopReset
  <2> QED
    BY <1>0, <1>8, <2>1, <2>2 DEF StopReset
<1>9. CASE \E m \in Messages : CallbackBegin(m)
  <2>1. FlagsOK'
    BY <1>9, Zenon DEF CallbackBegin, Spend
  <2>2. FieldsOK'
    BY <1>9 DEF CallbackBegin, Spend
  <2>3. ProcessOK'
    BY <1>9 DEF CallbackBegin, Spend
  <2>4. CallersOK'
    <3>1. PICK m \in Messages :
            /\ callback' = [msg |-> m, at |-> "check"]
            /\ budget["message"] > 0
            /\ budget' = [budget EXCEPT !["message"] = @ - 1]
            /\ UNCHANGED <<stopPc, pgnIn>>
      BY <1>9, Zenon DEF CallbackBegin, Spend
    <3>2. callback' \in [msg : Messages, at : {"check", "done", "put"}]
      BY <3>1
    <3>3. budget' \in [{"claim", "config", "start", "message"} -> Nat]
      BY <3>1
    <3> QED
      BY <3>1, <3>2, <3>3
  <2>5. RegistryTypeOK'
    BY <1>0, <1>9, Zenon DEF CallbackBegin, Spend
  <2> HIDE DEF FlagsOK, FieldsOK, ProcessOK, CallersOK
  <2> QED
    BY <2>1, <2>2, <2>3, <2>4, <2>5 DEF TypeOK
<1>10. CASE EnqueueCheck
  <2>1. FlagsOK'
    BY <1>10, Zenon DEF EnqueueCheck
  <2>2. FieldsOK'
    BY <1>10 DEF EnqueueCheck
  <2>3. ProcessOK'
    BY <1>10 DEF EnqueueCheck
  <2>4. CallersOK'
    BY <1>10 DEF EnqueueCheck
  <2>5. RegistryTypeOK'
    BY <1>0, <1>10, Zenon DEF EnqueueCheck
  <2> HIDE DEF FlagsOK, FieldsOK, ProcessOK, CallersOK
  <2> QED
    BY <2>1, <2>2, <2>3, <2>4, <2>5 DEF TypeOK
<1>11. CASE EnqueueDone
  <2>1. FlagsOK'
    BY <1>11, Zenon DEF EnqueueDone
  <2>2. FieldsOK'
    BY <1>11 DEF EnqueueDone
  <2>3. ProcessOK'
    BY <1>11 DEF EnqueueDone
  <2>4. CallersOK'
    BY <1>11 DEF EnqueueDone
  <2>5. RegistryTypeOK'
    BY <1>0, <1>11, Zenon DEF EnqueueDone
  <2> HIDE DEF FlagsOK, FieldsOK, ProcessOK, CallersOK
  <2> QED
    BY <2>1, <2>2, <2>3, <2>4, <2>5 DEF TypeOK
<1>12. CASE EnqueuePut
  BY <1>0, <1>12 DEF EnqueuePut
<1>13. CASE ClaimTick
  BY <1>0, <1>13 DEF ClaimTick
<1>14. CASE HeartbeatTick
  BY <1>0, <1>14 DEF HeartbeatTick
<1> QED
  BY <1>1, <1>2, <1>3, <1>4, <1>5, <1>6, <1>7, <1>8, <1>9, <1>10, <1>11, <1>12, <1>13, <1>14 DEF Application, FinishStop, Enqueue

\* In every execution all fields, channels and locals of the node keep their
\* types and pgnIn stays within its capacity.
THEOREM TypeCorrectness == Spec => []TypeOK
<1>1. TypeOK /\ [Next]_vars => TypeOK'
  <2> SUFFICES ASSUME TypeOK, [Next]_vars PROVE TypeOK'
    OBVIOUS
  <2>1. CASE Next
    BY <2>1, ProcessType, OtherType DEF Next
  <2>2. CASE UNCHANGED vars
    BY <2>2 DEF vars, TypeOK, RegistryTypeOK, FlagsOK, FieldsOK, ProcessOK, CallersOK,
                addressVars, configVars, runVars, processVars, otherVars, historyVars,
                registryVars
  <2> QED
    BY <2>1, <2>2
<1> QED
  BY <1>1, InitType, PTL DEF Spec

-----------------------------------------------------------------------------
(* Safety.                                                                 *)

\* A node without an address holds no source address and may not write, for any
\* interleaving of ClaimAddress, Stop, claims, commands and timeouts.
THEOREM NoAddressNoWritesHolds == Spec => []NoAddressNoWrites
<1> USE DEF NoAddressNoWrites, addressVars
<1>1. Init => NoAddressNoWrites
  BY DEF Init
<1>2. ASSUME TypeOK, NoAddressNoWrites, [Next]_vars
      PROVE  NoAddressNoWrites'
  <2>1. CASE UNCHANGED addressVars
    BY <1>2, <2>1
  <2>2. CASE \E a \in AppAddresses : ClaimAddress(a)
    BY <1>2, <2>2 DEF ClaimAddress
  <2>3. CASE \E s \in Stoppers : StopReset(s)
    BY <2>3 DEF StopReset
  <2>4. CASE LoopTop
    BY <1>2, <2>4 DEF LoopTop, ClaimRestarts
  <2>5. CASE YieldAddress
    BY <2>5 DEF YieldAddress
  <2>6. CASE processIsoCommandedAddress
    BY <2>6 DEF processIsoCommandedAddress
  <2>7. CASE TakeClaimTick
    BY <1>2, <2>7 DEF TakeClaimTick
  <2>8. \/ UNCHANGED addressVars
        \/ \E a \in AppAddresses : ClaimAddress(a)
        \/ \E s \in Stoppers : StopReset(s)
        \/ LoopTop \/ YieldAddress \/ processIsoCommandedAddress \/ TakeClaimTick
    BY <1>2, Zenon
    DEF vars, Next, Process, Application, FinishStop, Enqueue, SetDeviceInfo,
        EnableHeartbeat, SetHeartbeatInterval, Start, StopBegin, StopWaited,
        CallbackBegin, EnqueueCheck, EnqueueDone, EnqueuePut, ClaimTick, HeartbeatTick,
        sendAddressClaim, PublishClaim, sendHeartbeat, PublishHeartbeat, SelectEnter,
        TakeClaim, TakeInfo, processIsoAddressClaim, TakeCommand, TakeHeartbeatTick, TakeWakeUp,
        TakeDone
  <2> QED
    BY <2>1, <2>2, <2>3, <2>4, <2>5, <2>6, <2>7, <2>8
<1> QED
  BY <1>1, <1>2, TypeCorrectness, PTL DEF Spec

\* With one caller of Stop: its context lives from Start to the end of Stop, is
\* cancelled once Stop has begun, and the goroutine is gone when Stop resets.
StopInv ==
  /\ started = (ctx # Nil)
  /\ pc # "off" => started
  /\ \A s \in Stoppers : /\ stopPc[s] = "wait" => ctx = "done"
                         /\ stopPc[s] = "reset" => started /\ pc = "off"

\* Nil is none of the context's states.
LEMMA NilIsNoState == Nil # "live" /\ Nil # "done"
BY NodeAssumption

\* Only one goroutine calls Stop.
OneStopper == \A s, t \in Stoppers : s = t

\* With one caller of Stop every step keeps StopInv.
LEMMA StopStep ==
  ASSUME OneStopper, StopInv, [Next]_vars,
         stopPc \in [Stoppers -> {"idle", "wait", "reset"}]
  PROVE  StopInv'
<1> USE DEF StopInv, OneStopper, runVars, processVars, otherVars
<1>1. CASE UNCHANGED <<runVars, pc, stopPc>>
  BY <1>1
<1>2. CASE Start
  BY <1>2, NilIsNoState DEF Start
<1>3. CASE \E s \in Stoppers : StopBegin(s)
  BY <1>3, NilIsNoState DEF StopBegin
<1>4. CASE \E s \in Stoppers : StopWaited(s)
  BY <1>4, NilIsNoState DEF StopWaited
<1>5. CASE \E s \in Stoppers : StopReset(s)
  BY <1>5 DEF StopReset
<1>6. CASE pc # "off" /\ UNCHANGED <<runVars, stopPc>>
  BY <1>6
<1>7. \/ UNCHANGED <<runVars, pc, stopPc>>
      \/ Start
      \/ \E s \in Stoppers : StopBegin(s) \/ StopWaited(s) \/ StopReset(s)
      \/ pc # "off" /\ UNCHANGED <<runVars, stopPc>>
  BY Zenon
  DEF vars, Next, Process, Application, FinishStop, Enqueue, SetDeviceInfo,
      ClaimAddress, EnableHeartbeat, SetHeartbeatInterval,
      CallbackBegin, EnqueueCheck, EnqueueDone, EnqueuePut, ClaimTick, HeartbeatTick,
      LoopTop, sendAddressClaim, PublishClaim, sendHeartbeat, PublishHeartbeat,
      SelectEnter, TakeClaim, TakeInfo, processIsoAddressClaim, YieldAddress, TakeCommand,
      processIsoCommandedAddress, TakeClaimTick, TakeHeartbeatTick, TakeWakeUp,
      TakeDone
<1> QED
  BY <1>1, <1>2, <1>3, <1>4, <1>5, <1>6, <1>7

\* Before the first Start there is neither a context nor a goroutine.
LEMMA StopInit == Init => StopInv
BY DEF Init, StopInv

\* If Stop is never called by two goroutines at once, a stopped node has no
\* process goroutine and a running one never loses its context.
THEOREM StopWaitsForProcess ==
  ASSUME OneStopper
  PROVE  Spec => []StoppedMeansExited
<1>1. TypeOK /\ StopInv /\ [Next]_vars => StopInv'
  BY StopStep DEF TypeOK, CallersOK
<1>2. StopInv => StoppedMeansExited
  BY DEF StopInv, StoppedMeansExited
<1> QED
  BY <1>1, <1>2, StopInit, TypeCorrectness, PTL DEF Spec

-----------------------------------------------------------------------------
(* Composition.                                                            *)

\* Within the node the registry sees the claims and the information messages of its
\* own module, and nothing else.
LEMMA RegistrySteps == ASSUME TypeOK, [Next]_vars PROVE [RegistryNext]_registryVars
<1>1. CASE TakeClaim
  <2> DEFINE m == Head(pgnIn)
  <2>1. m \in Messages /\ m.type = "claim" /\ updateKnownDeviceFromClaim(m.src, m.name)
    BY <1>1 DEF TakeClaim, TypeOK, CallersOK
  <2>2. m.src \in ClaimSources /\ m.src \in Address /\ m.name \in Names
    BY <2>1, MessageFacts, RegistryAssumption
  <2>3. ReceiveClaim(m.src, m.name)
    BY <2>1, <2>2 DEF ReceiveClaim
  <2> QED
    BY <2>2, <2>3 DEF RegistryNext
<1>2. CASE TakeInfo
  <2> DEFINE m == Head(pgnIn)
  <2>1. m \in Messages /\ m.type = "info" /\ ReceiveInfo(m.kind, m.src, m.value)
    BY <1>2 DEF TakeInfo, TypeOK, CallersOK
  <2>2. m.kind \in Kinds /\ m.src \in Address /\ m.value \in Values
    BY <2>1, MessageFacts, RegistryAssumption
  <2> QED
    BY <2>1, <2>2 DEF RegistryNext
<1>3. TakeClaim \/ TakeInfo \/ UNCHANGED registryVars
  BY Zenon
  DEF vars, Next, Process, Application, FinishStop, Enqueue, SetDeviceInfo,
      ClaimAddress, EnableHeartbeat, SetHeartbeatInterval, Start, StopBegin,
      StopWaited, StopReset, CallbackBegin, EnqueueCheck, EnqueueDone, EnqueuePut,
      ClaimTick, HeartbeatTick, LoopTop, sendAddressClaim, PublishClaim,
      sendHeartbeat, PublishHeartbeat, SelectEnter, processIsoAddressClaim,
      YieldAddress, TakeCommand, processIsoCommandedAddress, TakeClaimTick,
      TakeHeartbeatTick, TakeWakeUp, TakeDone
<1> QED
  BY <1>1, <1>2, <1>3

\* So what is proved of the registry holds of the node: KnownDevices never
\* lists two devices at one address, whatever the goroutines do.
THEOREM NodeKeepsRegistry == Spec => []OneDevicePerAddress
<1>1. Init => RegistryInit
  BY DEF Init
<1>2. TypeOK /\ [Next]_vars => [RegistryNext]_registryVars
  BY RegistrySteps
<1> QED
  BY <1>1, <1>2, TypeCorrectness, SnapshotIsUnambiguous, PTL DEF Spec, RegistrySpec

\* A node that yields its address goes for a usable one that no listed device holds,
\* and is left without only if it may not choose or the listed devices hold all.
LoserTakesFree ==
  [][YieldAddress =>
       LET held == {d.Address : d \in KnownDevices}
       IN  IF addressState' = "Lost"
           THEN name < TopBit \/ Usable \subseteq held \cup {snap}
           ELSE preferredAddress' \in Usable \ (held \cup {snap})]_vars

\* The address being given up is usable: it is the source of a claim.
YieldInv == pc = "yield" => snap \in Usable

\* Every step keeps that: the decision is taken on a claim from the node's own address.
LEMMA YieldStep ==
  ASSUME ClaimSources \subseteq Usable, TypeOK, YieldInv, [Next]_vars
  PROVE  YieldInv'
<1> USE DEF YieldInv
<1>1. CASE UNCHANGED <<pc, snap>>
  BY <1>1
<1>2. CASE processIsoAddressClaim
  <2>1. msg.src \in Usable
    BY <1>2, MessageFacts DEF processIsoAddressClaim, TypeOK, ProcessOK
  <2> QED
    BY <1>2, <2>1 DEF processIsoAddressClaim
<1>3. CASE pc' # "yield"
  BY <1>3
<1>4. \/ UNCHANGED <<pc, snap>> \/ pc' # "yield" \/ processIsoAddressClaim
  <2>1. CASE Process
    <3> ret \in {"top", "beat", "select"}
      BY DEF TypeOK, ProcessOK
    <3> QED
      BY <2>1
      DEF Process, LoopTop, sendAddressClaim, PublishClaim, sendHeartbeat,
          PublishHeartbeat, Return, SelectEnter, TakeClaim, TakeInfo, YieldAddress, TakeCommand,
          processIsoCommandedAddress, TakeClaimTick, TakeHeartbeatTick, TakeWakeUp,
          TakeDone
  <2>2. CASE Start
    BY <2>2 DEF Start
  <2>3. Process \/ Start \/ UNCHANGED <<pc, snap>>
    BY Zenon
    DEF vars, processVars, Next, Application, FinishStop, Enqueue, SetDeviceInfo,
        ClaimAddress, EnableHeartbeat, SetHeartbeatInterval, StopBegin, StopWaited,
        StopReset, CallbackBegin, EnqueueCheck, EnqueueDone, EnqueuePut, ClaimTick,
        HeartbeatTick
  <2> QED
    BY <2>1, <2>2, <2>3
<1> QED
  BY <1>1, <1>2, <1>3, <1>4

\* With claims from usable addresses, a node that loses its address never goes for
\* one that a listed device holds, whatever happened between its decision and its move.
THEOREM LoserGoesFree ==
  ASSUME ClaimSources \subseteq Usable
  PROVE  Spec => LoserTakesFree
<1> DEFINE Move == YieldAddress =>
                     LET held == {d.Address : d \in KnownDevices}
                     IN  IF addressState' = "Lost"
                         THEN name < TopBit \/ Usable \subseteq held \cup {snap}
                         ELSE preferredAddress' \in Usable \ (held \cup {snap})
<1>1. Init => ExactInv /\ YieldInv
  BY ExactInit DEF Init, YieldInv
<1>2. TypeOK /\ ExactInv /\ YieldInv /\ [Next]_vars => ExactInv' /\ YieldInv'
  BY RegistrySteps, ExactStep, YieldStep
<1>3. TypeOK /\ ExactInv /\ YieldInv => Move
  <2> SUFFICES ASSUME TypeOK, ExactInv, YieldInv, YieldAddress
               PROVE  LET held == {d.Address : d \in KnownDevices}
                      IN  IF addressState' = "Lost"
                          THEN name < TopBit \/ Usable \subseteq held \cup {snap}
                          ELSE preferredAddress' \in Usable \ (held \cup {snap})
    OBVIOUS
  <2>1. snap \in Usable
    BY DEF YieldAddress, YieldInv
  <2>2. name \in Nat /\ TopBit \in Nat
    <3>1. name \in OwnNames \cup {0}
      BY Zenon DEF TypeOK, FieldsOK
    <3> QED
      BY <3>1, NodeAssumption
  <2>3. RetryAddress(snap) = Nil \/ RetryAddress(snap) = nextAvailableAddressLocked(snap)
    BY DEF RetryAddress
  <2>4. RetryAddress(snap) = Nil /\ ~(name < TopBit) => nextAvailableAddressLocked(snap) = Nil
    BY <2>2 DEF RetryAddress
  <2>5. RetryAddressIsFree
    BY ExactGivesFreeRetry
  <2>6. \/ /\ RetryAddress(snap) # Nil
           /\ preferredAddress' = RetryAddress(snap)
           /\ addressState' = "Claiming"
        \/ /\ RetryAddress(snap) = Nil
           /\ addressState' = "Lost"
    BY DEF YieldAddress
  <2> QED
    BY <2>1, <2>3, <2>4, <2>5, <2>6 DEF RetryAddressIsFree
<1> QED
  BY <1>1, <1>2, <1>3, TypeCorrectness, PTL DEF Spec, LoserTakesFree

-----------------------------------------------------------------------------
(* The address the node writes from, and the claims behind it.             *)

\* What the address claim does not look at: the heartbeat, the queue and the
\* context.
Aside == /\ UNCHANGED <<addressVars, name, deviceInfoSet, pc, claimTicker, msg, snap, out,
                        historyVars>>
         /\ budget'.claim = budget.claim

\* Who moves the state of the address claim.
LEMMA WhoClaims ==
  ASSUME TypeOK, [Next]_vars
  PROVE  \/ Aside
         \/ \E n \in OwnNames : SetDeviceInfo(n)
         \/ \E a \in AppAddresses : ClaimAddress(a)
         \/ Start
         \/ \E s \in Stoppers : StopReset(s)
         \/ ClaimTick
         \/ Process
<1> USE DEF Aside, processVars, configVars, otherVars
<1>1. CASE \E b \in BOOLEAN : EnableHeartbeat(b)
  BY <1>1 DEF EnableHeartbeat, Spend, TypeOK, CallersOK
<1>2. CASE SetHeartbeatInterval
  BY <1>2 DEF SetHeartbeatInterval, Spend, TypeOK, CallersOK
<1>3. CASE \E m \in Messages : CallbackBegin(m)
  BY <1>3 DEF CallbackBegin, Spend, TypeOK, CallersOK
<1>4. CASE Enqueue \/ HeartbeatTick \/ UNCHANGED vars
  BY <1>4, Zenon DEF Enqueue, EnqueueCheck, EnqueueDone, EnqueuePut, HeartbeatTick, vars
<1>5. CASE \E s \in Stoppers : StopBegin(s) \/ StopWaited(s)
  BY <1>5, Zenon DEF StopBegin, StopWaited
<1> QED
  BY <1>1, <1>2, <1>3, <1>4, <1>5, Zenon DEF Next, Application, FinishStop

\* A claimed node is at the address whose timeout it sat out, and it may only write
\* while it is claimed or while the application moves it to another address.
WonInv ==
  /\ addressState = "Claimed" => addressClaimed /\ networkAddress = won
  /\ addressClaimed => addressState \in {"Claiming", "Claimed"}

\* Who moves the address, the state of its claim and the address won.
LEMMA WhoMovesAddress ==
  ASSUME [Next]_vars
  PROVE  \/ UNCHANGED <<addressVars, won>>
         \/ \E a \in AppAddresses : ClaimAddress(a)
         \/ \E s \in Stoppers : StopReset(s)
         \/ LoopTop \/ YieldAddress \/ processIsoCommandedAddress \/ TakeClaimTick
BY Zenon
DEF vars, historyVars, Next, Process, Application, FinishStop, Enqueue, SetDeviceInfo,
    EnableHeartbeat, SetHeartbeatInterval, Start, StopBegin, StopWaited, CallbackBegin,
    EnqueueCheck, EnqueueDone, EnqueuePut, ClaimTick, HeartbeatTick, sendAddressClaim,
    PublishClaim, sendHeartbeat, PublishHeartbeat, SelectEnter, TakeClaim, TakeInfo,
    processIsoAddressClaim, TakeCommand, TakeHeartbeatTick, TakeWakeUp, TakeDone

\* Every step keeps the address and the claim behind it together.
LEMMA WonStep == ASSUME WonInv, [Next]_vars PROVE WonInv'
<1> USE DEF WonInv, addressVars, historyVars
<1>1. CASE UNCHANGED <<addressVars, won>>
  BY <1>1
<1>2. CASE \E a \in AppAddresses : ClaimAddress(a)
  BY <1>2 DEF ClaimAddress
<1>3. CASE \E s \in Stoppers : StopReset(s)
  BY <1>3 DEF StopReset
<1>4. CASE LoopTop
  BY <1>4 DEF LoopTop, ClaimRestarts
<1>5. CASE YieldAddress
  BY <1>5 DEF YieldAddress
<1>6. CASE processIsoCommandedAddress
  BY <1>6 DEF processIsoCommandedAddress
<1>7. CASE TakeClaimTick
  BY <1>7 DEF TakeClaimTick
<1> QED
  BY <1>1, <1>2, <1>3, <1>4, <1>5, <1>6, <1>7, WhoMovesAddress

\* What write lets through leaves from the address won last, unless the application
\* has called ClaimAddress on a claimed node and that claim is still running.
WritesFromWonUnlessMoved == write # Nil => write = won \/ addressState = "Claiming"

\* However often the application claims, starts and stops, however many stop at
\* once and whatever the bus sends, no PGN leaves from an address that was never
\* won, except in the window in which the application moves a claimed node.
THEOREM WritesAreWonUnlessMoved == Spec => []WritesFromWonUnlessMoved
<1>1. Init => WonInv
  BY DEF Init, WonInv
<1>2. TypeOK /\ WonInv /\ [Next]_vars => WonInv'
  BY WonStep
<1>3. WonInv => WritesFromWonUnlessMoved
  BY DEF WonInv, WritesFromWonUnlessMoved, write
<1> QED
  BY <1>1, <1>2, <1>3, TypeCorrectness, PTL DEF Spec

\* With a single call of ClaimAddress: until it, the node is read-only, claims no
\* address, sends no claim and handles neither a lost address nor a command; while
\* it claims an address it may not write.
ClaimOnceInv ==
  /\ budget.claim \in {0, 1}
  /\ budget.claim = 1 => /\ readOnly
                         /\ addressState = "Unclaimed"
                         /\ ~addressClaimed
                         /\ pc \notin {"yield", "command", "publishClaim"}
  /\ addressState = "Claiming" => ~addressClaimed

\* Every step keeps that.
LEMMA ClaimOnceStep == ASSUME TypeOK, ClaimOnceInv, [Next]_vars PROVE ClaimOnceInv'
<1> USE DEF ClaimOnceInv, addressVars, configVars, processVars
<1> budget \in [{"claim", "config", "start", "message"} -> Nat]
  BY DEF TypeOK, CallersOK
<1>0. ret \in {"top", "beat", "select"}
  BY DEF TypeOK, ProcessOK
<1>1. CASE Aside
  BY <1>1 DEF Aside
<1>2. CASE \E n \in OwnNames : SetDeviceInfo(n)
  BY <1>2 DEF SetDeviceInfo
<1>3. CASE \E a \in AppAddresses : ClaimAddress(a)
  BY <1>3 DEF ClaimAddress, Spend
<1>4. CASE Start
  BY <1>4 DEF Start, Spend
<1>5. CASE \E s \in Stoppers : StopReset(s)
  BY <1>5 DEF StopReset
<1>6. CASE ClaimTick
  BY <1>6 DEF ClaimTick
<1>7. CASE LoopTop
  BY <1>7 DEF LoopTop, ClaimRestarts, HeartbeatStarts
<1>8. CASE sendAddressClaim
  BY <1>8, <1>0 DEF sendAddressClaim, Return
<1>9. CASE PublishClaim
  BY <1>9, <1>0 DEF PublishClaim, Return
<1>10. CASE sendHeartbeat
  BY <1>10, <1>0 DEF sendHeartbeat, Return
<1>11. CASE PublishHeartbeat
  BY <1>11, <1>0 DEF PublishHeartbeat, Return
<1>12. CASE SelectEnter
  BY <1>12 DEF SelectEnter
<1>13. CASE TakeClaim \/ TakeInfo
  BY <1>13 DEF TakeClaim, TakeInfo
<1>14. CASE processIsoAddressClaim
  BY <1>14 DEF processIsoAddressClaim
<1>15. CASE YieldAddress
  BY <1>15 DEF YieldAddress
<1>16. CASE TakeCommand
  BY <1>16 DEF TakeCommand
<1>17. CASE processIsoCommandedAddress
  BY <1>17 DEF processIsoCommandedAddress
<1>18. CASE TakeClaimTick
  BY <1>18 DEF TakeClaimTick
<1>19. CASE TakeHeartbeatTick
  BY <1>19 DEF TakeHeartbeatTick
<1>20. CASE TakeWakeUp
  BY <1>20 DEF TakeWakeUp
<1>21. CASE TakeDone
  BY <1>21 DEF TakeDone
<1> QED
  BY <1>1, <1>2, <1>3, <1>4, <1>5, <1>6, <1>7, <1>8, <1>9, <1>10, <1>11, <1>12, <1>13,
     <1>14, <1>15, <1>16, <1>17, <1>18, <1>19, <1>20, <1>21, WhoClaims DEF Process

\* If the application claims an address once, every PGN leaves from an address whose
\* claim has run its time, whatever the bus claims and commands.
THEOREM WritesAreWon ==
  ASSUME MaxClaimCalls <= 1
  PROVE  Spec => []WritesFromWonAddress
<1>1. Init => WonInv /\ ClaimOnceInv
  BY NodeAssumption DEF Init, WonInv, ClaimOnceInv
<1>2. TypeOK /\ WonInv /\ ClaimOnceInv /\ [Next]_vars => (WonInv /\ ClaimOnceInv)'
  BY WonStep, ClaimOnceStep
<1>3. WonInv /\ ClaimOnceInv => WritesFromWonAddress
  BY DEF WonInv, ClaimOnceInv, WritesFromWonAddress, write
<1> QED
  BY <1>1, <1>2, <1>3, TypeCorrectness, PTL DEF Spec

-----------------------------------------------------------------------------
(* A claimed address has been announced.                                   *)

\* The node is claiming, or has claimed, the address it asked for last.
Running == /\ addressState \in {"Claiming", "Claimed"}
           /\ networkAddress = preferredAddress
           /\ addressState = "Claimed" \/ claimTicker # Nil

\* A read-only node runs no claim timeout and handles nothing that starts one; an
\* exited goroutine leaves no ticker.
PassiveInv ==
  /\ readOnly => /\ addressState = "Unclaimed"
                 /\ claimTicker = Nil
                 /\ pc \notin {"yield", "command", "publishClaim"}
  /\ pc = "off" => claimTicker = Nil

\* The NAME is known before it is used.
NameInv == /\ deviceInfoSet => name \in OwnNames
           /\ ~readOnly => deviceInfoSet

\* What is asked for is usable, and a timeout never runs for another address.
AimInv ==
  /\ addressState \in {"Claiming", "Claimed"} => preferredAddress \in Usable
  /\ pc = "command" => msg.new \in Usable
  /\ addressState = "Claimed" => networkAddress = preferredAddress
  /\ claimTicker # Nil /\ pc # "top" =>
       addressState = "Claiming" /\ networkAddress = preferredAddress
  /\ pc = "publishClaim" => out = networkAddress
  /\ pc = "yield" => snap = networkAddress

\* The claim behind a running timeout is on the bus, about to be put there, or
\* about to be given up for a lower NAME.
AnnouncedInv ==
  Running => \/ announced = networkAddress
             \/ addressState = "Claiming" /\ pc \in {"claim", "publishClaim"}
             \/ pc = "decide" /\ msg.src = networkAddress /\ msg.name < name
             \/ pc = "yield"

\* The application claims once and gives one NAME, publications succeed, and
\* commands name usable addresses.
OrderlyClaim == /\ MaxClaimCalls <= 1
                /\ OneStopper
                /\ \A m, n \in OwnNames : m = n
                /\ WriteMayFail = FALSE
                /\ CommandAddresses \subseteq Usable \cup {Nil}

ClaimInv == ClaimOnceInv /\ PassiveInv /\ NameInv /\ AimInv /\ AnnouncedInv

\* The address retried is usable and not the one that was lost.
LEMMA RetryMoves ==
  ASSUME TypeOK, pc = "yield"
  PROVE  RetryAddress(snap) = Nil \/ RetryAddress(snap) \in Usable \ {snap}
<1>1. snap \in Address
  BY DEF TypeOK, ProcessOK
<1>2. snap \in claimedAddresses(snap)
  BY DEF claimedAddresses
<1> QED
  BY <1>1, <1>2, NextAvailable DEF RetryAddress

\* Every step keeps a read-only node passive.
LEMMA PassiveStep ==
  ASSUME OrderlyClaim, TypeOK, StopInv, ClaimInv, [Next]_vars
  PROVE  PassiveInv'
<1> USE NodeAssumption DEF ClaimInv, ClaimOnceInv, PassiveInv, addressVars, processVars, configVars
<1>0. ret \in {"top", "beat", "select"}
  BY DEF TypeOK, ProcessOK
<1>1. CASE Aside
  BY <1>1 DEF Aside
<1>2. CASE \E n \in OwnNames : SetDeviceInfo(n)
  BY <1>2 DEF SetDeviceInfo
<1>3. CASE \E a \in AppAddresses : ClaimAddress(a)
  BY <1>3 DEF ClaimAddress, Spend
<1>4. CASE Start
  BY <1>4 DEF Start, Spend
<1>5. CASE \E s \in Stoppers : StopReset(s)
  BY <1>5 DEF StopReset, StopInv
<1>6. CASE ClaimTick
  BY <1>6 DEF ClaimTick
<1>7. CASE LoopTop
  BY <1>7 DEF LoopTop, ClaimRestarts, HeartbeatStarts
<1>8. CASE sendAddressClaim
  BY <1>8, <1>0 DEF sendAddressClaim, Return
<1>9. CASE PublishClaim
  BY <1>9, <1>0 DEF PublishClaim, Return
<1>10. CASE sendHeartbeat
  BY <1>10, <1>0 DEF sendHeartbeat, Return
<1>11. CASE PublishHeartbeat
  BY <1>11, <1>0 DEF PublishHeartbeat, Return
<1>12. CASE SelectEnter
  BY <1>12 DEF SelectEnter
<1>13. CASE TakeClaim \/ TakeInfo
  BY <1>13 DEF TakeClaim, TakeInfo
<1>14. CASE processIsoAddressClaim
  BY <1>14 DEF processIsoAddressClaim
<1>15. CASE YieldAddress
  BY <1>15 DEF YieldAddress
<1>16. CASE TakeCommand
  BY <1>16 DEF TakeCommand
<1>17. CASE processIsoCommandedAddress
  BY <1>17 DEF processIsoCommandedAddress
<1>18. CASE TakeClaimTick
  BY <1>18 DEF TakeClaimTick
<1>19. CASE TakeHeartbeatTick
  BY <1>19 DEF TakeHeartbeatTick
<1>20. CASE TakeWakeUp
  BY <1>20 DEF TakeWakeUp
<1>21. CASE TakeDone
  BY <1>21 DEF TakeDone
<1> QED
  BY <1>1, <1>2, <1>3, <1>4, <1>5, <1>6, <1>7, <1>8, <1>9, <1>10, <1>11, <1>12, <1>13,
     <1>14, <1>15, <1>16, <1>17, <1>18, <1>19, <1>20, <1>21, WhoClaims DEF Process

\* Every step keeps the NAME known.
LEMMA NameStep ==
  ASSUME OrderlyClaim, TypeOK, StopInv, ClaimInv, [Next]_vars
  PROVE  NameInv'
<1> USE NodeAssumption DEF ClaimInv, ClaimOnceInv, NameInv, addressVars, configVars
<1>1. CASE Aside
  BY <1>1 DEF Aside
<1>2. CASE \E n \in OwnNames : SetDeviceInfo(n)
  BY <1>2 DEF SetDeviceInfo
<1>3. CASE \E a \in AppAddresses : ClaimAddress(a)
  BY <1>3 DEF ClaimAddress, Spend
<1>4. CASE Start
  BY <1>4 DEF Start, Spend
<1>5. CASE \E s \in Stoppers : StopReset(s)
  BY <1>5 DEF StopReset
<1>6. CASE ClaimTick
  BY <1>6 DEF ClaimTick
<1>7. CASE LoopTop
  BY <1>7 DEF LoopTop, ClaimRestarts, HeartbeatStarts
<1>8. CASE sendAddressClaim
  BY <1>8 DEF sendAddressClaim, Return
<1>9. CASE PublishClaim
  BY <1>9 DEF PublishClaim, Return
<1>10. CASE sendHeartbeat
  BY <1>10 DEF sendHeartbeat, Return
<1>11. CASE PublishHeartbeat
  BY <1>11 DEF PublishHeartbeat, Return
<1>12. CASE SelectEnter
  BY <1>12 DEF SelectEnter
<1>13. CASE TakeClaim \/ TakeInfo
  BY <1>13 DEF TakeClaim, TakeInfo
<1>14. CASE processIsoAddressClaim
  BY <1>14 DEF processIsoAddressClaim
<1>15. CASE YieldAddress
  BY <1>15 DEF YieldAddress
<1>16. CASE TakeCommand
  BY <1>16 DEF TakeCommand
<1>17. CASE processIsoCommandedAddress
  BY <1>17 DEF processIsoCommandedAddress
<1>18. CASE TakeClaimTick
  BY <1>18 DEF TakeClaimTick
<1>19. CASE TakeHeartbeatTick
  BY <1>19 DEF TakeHeartbeatTick
<1>20. CASE TakeWakeUp
  BY <1>20 DEF TakeWakeUp
<1>21. CASE TakeDone
  BY <1>21 DEF TakeDone
<1> QED
  BY <1>1, <1>2, <1>3, <1>4, <1>5, <1>6, <1>7, <1>8, <1>9, <1>10, <1>11, <1>12, <1>13,
     <1>14, <1>15, <1>16, <1>17, <1>18, <1>19, <1>20, <1>21, WhoClaims DEF Process

\* Every step keeps the running timeout on the address asked for.
LEMMA AimStep ==
  ASSUME OrderlyClaim, TypeOK, StopInv, ClaimInv, [Next]_vars
  PROVE  AimInv'
<1> USE NodeAssumption DEF ClaimInv, ClaimOnceInv, PassiveInv, AimInv, addressVars, processVars
<1>0. ret \in {"top", "beat", "select"}
  BY DEF TypeOK, ProcessOK
<1>1. CASE Aside
  BY <1>1 DEF Aside
<1>2. CASE \E n \in OwnNames : SetDeviceInfo(n)
  BY <1>2 DEF SetDeviceInfo
<1>3. CASE \E a \in AppAddresses : ClaimAddress(a)
  BY <1>3 DEF ClaimAddress, Spend
<1>4. CASE Start
  BY <1>4 DEF Start, Spend
<1>5. CASE \E s \in Stoppers : StopReset(s)
  BY <1>5 DEF StopReset, StopInv
<1>6. CASE ClaimTick
  BY <1>6 DEF ClaimTick
<1>7. CASE LoopTop
  BY <1>7 DEF LoopTop, ClaimRestarts, HeartbeatStarts
<1>8. CASE sendAddressClaim
  BY <1>8, <1>0 DEF sendAddressClaim, Return
<1>9. CASE PublishClaim
  BY <1>9, <1>0 DEF PublishClaim, Return
<1>10. CASE sendHeartbeat
  BY <1>10, <1>0 DEF sendHeartbeat, Return
<1>11. CASE PublishHeartbeat
  BY <1>11, <1>0 DEF PublishHeartbeat, Return
<1>12. CASE SelectEnter
  BY <1>12 DEF SelectEnter
<1>13. CASE TakeClaim \/ TakeInfo
  BY <1>13 DEF TakeClaim, TakeInfo
<1>14. CASE processIsoAddressClaim
  BY <1>14 DEF processIsoAddressClaim
<1>15. CASE YieldAddress
  BY <1>15, RetryMoves DEF YieldAddress
<1>16. CASE TakeCommand
  <2>1. Head(pgnIn) \in Messages
    BY <1>16 DEF TakeCommand, TypeOK, CallersOK
  <2>2. pc' = "command" => /\ msg' = Head(pgnIn)
                           /\ Head(pgnIn).type = "command"
                           /\ Head(pgnIn).new # Nil
    BY <1>16, Zenon DEF TakeCommand
  <2>3. pc' = "command" => msg'.new \in Usable
    BY <2>1, <2>2, MessageFacts DEF OrderlyClaim
  <2> QED
    BY <1>16, <2>3 DEF TakeCommand
<1>17. CASE processIsoCommandedAddress
  BY <1>17 DEF processIsoCommandedAddress
<1>18. CASE TakeClaimTick
  BY <1>18 DEF TakeClaimTick
<1>19. CASE TakeHeartbeatTick
  BY <1>19 DEF TakeHeartbeatTick
<1>20. CASE TakeWakeUp
  BY <1>20 DEF TakeWakeUp
<1>21. CASE TakeDone
  BY <1>21 DEF TakeDone
<1> QED
  BY <1>1, <1>2, <1>3, <1>4, <1>5, <1>6, <1>7, <1>8, <1>9, <1>10, <1>11, <1>12, <1>13,
     <1>14, <1>15, <1>16, <1>17, <1>18, <1>19, <1>20, <1>21, WhoClaims DEF Process

\* Every step keeps the running claim announced.
LEMMA AnnouncedStep ==
  ASSUME OrderlyClaim, TypeOK, StopInv, ClaimInv, [Next]_vars
  PROVE  AnnouncedInv'
<1> USE NodeAssumption DEF ClaimInv, ClaimOnceInv, PassiveInv, AimInv, AnnouncedInv, Running, addressVars, configVars, processVars, historyVars
<1>0. ret \in {"top", "beat", "select"}
  BY DEF TypeOK, ProcessOK
<1>1. CASE Aside
  BY <1>1 DEF Aside
<1>2. CASE \E n \in OwnNames : SetDeviceInfo(n)
  BY <1>2 DEF SetDeviceInfo, OrderlyClaim, NameInv
<1>3. CASE \E a \in AppAddresses : ClaimAddress(a)
  BY <1>3 DEF ClaimAddress, Spend
<1>4. CASE Start
  BY <1>4 DEF Start, Spend
<1>5. CASE \E s \in Stoppers : StopReset(s)
  BY <1>5 DEF StopReset
<1>6. CASE ClaimTick
  BY <1>6 DEF ClaimTick
<1>7. CASE LoopTop
  BY <1>7 DEF LoopTop, ClaimRestarts, HeartbeatStarts
<1>8. CASE sendAddressClaim
  BY <1>8, <1>0 DEF sendAddressClaim, Return
<1>9. CASE PublishClaim
  BY <1>9, <1>0 DEF PublishClaim, Return, OrderlyClaim
<1>10. CASE sendHeartbeat
  BY <1>10, <1>0 DEF sendHeartbeat, Return
<1>11. CASE PublishHeartbeat
  BY <1>11, <1>0 DEF PublishHeartbeat, Return
<1>12. CASE SelectEnter
  BY <1>12 DEF SelectEnter
<1>13. CASE TakeClaim \/ TakeInfo
  BY <1>13 DEF TakeClaim, TakeInfo
<1>14. CASE processIsoAddressClaim
  BY <1>14 DEF processIsoAddressClaim
<1>15. CASE YieldAddress
  BY <1>15, RetryMoves DEF YieldAddress
<1>16. CASE TakeCommand
  BY <1>16 DEF TakeCommand
<1>17. CASE processIsoCommandedAddress
  BY <1>17 DEF processIsoCommandedAddress
<1>18. CASE TakeClaimTick
  BY <1>18 DEF TakeClaimTick
<1>19. CASE TakeHeartbeatTick
  BY <1>19 DEF TakeHeartbeatTick
<1>20. CASE TakeWakeUp
  BY <1>20 DEF TakeWakeUp
<1>21. CASE TakeDone
  BY <1>21 DEF TakeDone
<1> QED
  BY <1>1, <1>2, <1>3, <1>4, <1>5, <1>6, <1>7, <1>8, <1>9, <1>10, <1>11, <1>12, <1>13,
     <1>14, <1>15, <1>16, <1>17, <1>18, <1>19, <1>20, <1>21, WhoClaims DEF Process

\* If the application claims once and under one NAME, and publications succeed, a
\* claimed address is usable, is the one asked for last and has been announced since
\* the last lower NAME's claim to it.
THEOREM ClaimsAreAnnounced ==
  ASSUME OrderlyClaim
  PROVE  Spec => []ClaimedIsAnnounced
<1>1. Init => ClaimInv
  BY NodeAssumption, AddressFacts
  DEF OrderlyClaim, Init, ClaimInv, ClaimOnceInv, PassiveInv, NameInv, AimInv, AnnouncedInv, Running
<1>2. TypeOK /\ StopInv /\ ClaimInv /\ [Next]_vars => StopInv' /\ ClaimInv'
  BY StopStep, ClaimOnceStep, PassiveStep, NameStep, AimStep, AnnouncedStep
  DEF OrderlyClaim, ClaimInv, TypeOK, CallersOK
<1>3. ClaimInv => ClaimedIsAnnounced
  BY DEF ClaimInv, AimInv, AnnouncedInv, Running, ClaimedIsAnnounced
<1> QED
  BY <1>1, <1>2, <1>3, StopInit, TypeCorrectness, PTL DEF Spec

-----------------------------------------------------------------------------
(* What the node answers: from which address, whether it is true, and what *)
(* a write changes.                                                        *)

\* What the fields of a PGN on the bus are.
LEMMA TrafficFacts ==
  ASSUME NEW m \in Messages \cup Requests
  PROVE  /\ m \in Requests => m.type \in RequestTypes
         /\ m.type \in {"claim", "command", "info"} => m \in Messages
         /\ m.type = "claim" => m.src \in ClaimSources
         /\ m.type = "command" => m.new \in CommandAddresses
BY MessageFacts, RequestsAssumption DEF RequestTypes

-----------------------------------------------------------------------------
(* The types of the node while it also answers requests: the process       *)
(* goroutine has more places and the queue more kinds of PGN than in Node. *)

NodeOK ==
  /\ pc \in Pcs \cup RequestPcs
  /\ ret \in {"top", "beat", "select"}
  /\ networkAddress \in Address
  /\ preferredAddress \in Address
  /\ pc = "yield" => snap \in Address
  /\ pc = "command" => msg \in Messages /\ msg.type = "command" /\ msg.new # Nil
  /\ pgnIn \in Seq(Messages \cup Requests)
  /\ callback \in [msg : Messages \cup Requests, at : {"check", "done", "put"}] \cup {Nil}
  /\ budget \in [{"claim", "config", "start", "message"} -> Nat]
  /\ stopPc \in [Stoppers -> {"idle", "wait", "reset"}]

\* The node before Start is well typed.
LEMMA NodeOKInit == Init => NodeOK
<1> SUFFICES ASSUME Init PROVE NodeOK
  OBVIOUS
<1>1. pc \in Pcs \cup RequestPcs
  BY DEF Init, Pcs
<1>2. ret \in {"top", "beat", "select"}
  BY DEF Init
<1>3. networkAddress \in Address /\ preferredAddress \in Address
  BY AddressFacts, NodeAssumption DEF Init
<1>4. pc # "yield" /\ pc # "command"
  BY DEF Init
<1>5. pgnIn \in Seq(Messages \cup Requests)
  BY DEF Init
<1>6. callback = Nil /\ budget \in [{"claim", "config", "start", "message"} -> Nat]
  BY NodeAssumption DEF Init
<1>7. stopPc \in [Stoppers -> {"idle", "wait", "reset"}]
  BY DEF Init
<1> QED
  BY <1>1, <1>2, <1>3, <1>4, <1>5, <1>6, <1>7 DEF NodeOK

\* A step of the process goroutine keeps the types and goes nowhere a request is
\* handled.
LEMMA ProcessOKStep == ASSUME NodeOK, Process PROVE NodeOK' /\ pc' \in Pcs
<1> USE NodeAssumption, AddressFacts
    DEF NodeOK, Pcs, RequestPcs, addressVars, configVars, runVars, processVars, otherVars,
        historyVars
<1>1. CASE LoopTop
  BY <1>1 DEF LoopTop, ClaimRestarts, HeartbeatStarts
<1>2. CASE sendAddressClaim
  BY <1>2 DEF sendAddressClaim, Return
<1>3. CASE PublishClaim
  BY <1>3 DEF PublishClaim, Return
<1>4. CASE sendHeartbeat
  BY <1>4 DEF sendHeartbeat, Return, write
<1>5. CASE PublishHeartbeat
  BY <1>5 DEF PublishHeartbeat, Return
<1>6. CASE SelectEnter
  BY <1>6 DEF SelectEnter
<1>7. CASE TakeClaim
  <2>1. Head(pgnIn) \in Messages \cup Requests /\ Tail(pgnIn) \in Seq(Messages \cup Requests)
    BY <1>7 DEF TakeClaim
  <2> QED
    BY <1>7, <2>1, TrafficFacts DEF TakeClaim
<1>8. CASE processIsoAddressClaim
  BY <1>8 DEF processIsoAddressClaim
<1>9. CASE YieldAddress
  <2>1. RetryAddress(snap) \in Usable \cup {Nil}
    BY <1>9, NextAvailable DEF RetryAddress, YieldAddress
  <2> QED
    BY <1>9, <2>1 DEF YieldAddress
<1>10. CASE TakeCommand
  <2>1. Head(pgnIn) \in Messages \cup Requests /\ Tail(pgnIn) \in Seq(Messages \cup Requests)
    BY <1>10 DEF TakeCommand
  <2> QED
    BY <1>10, <2>1, TrafficFacts DEF TakeCommand
<1>11. CASE processIsoCommandedAddress
  <2>1. msg.new \in Address
    BY <1>11, MessageFacts DEF processIsoCommandedAddress
  <2> QED
    BY <1>11, <2>1 DEF processIsoCommandedAddress
<1>12. CASE TakeClaimTick
  BY <1>12 DEF TakeClaimTick
<1>13. CASE TakeHeartbeatTick
  BY <1>13 DEF TakeHeartbeatTick
<1>14. CASE TakeWakeUp
  BY <1>14 DEF TakeWakeUp
<1>15. CASE TakeDone
  BY <1>15 DEF TakeDone
<1>16. CASE TakeInfo
  <2>1. Tail(pgnIn) \in Seq(Messages \cup Requests)
    BY <1>16 DEF TakeInfo
  <2> QED
    BY <1>16, <2>1 DEF TakeInfo
<1> QED
  BY <1>1, <1>2, <1>3, <1>4, <1>5, <1>6, <1>7, <1>8, <1>9, <1>10, <1>11, <1>12, <1>13,
     <1>14, <1>15, <1>16 DEF Process

\* What the steps of everyone else leave alone while a request is handled: where the
\* goroutine is and, unless the application claims or Stop resets it, the address.
Bystands == /\ UNCHANGED <<pc, ret, msg, snap, won, networkAddress, readOnly>>
            /\ budget'.claim = budget.claim

\* The application claims an address, or gives the node's up.
Claims == /\ UNCHANGED <<pc, won>>
          /\ budget.claim > 0
          /\ budget'.claim = budget.claim - 1
          /\ \/ ~readOnly' /\ UNCHANGED networkAddress
             \/ readOnly' /\ GlobalAddress \in AppAddresses

\* The steps of everyone else keep the types.
LEMMA OtherOKStep ==
  ASSUME NodeOK,
         \/ Application \/ FinishStop \/ Enqueue \/ ClaimTick \/ HeartbeatTick
         \/ \E m \in Messages \cup Requests : CallbackBegin(m)
         \/ UNCHANGED vars
  PROVE  NodeOK'
<1> USE NodeAssumption, AddressFacts
    DEF NodeOK, Pcs, addressVars, configVars, runVars, processVars, otherVars, historyVars
<1>1. CASE \E n \in OwnNames : SetDeviceInfo(n)
  BY <1>1 DEF SetDeviceInfo
<1>2. CASE \E a \in AppAddresses : ClaimAddress(a)
  BY <1>2 DEF ClaimAddress, Spend
<1>3. CASE \E b \in BOOLEAN : EnableHeartbeat(b)
  BY <1>3 DEF EnableHeartbeat, Spend
<1>4. CASE SetHeartbeatInterval
  BY <1>4 DEF SetHeartbeatInterval, Spend
<1>5. CASE Start
  BY <1>5 DEF Start, Spend
<1>6. CASE \E s \in Stoppers : StopBegin(s)
  BY <1>6 DEF StopBegin
<1>7. CASE \E s \in Stoppers : StopWaited(s)
  BY <1>7 DEF StopWaited
<1>8. CASE \E s \in Stoppers : StopReset(s)
  BY <1>8 DEF StopReset
<1>9. CASE \E m \in Messages \cup Requests : CallbackBegin(m)
  BY <1>9 DEF CallbackBegin, Spend
<1>10. CASE EnqueueCheck
  BY <1>10 DEF EnqueueCheck
<1>11. CASE EnqueueDone
  BY <1>11 DEF EnqueueDone
<1>12. CASE EnqueuePut
  BY <1>12 DEF EnqueuePut
<1>13. CASE ClaimTick
  BY <1>13 DEF ClaimTick
<1>14. CASE HeartbeatTick
  BY <1>14 DEF HeartbeatTick
<1>15. CASE UNCHANGED vars
  BY <1>15 DEF vars
<1> QED
  BY <1>1, <1>2, <1>3, <1>4, <1>5, <1>6, <1>7, <1>8, <1>9, <1>10, <1>11, <1>12, <1>13,
     <1>14, <1>15 DEF Application, FinishStop, Enqueue

\* Of them only ClaimAddress, Start and Stop touch what a handler relies on.
LEMMA OthersStandBy ==
  ASSUME NodeOK,
         \/ Application \/ FinishStop \/ Enqueue \/ ClaimTick \/ HeartbeatTick
         \/ \E m \in Messages \cup Requests : CallbackBegin(m)
         \/ UNCHANGED vars
  PROVE  \/ Bystands
         \/ Claims
         \/ /\ pc = "off" /\ pc' = "top"
            /\ UNCHANGED <<networkAddress, readOnly>>
            /\ budget'.claim = budget.claim
         \/ \E s \in Stoppers : StopReset(s)
<1> USE DEF Bystands, Claims, addressVars, processVars, historyVars
<1> budget \in [{"claim", "config", "start", "message"} -> Nat]
  BY DEF NodeOK
<1>1. CASE \E a \in AppAddresses : ClaimAddress(a)
  BY <1>1 DEF ClaimAddress, Spend
<1>2. CASE \E b \in BOOLEAN : EnableHeartbeat(b)
  <2>1. budget'.claim = budget.claim
    BY <1>2 DEF EnableHeartbeat, Spend
  <2> QED
    BY <1>2, <2>1, Zenon DEF EnableHeartbeat
<1>3. CASE SetHeartbeatInterval
  <2>1. budget'.claim = budget.claim
    BY <1>3 DEF SetHeartbeatInterval, Spend
  <2> QED
    BY <1>3, <2>1, Zenon DEF SetHeartbeatInterval
<1>4. CASE \E m \in Messages \cup Requests : CallbackBegin(m)
  <2>1. budget'.claim = budget.claim
    BY <1>4 DEF CallbackBegin, Spend
  <2> QED
    BY <1>4, <2>1, Zenon DEF CallbackBegin
<1>5. CASE Start
  <2>1. budget'.claim = budget.claim
    BY <1>5 DEF Start, Spend
  <2> QED
    BY <1>5, <2>1, Zenon DEF Start
<1>6. CASE \/ \E n \in OwnNames : SetDeviceInfo(n)
           \/ \E s \in Stoppers : StopBegin(s) \/ StopWaited(s)
           \/ Enqueue \/ ClaimTick \/ HeartbeatTick \/ UNCHANGED vars
  BY <1>6, Zenon
  DEF SetDeviceInfo, StopBegin, StopWaited, Enqueue, EnqueueCheck, EnqueueDone,
      EnqueuePut, ClaimTick, HeartbeatTick, vars
<1> QED
  BY <1>1, <1>2, <1>3, <1>4, <1>5, <1>6, Zenon DEF Application, FinishStop

-----------------------------------------------------------------------------
(* Lists of answers.                                                       *)

\* A sequence, whatever it holds.
IsList(s) == s \in Seq(ToSet(s))

\* A sequence over any set is one over its own elements.
LEMMA OwnElements ==
  ASSUME NEW S, NEW s \in Seq(S)
  PROVE  IsList(s) /\ ToSet(s) \subseteq S
<1>1. /\ Len(s) \in Nat
      /\ s \in [1..Len(s) -> S]
      /\ DOMAIN s = 1..Len(s)
  BY LenProperties
<1>2. s \in [1..Len(s) -> ToSet(s)]
  BY <1>1 DEF ToSet
<1>3. s \in Seq(ToSet(s))
  BY <1>1, <1>2, SeqDef
<1>4. ToSet(s) \subseteq S
  BY <1>1 DEF ToSet
<1> QED
  BY <1>3, <1>4 DEF IsList

\* The lists a handler builds.
LEMMA BuiltLists ==
  /\ IsList(<<>>) /\ ToSet(<<>>) = {}
  /\ \A a : IsList(<<a>>) /\ ToSet(<<a>>) = {a} /\ <<a>> # <<>>
  /\ \A a, b : IsList(<<a, b>>) /\ ToSet(<<a, b>>) = {a, b} /\ <<a, b>> # <<>>
<1>1. IsList(<<>>) /\ ToSet(<<>>) = {}
  BY DEF IsList, ToSet
<1>2. ASSUME NEW a PROVE IsList(<<a>>) /\ ToSet(<<a>>) = {a} /\ <<a>> # <<>>
  <2>1. <<a>> \in Seq({a})
    OBVIOUS
  <2>2. ToSet(<<a>>) = {a}
    BY DEF ToSet
  <2> QED
    BY <2>1, <2>2, OwnElements
<1>3. ASSUME NEW a, NEW b PROVE IsList(<<a, b>>) /\ ToSet(<<a, b>>) = {a, b} /\ <<a, b>> # <<>>
  <2>1. <<a, b>> \in Seq({a, b})
    OBVIOUS
  <2>2. ToSet(<<a, b>>) = {a, b}
    BY DEF ToSet
  <2> QED
    BY <2>1, <2>2, OwnElements
<1> QED
  BY <1>1, <1>2, <1>3

\* Sending the first answer leaves a list of the others.
LEMMA AnswersLeft ==
  ASSUME NEW s, IsList(s), s # <<>>
  PROVE  /\ Head(s) \in ToSet(s)
         /\ IsList(Tail(s))
         /\ ToSet(Tail(s)) \subseteq ToSet(s)
<1>1. Head(s) \in ToSet(s) /\ Tail(s) \in Seq(ToSet(s))
  BY HeadTailProperties DEF IsList
<1> QED
  BY <1>1, OwnElements

-----------------------------------------------------------------------------
(* What mergePGNs computes.  A fold is a recursive function on the sets of *)
(* indices; that there is one is shown by induction on the largest index,  *)
(* and so is what it returns.                                              *)

\* A set of numbers that holds 0 and with each number the next holds them all.
LEMMA Counting ==
  ASSUME NEW G, 0 \in G, \A k \in Nat : k \in G => k + 1 \in G
  PROVE  \A k \in Nat : k \in G
<1> SUFFICES ASSUME Nat \ G # {} PROVE FALSE
  OBVIOUS
<1>1. PICK x \in Nat \ G : \A y \in Nat \ G : x <= y
  BY LeastElement
<1>2. x # 0 /\ x - 1 \in Nat /\ (x - 1) + 1 = x
  BY <1>1
<1>3. x - 1 \in Nat \ G
  BY <1>1, <1>2
<1> QED
  BY <1>1, <1>2, <1>3

\* One round of its loop: a PGN that is there already is left out.
Merge(q, p) == IF p \in ToSet(q) THEN q ELSE Append(q, p)

\* The result for the PGNs at the indices s, from that without the last of them.
Round(all, g, s) == IF s = {} THEN <<>> ELSE Merge(g[s \ {Max(s)}], all[Max(s)])

MergesUpTo(all, k, g) == g = [s \in SUBSET (1..k) |-> Round(all, g, s)]

LEMMA LargestIs ==
  ASSUME NEW S, S \subseteq Nat, NEW x \in S, \A y \in S : x >= y
  PROVE  Max(S) = x
<1>1. PICK m : m = Max(S)
  OBVIOUS
<1>2. m \in S /\ \A y \in S : m >= y
  BY <1>1, Zenon DEF Max
<1>3. m >= x /\ x >= m /\ m \in Nat /\ x \in Nat
  BY <1>2
<1> QED
  BY <1>1, <1>3

LEMMA MergesExist ==
  ASSUME NEW all, NEW n \in Nat
  PROVE  \E g : MergesUpTo(all, n, g)
<1> DEFINE G == {k \in Nat : \E g : MergesUpTo(all, k, g)}
<1>1. 0 \in G
  <2> DEFINE e == [s \in SUBSET (1..0) |-> <<>>]
  <2>1. 1..0 = {}
    OBVIOUS
  <2>2. \A s \in SUBSET (1..0) : Round(all, e, s) = <<>>
    BY <2>1 DEF Round
  <2>3. MergesUpTo(all, 0, e)
    BY <2>2, Zenon DEF MergesUpTo
  <2> QED
    BY <2>3
<1>2. ASSUME NEW k \in Nat, k \in G PROVE k + 1 \in G
  <2>1. PICK g : MergesUpTo(all, k, g)
    BY <1>2
  <2> DEFINE h == [s \in SUBSET (1..(k + 1)) |->
                     IF k + 1 \in s THEN Merge(g[s \ {k + 1}], all[k + 1]) ELSE g[s]]
  <2>2. 1..(k + 1) = (1..k) \cup {k + 1} /\ k + 1 \notin 1..k
    OBVIOUS
  <2>3. ASSUME NEW s \in SUBSET (1..(k + 1)) PROVE h[s] = Round(all, h, s)
    <3>1. CASE k + 1 \in s
      <4>1. Max(s) = k + 1
        <5>1. s \subseteq Nat /\ \A y \in s : k + 1 >= y
          OBVIOUS
        <5> QED
          BY <3>1, <5>1, LargestIs
      <4>2. s \ {k + 1} \in SUBSET (1..(k + 1)) /\ s # {}
        BY <3>1
      <4>3. h[s \ {k + 1}] = g[s \ {k + 1}]
        BY <4>2
      <4>4. h[s] = Merge(g[s \ {k + 1}], all[k + 1])
        BY <3>1
      <4> QED
        BY <4>1, <4>2, <4>3, <4>4 DEF Round
    <3>2. CASE k + 1 \notin s /\ s # {}
      <4>1. s \in SUBSET (1..k)
        BY <2>2, <3>2
      <4>2. g[s] = Merge(g[s \ {Max(s)}], all[Max(s)])
        BY <2>1, <3>2, <4>1 DEF MergesUpTo, Round
      <4>3. h[s] = g[s]
        BY <3>2
      <4>4. h[s \ {Max(s)}] = g[s \ {Max(s)}]
        BY <3>2
      <4> QED
        BY <3>2, <4>2, <4>3, <4>4 DEF Round
    <3>3. CASE s = {}
      <4>1. g[s] = <<>>
        BY <2>1, <3>3 DEF MergesUpTo, Round
      <4> QED
        BY <3>3, <4>1 DEF Round
    <3> QED
      BY <3>1, <3>2, <3>3
  <2> HIDE DEF h
  <2>4. DOMAIN h = SUBSET (1..(k + 1)) /\ h = [s \in SUBSET (1..(k + 1)) |-> h[s]]
    BY DEF h
  <2>5. MergesUpTo(all, k + 1, h)
    BY <2>3, <2>4 DEF MergesUpTo
  <2> QED
    BY <2>5
<1> HIDE DEF G
<1>3. n \in G
  BY <1>1, <1>2, Counting
<1> QED
  BY <1>3 DEF G

\* No PGN is there twice.
Distinct(q) == \A i, j \in DOMAIN q : q[i] = q[j] => i = j

\* A PGN more at the end of a list.
LEMMA OneAdded ==
  ASSUME NEW S, NEW q \in Seq(S), NEW p \in S
  PROVE  /\ Append(q, p) \in Seq(S)
         /\ ToSet(Append(q, p)) = ToSet(q) \cup {p}
         /\ p \notin ToSet(q) /\ Distinct(q) => Distinct(Append(q, p))
<1>1. PICK n \in Nat, a \in Seq(S) :
        /\ n = Len(q) /\ a = Append(q, p)
        /\ DOMAIN q = 1..n /\ DOMAIN a = 1..(n + 1)
        /\ \A i \in 1..n : a[i] = q[i]
        /\ a[n + 1] = p
  <2>1. PICK n \in Nat : n = Len(q) /\ DOMAIN q = 1..n
    BY LenProperties
  <2>2. PICK a \in Seq(S) :
          /\ a = Append(q, p) /\ Len(a) = n + 1 /\ a[n + 1] = p
          /\ \A i \in 1..n : a[i] = q[i]
    <3>1. /\ Append(q, p) \in Seq(S)
          /\ Len(Append(q, p)) = Len(q) + 1
          /\ \A i \in 1..Len(q) : Append(q, p)[i] = q[i]
          /\ Append(q, p)[Len(q) + 1] = p
      BY AppendProperties
    <3> QED
      BY <2>1, <3>1, Zenon
  <2>3. DOMAIN a = 1..(n + 1)
    BY <2>2, LenProperties
  <2> QED
    BY <2>1, <2>2, <2>3
<1>2. 1..(n + 1) = (1..n) \cup {n + 1} /\ n + 1 \notin 1..n
  OBVIOUS
<1>3. ToSet(a) = ToSet(q) \cup {p}
  BY <1>1, <1>2 DEF ToSet
<1>4. ASSUME p \notin ToSet(q), Distinct(q) PROVE Distinct(a)
  <2>1. \A i \in 1..n : q[i] # p
    BY <1>1, <1>4 DEF ToSet
  <2>2. \A i, j \in 1..n : q[i] = q[j] => i = j
    BY <1>1, <1>4 DEF Distinct
  <2> QED
    BY <1>1, <1>2, <2>1, <2>2 DEF Distinct
<1> QED
  BY <1>1, <1>3, <1>4

\* One list after another.
LEMMA Concatenated ==
  ASSUME NEW S, NEW q \in Seq(S), NEW p \in Seq(S)
  PROVE  q \o p \in Seq(S) /\ ToSet(q \o p) = ToSet(q) \cup ToSet(p)
<1>1. /\ Len(q) \in Nat /\ DOMAIN q = 1..Len(q)
      /\ Len(p) \in Nat /\ DOMAIN p = 1..Len(p)
  BY LenProperties
<1>2. /\ q \o p \in Seq(S)
      /\ DOMAIN (q \o p) = 1..(Len(q) + Len(p))
      /\ \A i \in 1..(Len(q) + Len(p)) :
           (q \o p)[i] = IF i <= Len(q) THEN q[i] ELSE p[i - Len(q)]
  BY ConcatProperties, LenProperties
<1>3. ToSet(q \o p) \subseteq ToSet(q) \cup ToSet(p)
  BY <1>1, <1>2 DEF ToSet
<1>4. ToSet(q) \subseteq ToSet(q \o p)
  BY <1>1, <1>2 DEF ToSet
<1>5. ASSUME NEW j \in 1..Len(p) PROVE p[j] \in ToSet(q \o p)
  <2>1. /\ Len(q) + j \in 1..(Len(q) + Len(p))
        /\ ~(Len(q) + j <= Len(q))
        /\ (Len(q) + j) - Len(q) = j
    BY <1>1
  <2>2. (q \o p)[Len(q) + j] = p[j]
    BY <1>2, <2>1
  <2> QED
    BY <1>2, <2>1, <2>2 DEF ToSet
<1>6. ToSet(p) \subseteq ToSet(q \o p)
  BY <1>1, <1>5 DEF ToSet
<1> QED
  BY <1>2, <1>3, <1>4, <1>6

\* The list has the PGNs of both lists, and each once.
LEMMA Merged ==
  ASSUME NEW S, NEW configured \in Seq(S), NEW managed \in Seq(S)
  PROVE  LET q == mergePGNs(configured, managed)
         IN  /\ q \in Seq(S)
             /\ ToSet(q) = ToSet(configured) \cup ToSet(managed)
             /\ Distinct(q)
<1>0. configured \o managed \in Seq(S)
  BY ConcatProperties
<1>1. PICK all \in Seq(S), n \in Nat :
        all = configured \o managed /\ n = Len(all) /\ DOMAIN all = 1..n
  BY <1>0, LenProperties
<1> DEFINE Folded == CHOOSE g : g = [s \in SUBSET (1..n) |-> Round(all, g, s)]
<1>2. mergePGNs(configured, managed) = Folded[1..n]
  BY <1>1 DEF mergePGNs, FoldLeft, MapThenFoldSet, Round, Merge
<1>3. \E g : g = [s \in SUBSET (1..n) |-> Round(all, g, s)]
  BY MergesExist DEF MergesUpTo
<1>4. PICK g : g = Folded /\ g = [s \in SUBSET (1..n) |-> Round(all, g, s)]
  BY <1>3
<1> HIDE DEF Folded
<1> DEFINE Good(k) == /\ g[1..k] \in Seq(S)
                      /\ ToSet(g[1..k]) = {all[i] : i \in 1..k}
                      /\ Distinct(g[1..k])
           G == {k \in Nat : k <= n => Good(k)}
<1>5. 0 \in G
  <2>1. g[1..0] = <<>>
    BY <1>4 DEF Round
  <2>2. 1..0 = {}
    OBVIOUS
  <2>3. <<>> \in Seq(S) /\ DOMAIN <<>> = {}
    OBVIOUS
  <2>4. ToSet(<<>>) = {} /\ Distinct(<<>>)
    BY <2>3, Zenon DEF ToSet, Distinct
  <2>5. {all[i] : i \in 1..0} = {}
    BY <2>2
  <2>6. Good(0)
    BY <2>1, <2>3, <2>4, <2>5, Zenon
  <2> HIDE DEF Good
  <2> QED
    BY <2>6
<1>6. ASSUME NEW k \in Nat, k \in G PROVE k + 1 \in G
  <2> HIDE DEF Good
  <2> SUFFICES ASSUME k + 1 <= n PROVE Good(k + 1)
    OBVIOUS
  <2>1. Good(k)
    <3>1. k <= n
      OBVIOUS
    <3> QED
      BY <1>6, <3>1, Zenon
  <2> USE DEF Good
  <2>2. Max(1..(k + 1)) = k + 1
    <3>1. k + 1 \in 1..(k + 1) /\ 1..(k + 1) \subseteq Nat /\ \A y \in 1..(k + 1) : k + 1 >= y
      OBVIOUS
    <3> QED
      BY <3>1, LargestIs
  <2>3. (1..(k + 1)) \ {k + 1} = 1..k /\ 1..(k + 1) # {} /\ 1..(k + 1) \in SUBSET (1..n)
    <3>1. k + 1 \in 1..(k + 1)
      OBVIOUS
    <3>2. \A i : i \in (1..(k + 1)) \ {k + 1} <=> i \in 1..k
      OBVIOUS
    <3>3. 1..(k + 1) \subseteq 1..n
      OBVIOUS
    <3> QED
      BY <3>1, <3>2, <3>3, Zenon
  <2>4. g[1..(k + 1)] = Merge(g[1..k], all[k + 1])
    <3>1. g[1..(k + 1)] = Round(all, g, 1..(k + 1))
      BY <1>4, <2>3
    <3> QED
      BY <2>2, <2>3, <3>1, Zenon DEF Round
  <2>5. PICK q \in Seq(S), p \in S : q = g[1..k] /\ p = all[k + 1]
    BY <1>1, <2>1
  <2>6. ToSet(q) = {all[i] : i \in 1..k} /\ Distinct(q)
    BY <2>1, <2>5
  <2>7. {all[i] : i \in 1..(k + 1)} = {all[i] : i \in 1..k} \cup {p}
    BY <2>5
  <2>8. Append(q, p) \in Seq(S) /\ ToSet(Append(q, p)) = ToSet(q) \cup {p}
    BY OneAdded
  <2>9. p \notin ToSet(q) => Distinct(Append(q, p))
    BY <2>6, OneAdded
  <2>10. CASE p \in ToSet(q)
    <3>1. g[1..(k + 1)] = q
      BY <2>4, <2>5, <2>10, Zenon DEF Merge
    <3> QED
      BY <2>6, <2>7, <2>10, <3>1
  <2>11. CASE p \notin ToSet(q)
    <3>1. g[1..(k + 1)] = Append(q, p)
      BY <2>4, <2>5, <2>11, Zenon DEF Merge
    <3>2. {all[i] : i \in 1..(k + 1)} = ToSet(q) \cup {p}
      BY <2>6, <2>7, Zenon
    <3> QED
      BY <2>8, <2>9, <2>11, <3>1, <3>2, Zenon
  <2> QED
    BY <2>10, <2>11
<1>7. n \in G
  <2> HIDE DEF G
  <2> QED
    BY <1>5, <1>6, Counting
<1>8. ToSet(all) = ToSet(configured) \cup ToSet(managed)
  BY <1>1, Concatenated
<1>9. ToSet(all) = {all[i] : i \in 1..n}
  BY <1>1 DEF ToSet
<1>10. Good(n)
  <2> HIDE DEF Good
  <2>1. n <= n
    OBVIOUS
  <2> QED
    BY <1>7, <2>1, Zenon
<1>11. g[1..n] = mergePGNs(configured, managed)
  BY <1>2, <1>4, Zenon
<1> QED
  BY <1>8, <1>9, <1>10, <1>11, Zenon

\* Then it is as long as it has PGNs.
LEMMA DistinctCount ==
  ASSUME NEW S, NEW q \in Seq(S), Distinct(q)
  PROVE  Len(q) = Cardinality(ToSet(q))
<1>1. PICK n \in Nat : n = Len(q) /\ DOMAIN q = 1..n
  OBVIOUS
<1>2. q \in [1..n -> ToSet(q)]
  BY <1>1 DEF ToSet
<1>3. q \in Bijection(1..n, ToSet(q))
  <2>1. \A a, b \in 1..n : q[a] = q[b] => a = b
    BY <1>1 DEF Distinct
  <2>2. \A t \in ToSet(q) : \E a \in 1..n : q[a] = t
    BY <1>1 DEF ToSet
  <2> QED
    BY <1>2, <2>1, <2>2, Fun_IsBij
<1>4. ExistsBijection(1..n, ToSet(q))
  BY <1>3, Fun_ExistsBij
<1> QED
  BY <1>1, <1>4, FS_CountingElements

\* Lists, the one after the other.
LEMMA JoinedLists ==
  ASSUME NEW q, IsList(q), NEW p, IsList(p)
  PROVE  IsList(q \o p) /\ ToSet(q \o p) = ToSet(q) \cup ToSet(p)
<1> DEFINE S == ToSet(q) \cup ToSet(p)
<1>1. q \in Seq(S) /\ p \in Seq(S)
  BY DEF IsList
<1> HIDE DEF S
<1>2. q \o p \in Seq(S) /\ ToSet(q \o p) = ToSet(q) \cup ToSet(p)
  BY <1>1, Concatenated
<1> QED
  BY <1>2, OwnElements

\* A list written down, of five.
LEMMA FiveNames ==
  ASSUME NEW a, NEW b, NEW c, NEW d, NEW e
  PROVE  IsList(<<a, b, c, d, e>>) /\ ToSet(<<a, b, c, d, e>>) = {a, b, c, d, e}
<1>1. <<a, b, c, d, e>> \in Seq({a, b, c, d, e})
  OBVIOUS
<1>2. ToSet(<<a, b, c, d, e>>) = {a, b, c, d, e}
  BY DEF ToSet
<1> QED
  BY <1>1, <1>2, OwnElements

\* A list that names nothing twice.
Once(list) == Len(list) = Cardinality(ToSet(list))

\* What mergePGNs makes of two lists: the PGNs of both, each once.
LEMMA MergedLists ==
  ASSUME NEW configured, IsList(configured), NEW managed, IsList(managed)
  PROVE  LET q == mergePGNs(configured, managed)
         IN  /\ ToSet(q) = ToSet(configured) \cup ToSet(managed)
             /\ Once(q)
<1> DEFINE S == ToSet(configured) \cup ToSet(managed)
<1>1. configured \in Seq(S) /\ managed \in Seq(S)
  BY DEF IsList
<1> HIDE DEF S
<1>2. PICK q : q = mergePGNs(configured, managed)
  OBVIOUS
<1>3. q \in Seq(S) /\ ToSet(q) = ToSet(configured) \cup ToSet(managed) /\ Distinct(q)
  BY <1>1, <1>2, Merged
<1>4. Once(q)
  BY <1>3, DistinctCount DEF Once
<1> QED
  BY <1>2, <1>3, <1>4

\* The PGNs every node lists, and transmits.
AlwaysListed == {"ISOAcknowledgement", "ISOAddressClaim", "NMEAGroupFunction", "PGNList",
                 "ProductInformation"}

\* The two lists a device is sent: they name nothing twice, and the first of them
\* has what the node transmits of itself.
LEMMA PGNLists ==
  ASSUME NEW hasProvider, NEW hasHeartbeat
  PROVE  LET sent == managedTransmitPGNs(TransmitPGNs, hasProvider, hasHeartbeat)
         IN  /\ AlwaysListed \subseteq ToSet(sent)
             /\ hasProvider => "ConfigurationInformation" \in ToSet(sent)
             /\ Once(sent)
             /\ Once(managedReceivePGNs(ReceivePGNs))
<1> DEFINE own == <<"ISOAcknowledgement", "ISOAddressClaim", "NMEAGroupFunction",
                    "PGNList", "ProductInformation">>
           settings == IF hasProvider THEN <<"ConfigurationInformation">> ELSE <<>>
           beat == IF hasHeartbeat THEN <<"Heartbeat">> ELSE <<>>
           known == <<"ISOAcknowledgement", "ISORequest", "ISOAddressClaim",
                      "ISOCommandedAddress", "NMEAGroupFunction">>
<1>1. IsList(own) /\ ToSet(own) = AlwaysListed
  <2>1. /\ IsList(own)
        /\ ToSet(own) = {"ISOAcknowledgement", "ISOAddressClaim", "NMEAGroupFunction", "PGNList",
                         "ProductInformation"}
    BY FiveNames
  <2> HIDE DEF own
  <2> QED
    BY <2>1 DEF AlwaysListed
<1>2. IsList(settings)
  BY BuiltLists
<1>3. hasProvider => "ConfigurationInformation" \in ToSet(settings)
  BY BuiltLists
<1>4. IsList(beat)
  BY BuiltLists
<1>5. IsList(known)
  BY FiveNames, Zenon
<1>6. /\ managedTransmitPGNs(TransmitPGNs, hasProvider, hasHeartbeat)
           = mergePGNs(TransmitPGNs, own \o settings \o beat)
      /\ managedReceivePGNs(ReceivePGNs) = mergePGNs(ReceivePGNs, known)
  BY Zenon DEF managedTransmitPGNs, managedReceivePGNs
<1> HIDE DEF own, settings, beat, known
<1>7. PICK m : m = own \o settings \o beat
  OBVIOUS
<1>8. IsList(m) /\ ToSet(m) = ToSet(own) \cup ToSet(settings) \cup ToSet(beat)
  <2>1. PICK f : f = own \o settings
    OBVIOUS
  <2>2. IsList(f) /\ ToSet(f) = ToSet(own) \cup ToSet(settings)
    BY <1>1, <1>2, <2>1, JoinedLists
  <2>3. IsList(f \o beat) /\ ToSet(f \o beat) = ToSet(f) \cup ToSet(beat)
    BY <1>4, <2>2, JoinedLists
  <2>4. m = f \o beat
    BY <1>7, <2>1
  <2> QED
    BY <2>2, <2>3, <2>4
<1>9. IsList(TransmitPGNs) /\ IsList(ReceivePGNs)
  BY RequestsAssumption DEF IsList
<1>10. /\ ToSet(mergePGNs(TransmitPGNs, m)) = ToSet(TransmitPGNs) \cup ToSet(m)
       /\ Once(mergePGNs(TransmitPGNs, m))
       /\ Once(mergePGNs(ReceivePGNs, known))
  BY <1>5, <1>8, <1>9, MergedLists
<1> QED
  BY <1>1, <1>3, <1>6, <1>7, <1>8, <1>10, Zenon

\* An answer without a list names nothing twice; what a node always lists is a PGN.
LEMMA NothingTwice == Once(<<>>) /\ AlwaysListed \subseteq PGNs
<1>1. ToSet(<<>>) = {} /\ Len(<<>>) = 0
  BY BuiltLists
<1>2. Cardinality({}) = 0
  BY FS_EmptySet
<1> QED
  BY <1>1, <1>2 DEF Once, AlwaysListed, PGNs

-----------------------------------------------------------------------------
(* What a handler's first lock region decides.                             *)

\* Nothing is answered.
Ignores == Done(<<>>)

\* The node answers: it has an address, the request is for it or for everybody,
\* and a group function is only refused here, to the one who sent it to this node;
\* the provider is asked for what there is one for.
Accepts(m) ==
  /\ ~readOnly
  /\ addressClaimed
  /\ m.target \in {networkAddress, GlobalAddress}
  /\ \/ /\ GoOn("get")
        /\ configProvider
        /\ m.type \notin {"isoRequest", "request"} => m.target = networkAddress
     \/ \E list : /\ Done(list)
                  /\ list # <<>>
                  /\ IsList(list)
                  /\ \A r \in ToSet(list) :
                       /\ r.pgn \in AlwaysListed
                       /\ Once(r.list)
                       /\ r.src = networkAddress
                       /\ r.pgn = "NMEAGroupFunction" =>
                            m.target = networkAddress /\ r.code = "nak"
                       /\ m.type = "writeFields" => r.code = "nak"

\* A group function the node does not support is refused or ignored.
LEMMA UnsupportedTakes ==
  ASSUME NEW m, processUnsupportedGroupFunction(m)
  PROVE  Ignores \/ Accepts(m)
<1>1. CASE ~Naks(m)
  BY <1>1 DEF processUnsupportedGroupFunction, Ignores
<1>2. CASE Naks(m)
  <2> DEFINE r == buildNmeaGroupNak(networkAddress)
  <2>1. Done(<<r>>)
    BY <1>2 DEF processUnsupportedGroupFunction
  <2>2. /\ r.pgn = "NMEAGroupFunction" /\ r.code = "nak" /\ r.src = networkAddress
        /\ Once(r.list)
    BY NothingTwice DEF buildNmeaGroupNak, Answer
  <2> HIDE DEF r
  <2>3. \E list : /\ Done(list) /\ list # <<>> /\ IsList(list)
                  /\ \A q \in ToSet(list) : q = r
    BY <2>1, BuiltLists
  <2> QED
    BY <1>2, <2>2, <2>3 DEF Accepts, Naks, AlwaysListed
<1> QED
  BY <1>1, <1>2

\* An ISO request or a Request group function is answered, looked up or ignored.
LEMMA IsoTakes ==
  ASSUME NEW m, m.type \in {"isoRequest", "request"}, processIsoRequest(m)
  PROVE  Ignores \/ Accepts(m)
<1> DEFINE src == networkAddress
           Fits(list) ==
             /\ list # <<>>
             /\ IsList(list)
             /\ \A r \in ToSet(list) : /\ r.src = src
                                      /\ r.pgn \in AlwaysListed \ {"NMEAGroupFunction"}
                                      /\ Once(r.list)
<1>1. ASSUME NEW list, Fits(list), Done(list), IsoRequestAccepted(m)
      PROVE  Accepts(m)
  BY <1>1 DEF Accepts, IsoRequestAccepted
<1>2. CASE ~IsoRequestAccepted(m)
  BY <1>2 DEF processIsoRequest, Ignores
<1>3. CASE IsoRequestAccepted(m) /\ m.pgn \in {"ISOAddressClaim", "ProductInformation"}
                                 /\ Done(<<Answer(m.pgn, "reply", src)>>)
  <2> DEFINE r == Answer(m.pgn, "reply", src)
  <2>1. r.src = src /\ r.pgn \in AlwaysListed \ {"NMEAGroupFunction"} /\ Once(r.list)
    BY <1>3, NothingTwice DEF Answer, AlwaysListed
  <2> HIDE DEF r
  <2>2. Fits(<<r>>)
    BY <2>1, BuiltLists
  <2> QED
    BY <1>1, <1>3, <2>2 DEF r
<1>4. ASSUME NEW sent, Once(sent), NEW received, Once(received),
             Done(<<PgnList("transmit", sent, src), PgnList("receive", received, src)>>),
             IsoRequestAccepted(m)
      PROVE  Accepts(m)
  <2> DEFINE r == PgnList("transmit", sent, src)
             q == PgnList("receive", received, src)
  <2>1. /\ r.src = src /\ r.pgn \in AlwaysListed \ {"NMEAGroupFunction"} /\ Once(r.list)
        /\ q.src = src /\ q.pgn \in AlwaysListed \ {"NMEAGroupFunction"} /\ Once(q.list)
    BY <1>4 DEF PgnList, AlwaysListed
  <2> HIDE DEF r, q
  <2>2. Fits(<<r, q>>)
    BY <2>1, BuiltLists
  <2> QED
    BY <1>1, <1>4, <2>2 DEF r, q
<1>5. CASE IsoRequestAccepted(m) /\ configProvider /\ GoOn("get")
  BY <1>5 DEF Accepts, IsoRequestAccepted
<1>6. CASE IsoRequestAccepted(m) /\ Done(<<buildIsoNak(src)>>)
  <2> DEFINE r == buildIsoNak(src)
  <2>1. r.src = src /\ r.pgn \in AlwaysListed \ {"NMEAGroupFunction"} /\ Once(r.list)
    BY NothingTwice DEF buildIsoNak, Answer, AlwaysListed
  <2> HIDE DEF r
  <2>2. Fits(<<r>>)
    BY <2>1, BuiltLists
  <2> QED
    BY <1>1, <1>6, <2>2 DEF r
<1>7. CASE IsoRequestAccepted(m) /\ Done(<<>>)
  BY <1>7 DEF Ignores
<1> HIDE DEF Fits
<1>8. /\ Once(managedTransmitPGNs(TransmitPGNs, configProvider, heartbeatEnabled))
      /\ Once(managedReceivePGNs(ReceivePGNs))
  BY PGNLists
<1> QED
  BY <1>2, <1>3, <1>4, <1>5, <1>6, <1>7, <1>8 DEF processIsoRequest

\* So is a Write Fields.
LEMMA WriteTakes ==
  ASSUME NEW m, processNmeaWriteFieldsGroupFunction(m)
  PROVE  Ignores \/ Accepts(m)
BY UnsupportedTakes
DEF processNmeaWriteFieldsGroupFunction, FieldsAccepted, Ignores, Accepts

\* Every request is ignored, or accepted on what the lock region saw.
LEMMA TakeEffect ==
  ASSUME NodeOK, TakeRequest
  PROVE  LET m == Head(pgnIn)
         IN  /\ m \in Requests
             /\ pgnIn' \in Seq(Messages \cup Requests)
             /\ job' = [req |-> m, src |-> networkAddress,
                        moving |-> addressState = "Claiming" /\ addressClaimed,
                        listed |-> configProvider, info |-> Nil, before |-> config,
                        applied |-> FALSE]
             /\ Ignores \/ Accepts(m)
<1> DEFINE m == Head(pgnIn)
<1>1. m \in Requests /\ pgnIn' \in Seq(Messages \cup Requests)
  BY HeadTailProperties DEF NodeOK, TakeRequest
<1>2. m = [type |-> m.type, pgn |-> m.pgn, target |-> m.target,
           params |-> m.params, selections |-> m.selections]
  BY <1>1, RequestsAssumption
<1>3. job' = [req |-> m, src |-> networkAddress,
              moving |-> addressState = "Claiming" /\ addressClaimed,
              listed |-> configProvider, info |-> Nil, before |-> config,
              applied |-> FALSE]
  BY Zenon DEF TakeRequest
<1>4. \/ m.type = "isoRequest" /\ processIsoRequest(m)
      \/ m.type = "request" /\ processNmeaRequestGroupFunction(m)
      \/ m.type = "nmeaCommand" /\ processNmeaCommandGroupFunction(m)
      \/ m.type = "writeFields" /\ processNmeaWriteFieldsGroupFunction(m)
      \/ m.type = "readFields" /\ processNmeaReadFieldsGroupFunction(m)
  BY Zenon DEF TakeRequest
<1> HIDE DEF m
<1>5. ASSUME m.type = "isoRequest", processIsoRequest(m)
      PROVE  Ignores \/ Accepts(m)
  BY <1>5, IsoTakes
<1>6. ASSUME m.type = "request", processNmeaRequestGroupFunction(m)
      PROVE  Ignores \/ Accepts(m)
  BY <1>6, IsoTakes, UnsupportedTakes DEF processNmeaRequestGroupFunction, Ignores
<1>7. ASSUME m.type = "nmeaCommand", processNmeaCommandGroupFunction(m)
      PROVE  Ignores \/ Accepts(m)
  <2> DEFINE w == [m EXCEPT !.selections = 0]
  <2>1. w.type = m.type /\ w.target = m.target
    BY <1>2
  <2>2. \/ Done(<<>>)
        \/ processNmeaWriteFieldsGroupFunction(w)
        \/ processUnsupportedGroupFunction(m)
    BY <1>7, Zenon DEF processNmeaCommandGroupFunction
  <2> HIDE DEF w
  <2>3. Accepts(w) => Accepts(m)
    BY <2>1 DEF Accepts
  <2> QED
    BY <2>2, <2>3, WriteTakes, UnsupportedTakes, Zenon DEF Ignores
<1>8. ASSUME m.type = "writeFields", processNmeaWriteFieldsGroupFunction(m)
      PROVE  Ignores \/ Accepts(m)
  BY <1>8, WriteTakes
<1>9. ASSUME m.type = "readFields", processNmeaReadFieldsGroupFunction(m)
      PROVE  Ignores \/ Accepts(m)
  BY <1>9 DEF processNmeaReadFieldsGroupFunction, FieldsAccepted, Ignores, Accepts
<1>10. Ignores \/ Accepts(m)
  BY <1>4, <1>5, <1>6, <1>7, <1>8, <1>9, Zenon
<1> QED
  BY <1>1, <1>3, <1>10, Zenon DEF m

-----------------------------------------------------------------------------
(* The types of a request in hand.                                         *)

\* A request is in hand where it is handled, of the kind the handler there is for,
\* and there are answers, with their PGNs, exactly where they are sent.
JobOK ==
  /\ job \in Jobs \cup {Nil}
  /\ pc \in RequestPcs => job \in Jobs
  /\ pc \in {"set", "ack"} => Writes
  /\ pc = "set" => job.info \in [Fields -> ConfigValues]
  /\ pc = "ack" => job.req.type = "nmeaCommand"
  /\ pc \in {"send", "publish"} => responses # <<>>
  /\ pc \notin {"send", "publish"} => responses = <<>>
  /\ IsList(responses)
  /\ \A r \in ToSet(responses) : r.pgn \in PGNs

RequestsOK == /\ NodeOK
              /\ configProvider \in BOOLEAN
              /\ config \in [Fields -> ConfigValues]
              /\ edits \in Nat
              /\ JobOK

\* What is handled last in a list of parameters is one of them.
LEMMA LastOne ==
  ASSUME NEW n \in Nat, NEW S \in SUBSET (1..n), S # {}
  PROVE  Max(S) \in S
<1> DEFINE T == {t \in Nat : n - t \in S}
<1>1. T \subseteq Nat /\ T # {}
  <2>1. PICK i \in S : TRUE
    OBVIOUS
  <2>2. n - i \in Nat /\ n - (n - i) = i
    OBVIOUS
  <2> QED
    BY <2>1, <2>2
<1>2. PICK t \in T : \A x \in T : t <= x
  BY <1>1, LeastElement
<1>3. n - t \in S /\ \A x \in S : n - t >= x
  <2>1. ASSUME NEW x \in S PROVE n - t >= x
    <3>1. n - x \in Nat /\ n - (n - x) = x
      OBVIOUS
    <3> QED
      BY <1>2, <3>1
  <2> QED
    BY <1>2, <2>1
<1> QED
  BY <1>3 DEF Max

\* What is stored is a configuration once every parameter has been checked.
LEMMA ChangedFacts ==
  ASSUME JobOK, job \in Jobs, config \in [Fields -> ConfigValues], Unstorable = {}
  PROVE  Changed \in [Fields -> ConfigValues]
<1>1. job.req.params \in Seq(Parameters)
  BY RequestsAssumption DEF Jobs
<1>2. /\ Len(job.req.params) \in Nat
      /\ DOMAIN job.req.params = 1..Len(job.req.params)
      /\ \A i \in DOMAIN job.req.params : job.req.params[i] \in Parameters
  BY <1>1, LenProperties
<1>3. \A i \in Named : job.req.params[i].value \in ConfigValues
  BY <1>2 DEF Unstorable, Named, Parameters
<1>4. ASSUME NEW k \in Fields PROVE Changed[k] \in ConfigValues
  <2> DEFINE given == Given(job.req, k)
  <2>1. Changed[k] = IF given = {} THEN config[k] ELSE job.req.params[Max(given)].value
    BY DEF Changed
  <2>2. given \in SUBSET (1..Len(job.req.params)) /\ given \subseteq Named
    BY <1>2, RequestsAssumption DEF Given, Named
  <2>3. given # {} => Max(given) \in given
    BY <1>2, <2>2, LastOne
  <2> QED
    BY <1>3, <2>1, <2>2, <2>3
<1> QED
  BY <1>4 DEF Changed

\* What becomes of a handler's result.
LEMMA Hands ==
  /\ Done(<<>>) => pc' = "top" /\ responses' = <<>>
  /\ \A r : Done(<<r>>) => /\ pc' = "send"
                           /\ responses' = <<r>>
                           /\ responses' # <<>>
                           /\ IsList(responses')
                           /\ ToSet(responses') = {r}
BY BuiltLists DEF Done

\* A list that is not empty is sent.
LEMMA HandsOn ==
  ASSUME NEW list, Done(list), list # <<>>
  PROVE  pc' = "send" /\ responses' = list
BY DEF Done

-----------------------------------------------------------------------------
(* The steps of the node with requests.                                    *)

\* What moves beside the process goroutine: the application, callers of Stop, the
\* callback, the tickers, and the application's configuration.
Others ==
  /\ UNCHANGED <<job, responses, published>>
  /\ \/ UNCHANGED <<config, edited>>
     \/ \E k \in Fields, v \in ConfigValues : EditConfiguration(k, v)
  /\ \/ Application \/ FinishStop \/ Enqueue \/ ClaimTick \/ HeartbeatTick
     \/ \E m \in Messages \cup Requests : CallbackBegin(m)
     \/ UNCHANGED vars

\* A step answers, goes on with the claim, or is someone else's.
LEMMA StepKinds ==
  ASSUME [NextRequests]_allVars
  PROVE  \/ Answering
         \/ Process /\ UNCHANGED requestVars
         \/ Others
BY Zenon DEF NextRequests, Next, allVars, requestVars, Others, SetConfigurationProvider,
             EditConfiguration

\* The claim goes on only where no request is handled.
LEMMA ProcessPlace == ASSUME Process PROVE pc \in Pcs
<1> USE DEF Pcs
<1>1. CASE LoopTop \/ sendAddressClaim \/ PublishClaim \/ sendHeartbeat \/ PublishHeartbeat
  BY <1>1, Zenon
  DEF LoopTop, sendAddressClaim, PublishClaim, sendHeartbeat, PublishHeartbeat
<1>2. CASE SelectEnter \/ TakeClaim \/ TakeInfo \/ processIsoAddressClaim \/ YieldAddress \/ TakeCommand
  BY <1>2, Zenon
  DEF SelectEnter, TakeClaim, TakeInfo, processIsoAddressClaim, YieldAddress, TakeCommand
<1>3. CASE \/ processIsoCommandedAddress \/ TakeClaimTick \/ TakeHeartbeatTick
           \/ TakeWakeUp \/ TakeDone
  BY <1>3, Zenon
  DEF processIsoCommandedAddress, TakeClaimTick, TakeHeartbeatTick, TakeWakeUp, TakeDone
<1> QED
  BY <1>1, <1>2, <1>3 DEF Process

\* No request is handled there, nor where the goroutine waits.
LEMMA PlacesApart == Pcs \cap RequestPcs = {} /\ "top" \in Pcs /\ "off" \in Pcs /\ "wait" \in Pcs
BY DEF Pcs, RequestPcs

\* The others leave the goroutine where it is, or start it.
LEMMA OthersPlace ==
  ASSUME NodeOK, Others
  PROVE  pc' = pc \/ (pc = "off" /\ pc' = "top")
<1>1. (\E s \in Stoppers : StopReset(s)) => pc' = pc
  BY Zenon DEF StopReset, processVars
<1>2. Bystands \/ Claims => pc' = pc
  BY Zenon DEF Bystands, Claims
<1>3. \/ Application \/ FinishStop \/ Enqueue \/ ClaimTick \/ HeartbeatTick
      \/ \E m \in Messages \cup Requests : CallbackBegin(m)
      \/ UNCHANGED vars
  BY Zenon DEF Others
<1>4. \/ Bystands
      \/ Claims
      \/ /\ pc = "off" /\ pc' = "top"
         /\ UNCHANGED <<networkAddress, readOnly>>
         /\ budget'.claim = budget.claim
      \/ \E s \in Stoppers : StopReset(s)
  BY <1>3, OthersStandBy, Zenon
<1> QED
  BY <1>1, <1>2, <1>4, Zenon

\* What the provider's answer to the question for the configuration leads to: the
\* write is checked and stored next, refused, or the result is sent; a result says
\* "reply" or that there is none, and leaves from the address that was read.
LEMMA GetEffect ==
  ASSUME GetConfigurationInfo
  PROVE  \/ /\ Writes
            /\ Unstorable = {}
            /\ GoOn("set")
            /\ job' = [job EXCEPT !.info = Changed]
         \/ /\ job.req.type \notin {"isoRequest", "request"}
            /\ GoOn("refuse")
            /\ UNCHANGED job
         \/ /\ Done(<<>>)
            /\ UNCHANGED job
         \/ /\ ~Writes
            /\ UNCHANGED job
            /\ \E r : /\ Done(<<r>>)
                      /\ r.src = job.src
                      /\ r.pgn \in PGNs
                      /\ Once(r.list)
                      /\ \/ r.pgn # "NMEAGroupFunction"
                         \/ job.req.type \notin {"isoRequest", "request"}
<1>1. ASSUME ~Writes, UNCHANGED job, NEW r, Done(<<r>>), r.src = job.src, r.pgn \in PGNs,
             Once(r.list),
             \/ r.pgn # "NMEAGroupFunction"
             \/ job.req.type \notin {"isoRequest", "request"}
      PROVE  /\ ~Writes
             /\ UNCHANGED job
             /\ \E q : /\ Done(<<q>>)
                       /\ q.src = job.src
                       /\ q.pgn \in PGNs
                       /\ Once(q.list)
                       /\ \/ q.pgn # "NMEAGroupFunction"
                          \/ job.req.type \notin {"isoRequest", "request"}
  BY <1>1, Zenon
<1>2. ASSUME NEW code
      PROVE  LET r == Answer("NMEAGroupFunction", code, job.src)
             IN  r.src = job.src /\ r.pgn \in PGNs /\ Once(r.list)
  BY NothingTwice DEF Answer, PGNs
<1>3. ASSUME NEW code
      PROVE  LET r == Answer("ConfigurationInformation", code, job.src)
             IN  /\ r.src = job.src /\ r.pgn \in PGNs /\ r.pgn # "NMEAGroupFunction"
                 /\ Once(r.list)
  BY NothingTwice DEF Answer, PGNs
<1>4. LET r == buildIsoNak(job.src)
      IN  /\ r.src = job.src /\ r.pgn \in PGNs /\ r.pgn # "NMEAGroupFunction"
          /\ Once(r.list)
  BY NothingTwice DEF buildIsoNak, Answer, PGNs
<1>5. job.req.type \in {"readFields", "isoRequest", "request"} => ~Writes
  BY DEF Writes
<1>6. Writes => job.req.type \notin {"isoRequest", "request"}
  BY DEF Writes
<1>7. job.req.type = "readFields" => job.req.type \notin {"isoRequest", "request"}
  OBVIOUS
<1>8. CASE Writes /\ BuildWrite
  BY <1>8, <1>6, Zenon DEF BuildWrite
<1>9. CASE job.req.type = "readFields" /\ BuildRead
  <2>1. CASE Unreadable = {}
    BY <1>1, <1>2, <1>5, <1>7, <1>9, <2>1 DEF BuildRead
  <2>2. CASE Unreadable # {}
    BY <1>7, <1>9, <2>2, Zenon DEF BuildRead
  <2> QED
    BY <2>1, <2>2
<1>10. CASE /\ job.req.type \in {"isoRequest", "request"}
            /\ Done(<<Answer("ConfigurationInformation", "reply", job.src)>>)
            /\ UNCHANGED job
  BY <1>1, <1>3, <1>5, <1>10
<1>11. CASE /\ job.req.type \in {"isoRequest", "request"}
            /\ Done(<<buildIsoNak(job.src)>>)
            /\ UNCHANGED job
  BY <1>1, <1>4, <1>5, <1>11
<1>12. CASE Writes /\ GoOn("refuse") /\ UNCHANGED job
  BY <1>6, <1>12, Zenon
<1>13. CASE Done(<<>>) /\ UNCHANGED job
  BY <1>13, Zenon
<1> QED
  BY <1>8, <1>9, <1>10, <1>11, <1>12, <1>13, Zenon
  DEF GetConfigurationInfo, GetSucceeds, GetFails

\* What storing leads to: a Write Fields that was stored is told so, a command goes
\* on to its acknowledgement, and what the provider refused is refused.
LEMMA SetEffect ==
  ASSUME SetConfigurationInfo, Writes
  PROVE  \/ /\ job' = [job EXCEPT !.applied = TRUE]
            /\ config' = job.info
            /\ \/ GoOn("ack") /\ job.req.type = "nmeaCommand"
               \/ \E r : /\ Done(<<r>>)
                         /\ r.src = job.src
                         /\ r.pgn = "NMEAGroupFunction"
                         /\ r.code = "reply"
                         /\ Once(r.list)
         \/ /\ GoOn("refuse")
            /\ UNCHANGED <<config, job>>
<1> DEFINE r == Answer("NMEAGroupFunction", "reply", job.src)
<1>1. r.src = job.src /\ r.pgn = "NMEAGroupFunction" /\ r.code = "reply" /\ Once(r.list)
  BY NothingTwice DEF Answer
<1>2. \/ /\ config' = job.info
         /\ job' = [job EXCEPT !.applied = TRUE]
         /\ WriteReturns(<<r>>)
      \/ GoOn("refuse") /\ UNCHANGED <<config, job>>
  BY Zenon DEF SetConfigurationInfo
<1> HIDE DEF r
<1> QED
  BY <1>1, <1>2, Zenon DEF WriteReturns

\* A refusal is sent to one who wrote to this node, from the address the node has
\* now; a refused command is acknowledged all the same.
LEMMA RefuseEffect ==
  ASSUME Refuse
  PROVE  \/ Done(<<>>)
         \/ GoOn("ack") /\ job.req.type = "nmeaCommand"
         \/ \E r : /\ Done(<<r>>)
                   /\ ~readOnly
                   /\ r.src = networkAddress
                   /\ r.pgn = "NMEAGroupFunction"
                   /\ r.code = "nak"
                   /\ Once(r.list)
<1> DEFINE r == buildNmeaGroupNak(networkAddress)
<1>1. /\ r.src = networkAddress /\ r.pgn = "NMEAGroupFunction" /\ r.code = "nak"
      /\ Once(r.list)
  BY NothingTwice DEF buildNmeaGroupNak, Answer
<1>2. WriteReturns(IF Naks(job.req) THEN <<r>> ELSE <<>>)
  BY Zenon DEF Refuse
<1> HIDE DEF r
<1>3. CASE Naks(job.req)
  BY <1>1, <1>2, <1>3, Zenon DEF WriteReturns, Naks
<1>4. CASE ~Naks(job.req)
  BY <1>2, <1>4, Zenon DEF WriteReturns
<1> QED
  BY <1>3, <1>4

\* The acknowledgement leaves from the address the node has now.
LEMMA AckEffect ==
  ASSUME AcknowledgeCommand
  PROVE  \E r : /\ Done(<<r>>)
                /\ r.src = networkAddress
                /\ r.pgn = "NMEAGroupFunction"
                /\ Once(r.list)
<1> DEFINE r == Answer("NMEAGroupFunction", "ack", networkAddress)
<1>1. /\ r.src = networkAddress /\ r.pgn = "NMEAGroupFunction" /\ Done(<<r>>)
      /\ Once(r.list)
  BY NothingTwice DEF Answer, AcknowledgeCommand
<1> HIDE DEF r
<1> QED
  BY <1>1

\* Answering leaves the node as it is, but for the queue and the place.
LEMMA AnswersApart ==
  ASSUME Answering
  PROVE  /\ UNCHANGED <<nodeVars, configProvider, edits>>
         /\ pc \in RequestPcs \/ (pc = "wait" /\ TakeRequest)
         /\ TakeRequest \/ UNCHANGED pgnIn
         /\ pc = "publish" \/ TakeRequest \/ UNCHANGED published
<1> USE DEF InProcess, RequestPcs
<1>1. CASE TakeRequest
  BY <1>1, Zenon DEF TakeRequest
<1>2. CASE GetConfigurationInfo
  BY <1>2, Zenon DEF GetConfigurationInfo
<1>3. CASE SetConfigurationInfo
  BY <1>3, Zenon DEF SetConfigurationInfo
<1>4. CASE Refuse
  BY <1>4, Zenon DEF Refuse
<1>5. CASE AcknowledgeCommand
  BY <1>5, Zenon DEF AcknowledgeCommand
<1>6. CASE sendProcessResponses
  BY <1>6, Zenon DEF sendProcessResponses
<1>7. CASE PublishResponse
  BY <1>7, Zenon DEF PublishResponse
<1> QED
  BY <1>1, <1>2, <1>3, <1>4, <1>5, <1>6, <1>7 DEF Answering

\* A request taken from the queue is in hand, with its answers if it has them.
LEMMA TakeOK ==
  ASSUME RequestsOK, TakeRequest
  PROVE  /\ pc' \in {"top", "get", "send"}
         /\ JobOK'
<1> DEFINE m == Head(pgnIn)
<1>1. /\ m \in Requests
      /\ job' = [req |-> m, src |-> networkAddress,
                 moving |-> addressState = "Claiming" /\ addressClaimed,
                 listed |-> configProvider, info |-> Nil, before |-> config,
                 applied |-> FALSE]
      /\ Ignores \/ Accepts(m)
  BY TakeEffect DEF RequestsOK
<1>2. (addressState = "Claiming" /\ addressClaimed) \in BOOLEAN
  BY Zenon
<1>3. /\ networkAddress \in Address /\ configProvider \in BOOLEAN
      /\ config \in [Fields -> ConfigValues]
  BY DEF RequestsOK, NodeOK
<1>4. job' \in Jobs
  BY <1>1, <1>2, <1>3 DEF Jobs
<1>5. pc = "wait"
  BY DEF TakeRequest
<1>6. responses = <<>>
  BY <1>5 DEF RequestsOK, JobOK
<1> HIDE DEF m
<1>7. CASE Ignores
  <2>1. pc' = "top" /\ responses' = <<>>
    BY <1>7, Hands DEF Ignores
  <2> QED
    BY <1>4, <2>1, BuiltLists, PlacesApart DEF JobOK, RequestPcs
<1>8. CASE /\ GoOn("get")
           /\ Accepts(m)
  <2>1. pc' = "get" /\ responses' = <<>>
    BY <1>6, <1>8 DEF GoOn
  <2> QED
    BY <1>4, <2>1, BuiltLists DEF JobOK
<1>9. ASSUME NEW list, Done(list), list # <<>>, IsList(list),
             \A r \in ToSet(list) : r.pgn \in AlwaysListed
      PROVE  /\ pc' \in {"top", "get", "send"}
             /\ JobOK'
  <2>1. pc' = "send" /\ responses' = list
    BY <1>9, HandsOn
  <2> QED
    BY <1>4, <1>9, <2>1, NothingTwice DEF JobOK
<1> QED
  BY <1>1, <1>7, <1>8, <1>9 DEF Accepts

\* So is one whose handler goes on.
LEMMA AnswerOK ==
  ASSUME RequestsOK, Answering, ~TakeRequest
  PROVE  /\ pc' \in {"top"} \cup RequestPcs
         /\ JobOK'
         /\ config' \in [Fields -> ConfigValues]
<1> pc \in RequestPcs
  BY AnswersApart
<1>1. /\ JobOK
      /\ job \in Jobs
      /\ config \in [Fields -> ConfigValues]
  BY DEF RequestsOK, JobOK
<1>2. ASSUME pc' = "top", responses' = <<>>, UNCHANGED <<job, config>>
      PROVE  /\ pc' \in {"top"} \cup RequestPcs
             /\ JobOK'
             /\ config' \in [Fields -> ConfigValues]
  BY <1>1, <1>2, BuiltLists, PlacesApart DEF JobOK
<1>3. ASSUME GoOn("refuse"), pc \notin {"send", "publish"}, UNCHANGED <<job, config>>
      PROVE  /\ pc' \in {"top"} \cup RequestPcs
             /\ JobOK'
             /\ config' \in [Fields -> ConfigValues]
  BY <1>1, <1>3 DEF JobOK, GoOn, RequestPcs
<1>4. ASSUME NEW r, Done(<<r>>), r.pgn \in PGNs, job' \in Jobs,
             config' \in [Fields -> ConfigValues]
      PROVE  /\ pc' \in {"top"} \cup RequestPcs
             /\ JobOK'
             /\ config' \in [Fields -> ConfigValues]
  <2>1. /\ pc' = "send" /\ responses' # <<>> /\ IsList(responses') /\ ToSet(responses') = {r}
    BY <1>4, Hands
  <2> QED
    BY <1>4, <2>1 DEF JobOK, RequestPcs
<1>5. ASSUME GoOn("ack"), job.req.type = "nmeaCommand", pc \notin {"send", "publish"},
             job' \in Jobs, job'.req = job.req, config' \in [Fields -> ConfigValues]
      PROVE  /\ pc' \in {"top"} \cup RequestPcs
             /\ JobOK'
             /\ config' \in [Fields -> ConfigValues]
  BY <1>1, <1>5 DEF JobOK, GoOn, RequestPcs, Writes
<1>6. "NMEAGroupFunction" \in PGNs
  BY DEF PGNs
<1>7. CASE GetConfigurationInfo
  <2>1. UNCHANGED config /\ pc = "get"
    BY <1>7 DEF GetConfigurationInfo
  <2>2. CASE /\ Writes
             /\ Unstorable = {}
             /\ GoOn("set")
             /\ job' = [job EXCEPT !.info = Changed]
    <3>1. Changed \in [Fields -> ConfigValues]
      BY <1>1, <2>2, ChangedFacts
    <3>2. job' \in Jobs /\ job'.req = job.req /\ job'.info = Changed
      BY <1>1, <2>2, <3>1 DEF Jobs
    <3> QED
      BY <1>1, <2>1, <2>2, <3>1, <3>2 DEF JobOK, GoOn, RequestPcs, Writes
  <2>3. CASE GoOn("refuse") /\ UNCHANGED job
    BY <1>3, <2>1, <2>3
  <2>4. CASE Done(<<>>) /\ UNCHANGED job
    BY <1>2, <2>1, <2>4, Hands
  <2>5. CASE \E r : Done(<<r>>) /\ r.pgn \in PGNs /\ UNCHANGED job
    BY <1>1, <1>4, <2>1, <2>5
  <2> QED
    BY <1>7, <2>2, <2>3, <2>4, <2>5, GetEffect, Zenon
<1>8. CASE SetConfigurationInfo
  <2>1. pc = "set"
    BY <1>8 DEF SetConfigurationInfo
  <2>2. Writes /\ job.info \in [Fields -> ConfigValues]
    BY <1>1, <2>1 DEF JobOK
  <2>3. [job EXCEPT !.applied = TRUE] \in Jobs /\ [job EXCEPT !.applied = TRUE].req = job.req
    BY <1>1 DEF Jobs
  <2>4. CASE GoOn("refuse") /\ UNCHANGED <<config, job>>
    BY <1>3, <2>1, <2>4
  <2>5. CASE /\ job' = [job EXCEPT !.applied = TRUE]
             /\ config' = job.info
             /\ GoOn("ack") /\ job.req.type = "nmeaCommand"
    BY <1>5, <2>1, <2>2, <2>3, <2>5
  <2>6. CASE /\ job' = [job EXCEPT !.applied = TRUE]
             /\ config' = job.info
             /\ \E r : Done(<<r>>) /\ r.pgn = "NMEAGroupFunction"
    BY <1>4, <1>6, <2>2, <2>3, <2>6
  <2> QED
    BY <1>8, <2>2, <2>4, <2>5, <2>6, SetEffect, Zenon
<1>9. CASE Refuse
  <2>1. pc = "refuse" /\ UNCHANGED <<config, job>>
    BY <1>9 DEF Refuse
  <2> QED
    BY <1>1, <1>2, <1>4, <1>5, <1>6, <1>9, <2>1, RefuseEffect, Hands
<1>10. CASE AcknowledgeCommand
  <2>1. UNCHANGED <<config, job>>
    BY <1>10 DEF AcknowledgeCommand
  <2> QED
    BY <1>1, <1>4, <1>6, <1>10, <2>1, AckEffect
<1>11. CASE sendProcessResponses
  <2>1. pc = "send" /\ UNCHANGED <<config, job>>
    BY <1>11 DEF sendProcessResponses
  <2>2. CASE pc' = "top" /\ responses' = <<>>
    BY <1>2, <2>1, <2>2
  <2>3. CASE GoOn("publish")
    BY <1>1, <2>1, <2>3 DEF JobOK, GoOn, RequestPcs
  <2> QED
    BY <1>11, <2>2, <2>3, Zenon DEF sendProcessResponses
<1>12. CASE PublishResponse
  <2>1. /\ pc = "publish" /\ UNCHANGED <<config, job>>
        /\ responses' = Tail(responses)
        /\ pc' = IF Tail(responses) = <<>> THEN "top" ELSE "publish"
    BY <1>12, Zenon DEF PublishResponse
  <2>2. /\ IsList(responses')
        /\ ToSet(responses') \subseteq ToSet(responses)
    BY <1>1, <2>1, AnswersLeft DEF JobOK
  <2>3. \A r \in ToSet(responses') : r.pgn \in PGNs
    BY <1>1, <2>2 DEF JobOK
  <2> QED
    BY <1>1, <2>1, <2>2, <2>3, PlacesApart DEF JobOK, RequestPcs
<1> QED
  BY <1>7, <1>8, <1>9, <1>10, <1>11, <1>12 DEF Answering

\* Every step keeps the types.
LEMMA RequestsOKStep == ASSUME RequestsOK, [NextRequests]_allVars PROVE RequestsOK'
<1>1. CASE Answering
  <2>1. UNCHANGED <<nodeVars, configProvider, edits>>
    BY <1>1, AnswersApart, Zenon
  <2>2. /\ pc' \in {"top"} \cup RequestPcs
        /\ JobOK'
    BY <1>1, TakeOK, AnswerOK DEF RequestPcs
  <2>3. config' \in [Fields -> ConfigValues]
    BY <1>1, AnswerOK DEF TakeRequest, RequestsOK
  <2>4. pgnIn' \in Seq(Messages \cup Requests)
    <3>1. CASE TakeRequest
      BY <3>1, TakeEffect DEF RequestsOK
    <3>2. CASE UNCHANGED pgnIn
      BY <3>2 DEF RequestsOK, NodeOK
    <3> QED
      BY <1>1, <3>1, <3>2, AnswersApart
  <2>5. NodeOK'
    BY <2>1, <2>2, <2>4
    DEF RequestsOK, NodeOK, nodeVars, addressVars, otherVars, Pcs, RequestPcs
  <2>6. configProvider' \in BOOLEAN /\ edits' \in Nat
    BY <2>1 DEF RequestsOK
  <2> QED
    BY <2>2, <2>3, <2>5, <2>6 DEF RequestsOK
<1>2. CASE Process /\ UNCHANGED requestVars
  <2>1. NodeOK' /\ pc' \in Pcs
    BY <1>2, ProcessOKStep DEF RequestsOK
  <2>2. pc \in Pcs
    BY <1>2, ProcessPlace
  <2>3. pc \notin RequestPcs /\ pc' \notin RequestPcs
    BY <2>1, <2>2, PlacesApart
  <2>4. JobOK'
    BY <1>2, <2>3 DEF RequestsOK, JobOK, RequestPcs, requestVars
  <2> QED
    BY <1>2, <2>1, <2>4 DEF RequestsOK, requestVars
<1>3. CASE Others
  <2>1. NodeOK'
    BY <1>3, OtherOKStep DEF Others, RequestsOK
  <2>2. pc' = pc \/ (pc = "off" /\ pc' = "top")
    BY <1>3, OthersPlace DEF RequestsOK
  <2>3. UNCHANGED <<job, responses>>
    BY <1>3, Zenon DEF Others
  <2>4. JobOK'
    BY <2>2, <2>3 DEF RequestsOK, JobOK, RequestPcs, Writes
  <2>5. CASE UNCHANGED <<configProvider, config, edits>>
    BY <2>1, <2>4, <2>5 DEF RequestsOK
  <2>6. CASE SetConfigurationProvider
    BY <2>1, <2>4, <2>6 DEF RequestsOK, SetConfigurationProvider
  <2>7. CASE \E k \in Fields, v \in ConfigValues : EditConfiguration(k, v)
    BY <2>1, <2>4, <2>7 DEF RequestsOK, EditConfiguration
  <2>8. CASE Answering
    BY <1>1, <2>8
  <2> QED
    BY <1>3, <2>5, <2>6, <2>7, <2>8, Zenon
    DEF NextRequests, allVars, requestVars
<1> QED
  BY <1>1, <1>2, <1>3, StepKinds

\* The node without a request in hand has its types.
LEMMA RequestsOKInit == InitRequests => RequestsOK
<1> SUFFICES ASSUME InitRequests PROVE RequestsOK
  OBVIOUS
<1>1. NodeOK
  BY NodeOKInit DEF InitRequests
<1>2. configProvider \in BOOLEAN /\ edits \in Nat
  BY RequestsAssumption DEF InitRequests
<1>3. config \in [Fields -> ConfigValues]
  BY RequestsAssumption DEF InitRequests
<1>4. pc = "off"
  BY DEF InitRequests, Init
<1>5. job = Nil /\ responses = <<>>
  BY DEF InitRequests
<1>6. JobOK
  BY <1>4, <1>5, BuiltLists DEF JobOK, RequestPcs
<1> QED
  BY <1>1, <1>2, <1>3, <1>6 DEF RequestsOK

\* The types hold throughout.
LEMMA RequestsAlwaysOK == SpecRequests => []RequestsOK
BY RequestsOKInit, RequestsOKStep, PTL DEF SpecRequests

\* Wherever the goroutine is, it has a request in hand and answers when it needs
\* them, whatever the lists of parameters, the provider and the application do.
THEOREM RequestTypesHold == SpecRequests => []RequestsTypeOK
<1>1. RequestsOK => RequestsTypeOK
  <2> SUFFICES ASSUME RequestsOK PROVE RequestsTypeOK
    OBVIOUS
  <2>1. /\ pc \in Pcs \cup RequestPcs
        /\ configProvider \in BOOLEAN
        /\ config \in [Fields -> ConfigValues]
        /\ job \in Jobs \cup {Nil}
    BY DEF RequestsOK, NodeOK, JobOK
  <2>2. pc \in RequestPcs => job # Nil
    BY RequestsAssumption DEF RequestsOK, JobOK
  <2>3. pc = "set" => job.info # Nil
    BY RequestsAssumption DEF RequestsOK, JobOK
  <2>4. (pc \in {"send", "publish"}) = (responses # <<>>)
    BY DEF RequestsOK, JobOK
  <2>5. \A i \in DOMAIN responses : responses[i] \in ToSet(responses)
    BY DEF ToSet
  <2>6. \A i \in DOMAIN responses : responses[i].pgn \in PGNs
    BY <2>5 DEF RequestsOK, JobOK
  <2> QED
    BY <2>1, <2>2, <2>3, <2>4, <2>6 DEF RequestsTypeOK
<1> QED
  BY <1>1, RequestsAlwaysOK, PTL

-----------------------------------------------------------------------------
(* A reply to a Write Fields is true.                                      *)

\* An answer says whether the provider has taken the change of its job.
Tells(j, answer) == j.applied = (answer.code = "reply")

\* Until the provider has been asked to store, nothing is; the answers to a Write
\* Fields say what became of it, and so does the one that was published last.
TruthInv ==
  /\ pc \in {"get", "set", "refuse"} => job.applied = FALSE
  /\ pc \in {"send", "publish"} /\ job.req.type = "writeFields"
       => \A r \in ToSet(responses) : Tells(job, r)
  /\ RepliesTellTheTruth

\* Taking a request from the queue keeps that.
LEMMA TakeTruth == ASSUME RequestsOK, TakeRequest PROVE TruthInv'
<1> DEFINE m == Head(pgnIn)
<1>1. /\ m \in Requests
      /\ job' = [req |-> m, src |-> networkAddress,
                 moving |-> addressState = "Claiming" /\ addressClaimed,
                 listed |-> configProvider, info |-> Nil, before |-> config,
                 applied |-> FALSE]
      /\ Ignores \/ Accepts(m)
  BY TakeEffect DEF RequestsOK
<1> HIDE DEF m
<1>2. job'.applied = FALSE /\ job'.req = m
  BY <1>1
<1>3. RepliesTellTheTruth'
  BY DEF TakeRequest, RepliesTellTheTruth
<1>4. CASE Ignores
  BY <1>3, <1>4, Hands DEF TruthInv, Ignores
<1>5. CASE GoOn("get")
  BY <1>2, <1>3, <1>5 DEF TruthInv, GoOn
<1>6. ASSUME NEW list, Done(list), list # <<>>,
             \A r \in ToSet(list) : m.type = "writeFields" => r.code = "nak"
      PROVE  TruthInv'
  <2>1. pc' = "send" /\ responses' = list
    BY <1>6, HandsOn
  <2>2. ASSUME NEW r \in ToSet(list), m.type = "writeFields" PROVE Tells(job', r)
    BY <1>2, <1>6, <2>2 DEF Tells
  <2> QED
    BY <1>2, <1>3, <2>1, <2>2 DEF TruthInv
<1> QED
  BY <1>1, <1>4, <1>5, <1>6 DEF Accepts

\* So does what its handler does then.
LEMMA AnswerTruth ==
  ASSUME RequestsOK, TruthInv, Answering, ~TakeRequest
  PROVE  TruthInv'
<1>1. pc \in RequestPcs /\ job \in Jobs /\ JobOK
  BY AnswersApart DEF RequestsOK, JobOK
<1>2. CASE PublishResponse
  <2>1. /\ pc = "publish" /\ UNCHANGED job
        /\ responses' = Tail(responses)
        /\ pc' \in {"top", "publish"}
        /\ \/ published' = [answer |-> Head(responses), job |-> job, won |-> won]
           \/ published' = Nil
    BY <1>2, Zenon DEF PublishResponse
  <2>2. /\ Head(responses) \in ToSet(responses)
        /\ ToSet(responses') \subseteq ToSet(responses)
    BY <1>1, <2>1, AnswersLeft DEF JobOK
  <2>3. job.req.type = "writeFields" => \A r \in ToSet(responses) : Tells(job, r)
    BY <2>1 DEF TruthInv
  <2>4. RepliesTellTheTruth'
    <3>1. CASE published' = Nil
      BY <3>1 DEF RepliesTellTheTruth
    <3>2. CASE published' = [answer |-> Head(responses), job |-> job, won |-> won]
      <4>1. published'.job = job /\ published'.answer = Head(responses)
        BY <3>2
      <4>2. job.req.type = "writeFields" => Tells(job, Head(responses))
        BY <2>2, <2>3
      <4> QED
        BY <4>1, <4>2, Zenon DEF RepliesTellTheTruth, Tells
    <3> QED
      BY <2>1, <3>1, <3>2
  <2>5. pc' \in {"send", "publish"} /\ job'.req.type = "writeFields"
          => \A r \in ToSet(responses') : Tells(job', r)
    BY <2>1, <2>2, <2>3
  <2> QED
    BY <2>1, <2>4, <2>5 DEF TruthInv
<1>3. CASE ~PublishResponse
  <2>1. UNCHANGED published
    BY <1>3, Zenon
    DEF Answering, GetConfigurationInfo, SetConfigurationInfo, Refuse, AcknowledgeCommand,
        sendProcessResponses, InProcess
  <2>2. RepliesTellTheTruth'
    BY <2>1 DEF TruthInv, RepliesTellTheTruth
  <2>3. ASSUME pc' = "top" \/ pc' = "ack" PROVE TruthInv'
    BY <2>2, <2>3 DEF TruthInv
  <2>4. ASSUME pc' \in {"set", "refuse"}, job'.applied = FALSE PROVE TruthInv'
    BY <2>2, <2>4 DEF TruthInv
  <2>5. ASSUME NEW r, Done(<<r>>), job'.req.type = "writeFields" => Tells(job', r)
        PROVE  TruthInv'
    <3>1. pc' = "send" /\ ToSet(responses') = {r}
      BY <2>5, Hands
    <3> QED
      BY <2>2, <2>5, <3>1 DEF TruthInv
  <2>6. CASE GetConfigurationInfo
    <3>1. pc = "get" /\ job.applied = FALSE
      BY <2>6 DEF GetConfigurationInfo, TruthInv
    <3>2. CASE GoOn("set") /\ job' = [job EXCEPT !.info = Changed]
      BY <1>1, <2>4, <3>1, <3>2 DEF GoOn, Jobs
    <3>3. CASE GoOn("refuse") /\ UNCHANGED job
      BY <2>4, <3>1, <3>3 DEF GoOn
    <3>4. CASE Done(<<>>)
      BY <2>3, <3>4, Hands
    <3>5. CASE ~Writes /\ UNCHANGED job /\ \E r : Done(<<r>>)
      BY <2>5, <3>5 DEF Writes
    <3> QED
      BY <2>6, <3>2, <3>3, <3>4, <3>5, GetEffect, Zenon
  <2>7. CASE SetConfigurationInfo
    <3>1. pc = "set" /\ job.applied = FALSE
      BY <2>7 DEF SetConfigurationInfo, TruthInv
    <3>2. Writes
      BY <1>1, <3>1 DEF JobOK
    <3>3. CASE GoOn("refuse") /\ UNCHANGED job
      BY <2>4, <3>1, <3>3 DEF GoOn
    <3>4. CASE GoOn("ack")
      BY <2>3, <3>4 DEF GoOn
    <3>5. CASE job' = [job EXCEPT !.applied = TRUE] /\ \E r : Done(<<r>>) /\ r.code = "reply"
      <4>1. job'.applied = TRUE
        BY <1>1, <3>5 DEF Jobs
      <4>2. PICK r : Done(<<r>>) /\ r.code = "reply"
        BY <3>5
      <4>3. Tells(job', r)
        BY <4>1, <4>2 DEF Tells
      <4> QED
        BY <2>5, <4>2, <4>3
    <3> QED
      BY <2>7, <3>2, <3>3, <3>4, <3>5, SetEffect, Zenon
  <2>8. CASE Refuse
    <3>1. pc = "refuse" /\ job.applied = FALSE /\ UNCHANGED job
      BY <2>8 DEF Refuse, TruthInv
    <3>2. CASE Done(<<>>)
      BY <2>3, <3>2, Hands
    <3>3. CASE GoOn("ack")
      BY <2>3, <3>3 DEF GoOn
    <3>4. CASE \E r : Done(<<r>>) /\ r.code = "nak"
      <4>1. PICK r : Done(<<r>>) /\ r.code = "nak"
        BY <3>4
      <4>2. Tells(job', r)
        BY <3>1, <4>1 DEF Tells
      <4> QED
        BY <2>5, <4>1, <4>2
    <3> QED
      BY <2>8, <3>2, <3>3, <3>4, RefuseEffect, Zenon
  <2>9. CASE AcknowledgeCommand
    <3>1. pc = "ack" /\ UNCHANGED job
      BY <2>9 DEF AcknowledgeCommand
    <3>2. job'.req.type # "writeFields"
      BY <1>1, <3>1 DEF JobOK
    <3> QED
      BY <2>5, <2>9, <3>2, AckEffect
  <2>10. CASE sendProcessResponses
    <3>1. pc = "send" /\ UNCHANGED job
      BY <2>10 DEF sendProcessResponses
    <3>2. CASE pc' = "top"
      BY <2>3, <3>2
    <3>3. CASE GoOn("publish")
      BY <2>2, <3>1, <3>3 DEF GoOn, TruthInv
    <3> QED
      BY <2>10, <3>2, <3>3, Zenon DEF sendProcessResponses
  <2> QED
    BY <1>3, <2>6, <2>7, <2>8, <2>9, <2>10 DEF Answering
<1> QED
  BY <1>2, <1>3

\* Every step keeps that.
LEMMA TruthStep == ASSUME RequestsOK, TruthInv, [NextRequests]_allVars PROVE TruthInv'
<1>1. CASE Answering
  BY <1>1, TakeTruth, AnswerTruth
<1>2. CASE Process /\ UNCHANGED requestVars
  <2>1. pc' \notin RequestPcs
    BY <1>2, ProcessOKStep, PlacesApart DEF RequestsOK
  <2> QED
    BY <1>2, <2>1 DEF TruthInv, RequestPcs, requestVars, RepliesTellTheTruth
<1>3. CASE Others
  <2>1. pc' = pc \/ pc' = "top"
    BY <1>3, OthersPlace DEF RequestsOK
  <2>2. UNCHANGED <<job, responses, published>>
    BY <1>3, Zenon DEF Others
  <2> QED
    BY <2>1, <2>2 DEF TruthInv, RepliesTellTheTruth
<1> QED
  BY <1>1, <1>2, <1>3, StepKinds

\* Whatever parameters come, whichever calls of the provider fail and whatever the
\* application changes meanwhile, a Write Fields is answered "reply" exactly when the
\* provider has taken the change.
THEOREM RepliesAreTrue == SpecRequests => []RepliesTellTheTruth
<1>1. InitRequests => TruthInv
  BY DEF InitRequests, Init, TruthInv, RepliesTellTheTruth
<1>2. RequestsOK /\ TruthInv /\ [NextRequests]_allVars => TruthInv'
  BY TruthStep
<1>3. TruthInv => RepliesTellTheTruth
  BY DEF TruthInv
<1> QED
  BY <1>1, <1>2, <1>3, RequestsAlwaysOK, PTL DEF SpecRequests

-----------------------------------------------------------------------------
(* A write is all or nothing.                                              *)

\* Only a write is ever stored.
Plain(j) == /\ j.applied \in BOOLEAN
            /\ j.req.type \in {"writeFields", "nmeaCommand"} \/ ~j.applied

\* Until the handler stores, the configuration is what it was, and what it is about to
\* store is that with the named fields replaced; from then on it is what was stored.
\* What the application has changed meanwhile is left out.
WholeInv ==
  /\ pc \in RequestPcs => LeftBy(job, job.applied) /\ (Writes \/ ~job.applied)
  /\ pc = "set" => \A k \in Fields \ edited : job.info[k] = Wanted(job, k)
  /\ pc \in RequestPcs \ {"publish"} => published = Nil
  /\ published # Nil => LeftBy(published.job, published.job.applied) /\ Plain(published.job)

\* An edit of a field leaves what is said of the others.
LEMMA LeftByEdit ==
  ASSUME NEW j, NEW written,
         UNCHANGED <<config, edited>> \/ \E k \in Fields, v \in ConfigValues : EditConfiguration(k, v),
         config \in [Fields -> ConfigValues],
         LeftBy(j, written)
  PROVE  \A k \in Fields \ edited' : config'[k] = IF written THEN Wanted(j, k) ELSE j.before[k]
BY DEF LeftBy, EditConfiguration

\* Taking a request from the queue keeps the invariant: nothing is stored yet.
LEMMA TakeWhole == ASSUME RequestsOK, TakeRequest PROVE WholeInv'
<1>1. /\ job'.before = config
      /\ job'.applied = FALSE
  BY TakeEffect DEF RequestsOK
<1>2. published' = Nil /\ config' = config
  BY DEF TakeRequest
<1>3. pc' # "set"
  BY TakeOK
<1>4. LeftBy(job, job.applied)'
  BY <1>1, <1>2 DEF LeftBy
<1> QED
  BY <1>1, <1>2, <1>3, <1>4 DEF WholeInv

\* So does what its handler does then: what is stored is what was checked, and what
\* was refused is not stored.
LEMMA AnswerWhole ==
  ASSUME RequestsOK, TruthInv, WholeInv, Answering, ~TakeRequest
  PROVE  WholeInv'
<1>1. pc \in RequestPcs /\ job \in Jobs /\ JobOK /\ config \in [Fields -> ConfigValues]
  BY AnswersApart DEF RequestsOK, JobOK
<1>2. LeftBy(job, job.applied) /\ (Writes \/ ~job.applied) /\ UNCHANGED edited
  BY <1>1, Zenon
  DEF WholeInv, Answering, GetConfigurationInfo, SetConfigurationInfo, Refuse,
      AcknowledgeCommand, sendProcessResponses, PublishResponse, InProcess
<1>3. job.applied \in BOOLEAN
  BY <1>1 DEF Jobs
<1>4. CASE PublishResponse
  <2>1. /\ pc' \in {"top", "publish"}
        /\ UNCHANGED <<job, config, edited>>
        /\ \/ published' = [answer |-> Head(responses), job |-> job, won |-> won]
           \/ published' = Nil
    BY <1>4, Zenon DEF PublishResponse
  <2>2. LeftBy(job, job.applied)'
    BY <1>2, <2>1 DEF LeftBy, Wanted
  <2>3. Writes' = Writes
    BY <2>1 DEF Writes
  <2>4. published' # Nil => published'.job = job
    BY <2>1
  <2>5. published' # Nil =>
          LeftBy(published.job, published.job.applied)' /\ Plain(published'.job)
    BY <1>2, <1>3, <2>1, <2>2, <2>4 DEF Writes, LeftBy, Wanted, Plain
  <2> QED
    BY <1>2, <2>1, <2>2, <2>3, <2>5 DEF WholeInv, RequestPcs
<1>5. ASSUME pc # "publish", UNCHANGED published, LeftBy(job, job.applied)',
             Writes' \/ ~job'.applied,
             pc' = "set" => \A k \in Fields \ edited' : job'.info[k] = Wanted(job, k)'
      PROVE  WholeInv'
  BY <1>1, <1>5 DEF WholeInv
<1>6. CASE GetConfigurationInfo
  <2>1. /\ pc = "get"
        /\ UNCHANGED <<config, edited, published>>
        /\ job.applied = FALSE
    BY <1>6, Zenon DEF GetConfigurationInfo, InProcess, TruthInv
  <2>2. CASE /\ GoOn("set")
             /\ job' = [job EXCEPT !.info = Changed]
    <3>1. /\ job'.req = job.req /\ job'.before = job.before /\ job'.applied = job.applied
          /\ job'.info = Changed
      BY <1>1, <2>2 DEF Jobs
    <3>2. LeftBy(job, job.applied)' /\ (Writes' \/ ~job'.applied)
      BY <1>2, <2>1, <3>1 DEF LeftBy, Wanted, Writes
    <3>3. ASSUME NEW k \in Fields \ edited PROVE Changed[k] = Wanted(job, k)
      <4>1. config[k] = job.before[k]
        BY <1>2, <2>1 DEF LeftBy
      <4> QED
        BY <4>1 DEF Changed, Wanted
    <3>4. \A k \in Fields \ edited' : job'.info[k] = Wanted(job, k)'
      BY <2>1, <3>1, <3>3 DEF Wanted
    <3> QED
      BY <1>5, <2>1, <3>2, <3>4
  <2>3. ASSUME UNCHANGED job, pc' # "set" PROVE WholeInv'
    <3>1. LeftBy(job, job.applied)' /\ (Writes' \/ ~job'.applied)
      BY <1>2, <2>1, <2>3 DEF LeftBy, Wanted, Writes
    <3> QED
      BY <1>5, <2>1, <2>3, <3>1
  <2>4. GoOn("refuse") => pc' # "set"
    BY DEF GoOn
  <2>5. Done(<<>>) \/ (\E r : Done(<<r>>)) => pc' # "set"
    BY Hands
  <2> QED
    BY <1>6, <2>2, <2>3, <2>4, <2>5, GetEffect, Zenon
<1>7. CASE SetConfigurationInfo
  <2>1. /\ pc = "set"
        /\ UNCHANGED <<edited, published>>
        /\ job.applied = FALSE
        /\ Writes
    BY <1>1, <1>7, Zenon DEF SetConfigurationInfo, InProcess, TruthInv, JobOK
  <2>2. pc' # "set"
    BY <1>7, Hands DEF SetConfigurationInfo, WriteReturns, GoOn, Done
  <2>3. CASE config' = job.info /\ job' = [job EXCEPT !.applied = TRUE]
    <3>1. /\ job'.req = job.req /\ job'.before = job.before /\ job'.applied = TRUE
      BY <1>1, <2>3 DEF Jobs
    <3>2. \A k \in Fields \ edited : config'[k] = Wanted(job, k)
      BY <2>1, <2>3 DEF WholeInv
    <3>3. LeftBy(job, job.applied)'
      BY <2>1, <3>1, <3>2 DEF LeftBy, Wanted
    <3>4. Writes'
      BY <2>1, <3>1 DEF Writes
    <3> QED
      BY <1>5, <2>1, <2>2, <3>3, <3>4
  <2>4. CASE UNCHANGED <<config, job>>
    <3>1. LeftBy(job, job.applied)' /\ (Writes' \/ ~job'.applied)
      BY <1>2, <2>1, <2>4 DEF LeftBy, Wanted, Writes
    <3> QED
      BY <1>5, <2>1, <2>2, <3>1
  <2> QED
    BY <1>7, <2>3, <2>4, Zenon DEF SetConfigurationInfo
<1>8. CASE Refuse \/ AcknowledgeCommand \/ sendProcessResponses
  <2>1. /\ pc \in {"refuse", "ack", "send"}
        /\ UNCHANGED <<config, job, edited, published>>
    BY <1>8, Zenon DEF Refuse, AcknowledgeCommand, sendProcessResponses, InProcess
  <2>2. pc' # "set"
    BY <1>8 DEF Refuse, AcknowledgeCommand, sendProcessResponses, WriteReturns, GoOn, Done
  <2>3. LeftBy(job, job.applied)' /\ (Writes' \/ ~job'.applied)
    BY <1>2, <2>1 DEF LeftBy, Wanted, Writes
  <2> QED
    BY <1>5, <2>1, <2>2, <2>3
<1> QED
  BY <1>4, <1>6, <1>7, <1>8 DEF Answering

\* So do the others, the application's edits among them.
LEMMA OthersWhole ==
  ASSUME RequestsOK, WholeInv,
         \/ Process /\ UNCHANGED requestVars
         \/ Others
  PROVE  WholeInv'
<1>1. /\ UNCHANGED <<job, published>>
      /\ \/ UNCHANGED <<config, edited>>
         \/ \E k \in Fields, v \in ConfigValues : EditConfiguration(k, v)
  BY Zenon DEF Others, requestVars
<1>2. config \in [Fields -> ConfigValues]
  BY DEF RequestsOK
<1>3. \/ pc' = pc
      \/ pc' \notin RequestPcs
  <2>1. CASE Process
    BY <2>1, ProcessOKStep, PlacesApart DEF RequestsOK
  <2>2. CASE Others
    BY <2>2, OthersPlace, PlacesApart DEF RequestsOK
  <2> QED
    BY <2>1, <2>2
<1>4. edited \subseteq edited'
  BY <1>1 DEF EditConfiguration
<1>5. LeftBy(job, job.applied) => LeftBy(job, job.applied)'
  <2>1. ASSUME LeftBy(job, job.applied)
        PROVE  \A k \in Fields \ edited' :
                 config'[k] = IF job.applied THEN Wanted(job, k) ELSE job.before[k]
    BY <1>1, <1>2, <2>1, LeftByEdit
  <2> QED
    BY <1>1, <2>1 DEF LeftBy, Wanted
<1>6. ASSUME published # Nil
      PROVE  LeftBy(published.job, published.job.applied)' /\ Plain(published.job)
  <2> DEFINE j == published.job
  <2>1. LeftBy(j, j.applied) /\ Plain(j)
    BY <1>6 DEF WholeInv
  <2>2. \A k \in Fields \ edited' :
          config'[k] = IF j.applied THEN Wanted(j, k) ELSE j.before[k]
    BY <1>1, <1>2, <2>1, LeftByEdit
  <2> QED
    BY <1>1, <2>1, <2>2 DEF LeftBy, Wanted
<1>7. pc' = "set" => \A k \in Fields \ edited' : job'.info[k] = Wanted(job, k)'
  BY <1>1, <1>3, <1>4 DEF WholeInv, RequestPcs, Wanted
<1>8. pc' \in RequestPcs => LeftBy(job, job.applied)' /\ (Writes' \/ ~job'.applied)
  BY <1>1, <1>3, <1>5 DEF WholeInv, Writes
<1>9. pc' \in RequestPcs \ {"publish"} => published' = Nil
  BY <1>1, <1>3 DEF WholeInv
<1>10. published' # Nil =>
         LeftBy(published.job, published.job.applied)' /\ Plain(published'.job)
  BY <1>1, <1>6
<1> QED
  BY <1>7, <1>8, <1>9, <1>10 DEF WholeInv

\* Whatever parameters come, whichever calls of the provider fail and wherever the
\* application edits its configuration in between, a write takes effect in every field
\* it names and no other, or in none, and the answer to a Write Fields says which.
THEOREM WritesAreAllOrNothing == SpecRequests => []WritesAreWhole
<1>1. InitRequests => TruthInv /\ WholeInv
  <2> SUFFICES ASSUME InitRequests PROVE TruthInv /\ WholeInv
    OBVIOUS
  <2>1. pc = "off" /\ published = Nil
    BY DEF InitRequests, Init
  <2> QED
    BY <2>1 DEF TruthInv, RepliesTellTheTruth, WholeInv, RequestPcs
<1>2. RequestsOK /\ TruthInv /\ [NextRequests]_allVars => TruthInv'
  BY TruthStep
<1>3. ASSUME RequestsOK, TruthInv, WholeInv, [NextRequests]_allVars PROVE WholeInv'
  <2>1. CASE Answering
    BY <1>3, <2>1, TakeWhole, AnswerWhole
  <2>2. CASE Process /\ UNCHANGED requestVars
    BY <1>3, <2>2, OthersWhole
  <2>3. CASE Others
    BY <1>3, <2>3, OthersWhole
  <2> QED
    BY <1>3, <2>1, <2>2, <2>3, StepKinds
<1>4. TruthInv /\ WholeInv => WritesAreWhole
  <2> SUFFICES ASSUME TruthInv, WholeInv, published # Nil
               PROVE  LET j == published.job
                      IN  \/ j.req.type = "writeFields" /\ LeftBy(j, published.answer.code = "reply")
                          \/ /\ j.req.type = "nmeaCommand"
                             /\ \E written \in BOOLEAN : LeftBy(j, written)
                          \/ /\ j.req.type \notin {"writeFields", "nmeaCommand"}
                             /\ LeftBy(j, FALSE)
    BY DEF WritesAreWhole
  <2> DEFINE j == published.job
  <2>1. LeftBy(j, j.applied) /\ Plain(j)
    BY DEF WholeInv
  <2>2. j.req.type = "writeFields" => j.applied = (published.answer.code = "reply")
    BY DEF TruthInv, RepliesTellTheTruth
  <2> HIDE DEF j
  <2>3. CASE j.req.type = "writeFields"
    BY <2>1, <2>2, <2>3 DEF j, Plain
  <2>4. CASE j.req.type = "nmeaCommand"
    BY <2>1, <2>4 DEF j, Plain
  <2>5. CASE j.req.type \notin {"writeFields", "nmeaCommand"}
    <3>1. j.applied = FALSE
      BY <2>1, <2>5 DEF Plain
    <3> QED
      BY <2>1, <2>5, <3>1 DEF j
  <2> QED
    BY <2>3, <2>4, <2>5
<1> QED
  BY <1>1, <1>2, <1>3, <1>4, RequestsAlwaysOK, PTL DEF SpecRequests

-----------------------------------------------------------------------------
(* Where the answers come from.                                            *)

\* The steps of the node are those of Node, or leave alone what the address claim
\* and Stop look at.
LEMMA NodeSteps ==
  ASSUME [NextRequests]_allVars
  PROVE  \/ [Next]_vars
         \/ /\ UNCHANGED <<addressVars, runVars, stopPc, historyVars>>
            /\ \/ UNCHANGED pc
               \/ Answering
<1>1. CASE Answering
  <2>1. UNCHANGED nodeVars
    BY <1>1, AnswersApart, Zenon
  <2> QED
    BY <1>1, <2>1, Zenon DEF nodeVars, otherVars
<1>2. CASE \E m \in Requests : CallbackBegin(m)
  BY <1>2, Zenon DEF CallbackBegin, processVars
<1>3. CASE SetConfigurationProvider \/ \E k \in Fields, v \in ConfigValues : EditConfiguration(k, v)
  BY <1>3, Zenon DEF SetConfigurationProvider, EditConfiguration
<1> QED
  BY <1>1, <1>2, <1>3, Zenon DEF NextRequests, allVars

\* Answering keeps Stop waiting for the goroutine.
LEMMA RequestsStop ==
  ASSUME OneStopper, RequestsOK, StopInv, [NextRequests]_allVars
  PROVE  StopInv'
<1>1. CASE [Next]_vars
  BY <1>1, StopStep DEF RequestsOK, NodeOK
<1>2. CASE UNCHANGED <<runVars, stopPc, pc>>
  BY <1>2, Zenon DEF StopInv, runVars
<1>3. CASE UNCHANGED <<runVars, stopPc>> /\ Answering
  <2>1. pc # "off"
    BY <1>3, AnswersApart DEF RequestPcs
  <2>2. started' = (ctx' # Nil)
    BY <1>3, Zenon DEF StopInv, runVars
  <2>3. pc' # "off" => started'
    BY <1>3, <2>1, Zenon DEF StopInv, runVars
  <2>4. ASSUME NEW s \in Stoppers
        PROVE  /\ stopPc'[s] = "wait" => ctx' = "done"
               /\ stopPc'[s] = "reset" => started' /\ pc' = "off"
    BY <1>3, <2>1, Zenon DEF StopInv, runVars
  <2> QED
    BY <2>2, <2>3, <2>4, Zenon DEF StopInv
<1> QED
  BY <1>1, <1>2, <1>3, NodeSteps, Zenon

\* It keeps a claimed address the one that was won.
LEMMA RequestsWon == ASSUME WonInv, [NextRequests]_allVars PROVE WonInv'
<1>1. CASE UNCHANGED <<addressVars, historyVars>>
  BY <1>1 DEF WonInv, addressVars, historyVars
<1> QED
  BY <1>1, WonStep, NodeSteps, Zenon

\* The node is read-only until the first call of ClaimAddress.
CallsInv == /\ budget.claim <= MaxClaimCalls
            /\ budget.claim = MaxClaimCalls => readOnly

\* The claim itself does not call.
LEMMA ProcessCalls == ASSUME Process PROVE UNCHANGED <<readOnly, budget>>
<1> USE DEF addressVars, processVars
<1>1. CASE LoopTop \/ sendAddressClaim \/ PublishClaim \/ sendHeartbeat \/ PublishHeartbeat
  BY <1>1, Zenon
  DEF LoopTop, sendAddressClaim, PublishClaim, sendHeartbeat, PublishHeartbeat
<1>2. CASE SelectEnter \/ TakeClaim \/ TakeInfo \/ processIsoAddressClaim \/ YieldAddress \/ TakeCommand
  BY <1>2, Zenon
  DEF SelectEnter, TakeClaim, TakeInfo, processIsoAddressClaim, YieldAddress, TakeCommand
<1>3. CASE \/ processIsoCommandedAddress \/ TakeClaimTick \/ TakeHeartbeatTick
           \/ TakeWakeUp \/ TakeDone
  BY <1>3, Zenon
  DEF processIsoCommandedAddress, TakeClaimTick, TakeHeartbeatTick, TakeWakeUp, TakeDone
<1> QED
  BY <1>1, <1>2, <1>3 DEF Process

\* What the others do, with a request in hand or not.
LEMMA OthersEffect ==
  ASSUME NodeOK, Others
  PROVE  \/ Bystands
         \/ Claims
         \/ /\ pc = "off" /\ pc' = "top"
            /\ UNCHANGED <<networkAddress, readOnly>>
            /\ budget'.claim = budget.claim
         \/ \E s \in Stoppers : StopReset(s)
<1>1. \/ Application \/ FinishStop \/ Enqueue \/ ClaimTick \/ HeartbeatTick
      \/ \E m \in Messages \cup Requests : CallbackBegin(m)
      \/ UNCHANGED vars
  BY Zenon DEF Others
<1> QED
  BY <1>1, OthersStandBy, Zenon

\* Every step keeps CallsInv.
LEMMA CallsStep == ASSUME RequestsOK, CallsInv, [NextRequests]_allVars PROVE CallsInv'
<1> budget.claim \in Nat /\ MaxClaimCalls \in Nat
  BY NodeAssumption DEF RequestsOK, NodeOK
<1>1. ASSUME UNCHANGED readOnly, budget'.claim = budget.claim PROVE CallsInv'
  <2>1. budget.claim = MaxClaimCalls => readOnly'
    BY <1>1, Zenon DEF CallsInv
  <2> QED
    BY <1>1, <2>1 DEF CallsInv
<1>2. CASE Answering
  <2>1. UNCHANGED <<readOnly, budget>>
    BY <1>2, AnswersApart, Zenon DEF nodeVars, addressVars
  <2> QED
    BY <1>1, <2>1
<1>3. CASE Process /\ UNCHANGED requestVars
  BY <1>1, <1>3, ProcessCalls
<1>4. CASE Others
  <2>1. CASE Bystands
    <3>1. UNCHANGED readOnly /\ budget'.claim = budget.claim
      BY <2>1, Zenon DEF Bystands
    <3> QED
      BY <1>1, <3>1
  <2>2. CASE Claims
    BY <2>2 DEF CallsInv, Claims
  <2>3. CASE UNCHANGED readOnly /\ budget'.claim = budget.claim
    BY <1>1, <2>3
  <2>4. CASE \E s \in Stoppers : StopReset(s)
    <3>1. readOnly' /\ UNCHANGED budget
      BY <2>4, Zenon DEF StopReset
    <3> QED
      BY <3>1 DEF CallsInv
  <2> QED
    BY <1>4, <2>1, <2>2, <2>3, <2>4, OthersEffect, Zenon DEF RequestsOK
<1> QED
  BY <1>2, <1>3, <1>4, StepKinds

\* The node is read-only and no call is left to take it out of that mode: nothing is
\* sent any more.
Gone == readOnly /\ budget.claim = 0

\* An answer leaves from the address the request found; a group function is the
\* answer to a request for that address only.
Owed(j, answer) ==
  /\ answer.src = j.src
  /\ answer.pgn = "NMEAGroupFunction" => j.req.target = j.src

\* A job found the node at the address it asked for, and that address won, unless the
\* application was moving the node.
FoundAt(j, address) ==
  /\ j.req.target \in {j.src, GlobalAddress}
  /\ j.src = address \/ j.moving = TRUE

\* While a request is handled the node keeps the address it was found at, or is Gone.
HandInv ==
  pc \in RequestPcs =>
    /\ FoundAt(job, won)
    /\ networkAddress = job.src \/ Gone
    /\ budget.claim < MaxClaimCalls

\* Group functions go on, and are refused, for requests to this node only.
PlaceInv ==
  /\ pc = "get" /\ job.req.type \notin {"isoRequest", "request"}
       => job.req.target = job.src
  /\ pc \in {"set", "refuse", "ack"} => job.req.target = job.src

\* What is published is owed; what is only about to be sent is, or is not sent.
OwedInv ==
  /\ pc = "send" => Gone \/ \A r \in ToSet(responses) : Owed(job, r)
  /\ pc = "publish" => \A r \in ToSet(responses) : Owed(job, r)

PublishedInv ==
  published # Nil => /\ FoundAt(published.job, published.won)
                     /\ Owed(published.job, published.answer)

AskedInv == HandInv /\ PlaceInv /\ OwedInv /\ PublishedInv

\* The application calls ClaimAddress twice at most, or never turns the node
\* read-only: it cannot do that and claim another address while one request is handled.
FewCalls == MaxClaimCalls <= 2 \/ GlobalAddress \notin AppAddresses

\* Taking a request from the queue keeps AskedInv.
LEMMA TakeAsked ==
  ASSUME RequestsOK, WonInv, CallsInv, TakeRequest
  PROVE  AskedInv'
<1> DEFINE m == Head(pgnIn)
<1>1. /\ m \in Requests
      /\ job' = [req |-> m, src |-> networkAddress,
                 moving |-> addressState = "Claiming" /\ addressClaimed,
                 listed |-> configProvider, info |-> Nil, before |-> config,
                 applied |-> FALSE]
      /\ Ignores \/ Accepts(m)
  BY TakeEffect DEF RequestsOK
<1> HIDE DEF m
<1>2. job'.req = m /\ job'.src = networkAddress
  BY <1>1
<1>3. UNCHANGED <<networkAddress, won, budget>>
  BY Zenon DEF TakeRequest, nodeVars, addressVars, historyVars
<1>4. PublishedInv'
  BY DEF TakeRequest, PublishedInv
<1>5. CASE Ignores
  BY <1>4, <1>5, Hands DEF AskedInv, HandInv, PlaceInv, OwedInv, RequestPcs, Ignores
<1>6. CASE Accepts(m)
  <2>1. m.target \in {networkAddress, GlobalAddress}
    BY <1>6 DEF Accepts
  <2>2. budget.claim < MaxClaimCalls
    <3>1. budget.claim \in Nat /\ MaxClaimCalls \in Nat
      BY NodeAssumption DEF RequestsOK, NodeOK
    <3>2. budget.claim # MaxClaimCalls
      BY <1>6, Zenon DEF Accepts, CallsInv
    <3> QED
      BY <3>1, <3>2 DEF CallsInv
  <2>3. networkAddress = won \/ job'.moving = TRUE
    <3>1. CASE addressState = "Claiming"
      <4>1. (addressState = "Claiming" /\ addressClaimed) = TRUE
        BY <1>6, <3>1, Zenon DEF Accepts
      <4> QED
        BY <1>1, <4>1
    <3>2. CASE addressState # "Claiming"
      BY <1>6, <3>2, Zenon DEF Accepts, WonInv
    <3> QED
      BY <3>1, <3>2
  <2>4. FoundAt(job', won') /\ networkAddress' = job'.src /\ budget'.claim < MaxClaimCalls
    BY <1>2, <1>3, <2>1, <2>2, <2>3 DEF FoundAt
  <2>5. HandInv'
    BY <2>4 DEF HandInv
  <2>6. CASE /\ GoOn("get")
             /\ m.type \notin {"isoRequest", "request"} => m.target = networkAddress
    BY <1>2, <1>4, <2>5, <2>6 DEF AskedInv, PlaceInv, OwedInv, GoOn
  <2>7. ASSUME NEW list, Done(list), list # <<>>,
               \A r \in ToSet(list) :
                 /\ r.src = networkAddress
                 /\ r.pgn = "NMEAGroupFunction" => m.target = networkAddress
        PROVE  AskedInv'
    <3>1. pc' = "send" /\ responses' = list
      BY <2>7, HandsOn
    <3>2. \A r \in ToSet(responses') : Owed(job', r)
      BY <1>2, <2>7, <3>1 DEF Owed
    <3> QED
      BY <1>4, <2>5, <3>1, <3>2 DEF AskedInv, PlaceInv, OwedInv
  <2> QED
    BY <1>6, <2>6, <2>7 DEF Accepts
<1> QED
  BY <1>1, <1>5, <1>6

\* So does what its handler does then.
LEMMA AnswerAsked ==
  ASSUME RequestsOK, AskedInv, Answering, ~TakeRequest
  PROVE  AskedInv'
<1>1. pc \in RequestPcs /\ job \in Jobs /\ JobOK
  BY AnswersApart DEF RequestsOK, JobOK
<1>2. UNCHANGED nodeVars
  BY AnswersApart, Zenon
<1>3. UNCHANGED <<networkAddress, won, budget>>
  BY <1>2, Zenon DEF nodeVars, addressVars, historyVars
<1>4. Gone => Gone'
  BY <1>2, Zenon DEF Gone, nodeVars, addressVars
<1>5. /\ FoundAt(job, won)
      /\ networkAddress = job.src \/ Gone
      /\ budget.claim < MaxClaimCalls
  BY <1>1 DEF AskedInv, HandInv
<1>6. ASSUME job'.req = job.req, job'.src = job.src, job'.moving = job.moving
      PROVE  HandInv'
  BY <1>3, <1>4, <1>5, <1>6 DEF HandInv, FoundAt
<1>7. CASE PublishResponse
  <2>1. /\ pc = "publish" /\ UNCHANGED job
        /\ responses' = Tail(responses)
        /\ pc' \in {"top", "publish"}
        /\ \/ published' = [answer |-> Head(responses), job |-> job, won |-> won]
           \/ published' = Nil
    BY <1>7, Zenon DEF PublishResponse
  <2>2. /\ Head(responses) \in ToSet(responses)
        /\ ToSet(responses') \subseteq ToSet(responses)
    BY <1>1, <2>1, AnswersLeft DEF JobOK
  <2>3. \A r \in ToSet(responses) : Owed(job, r)
    BY <2>1 DEF AskedInv, OwedInv
  <2>4. PublishedInv'
    <3>1. CASE published' = Nil
      BY <3>1 DEF PublishedInv
    <3>2. CASE published' = [answer |-> Head(responses), job |-> job, won |-> won]
      <4>1. published'.answer = Head(responses) /\ published'.job = job /\ published'.won = won
        BY <3>2
      <4> QED
        BY <1>5, <2>2, <2>3, <4>1 DEF PublishedInv
    <3> QED
      BY <2>1, <3>1, <3>2
  <2>5. PlaceInv' /\ OwedInv'
    BY <2>1, <2>2, <2>3 DEF PlaceInv, OwedInv
  <2> QED
    BY <1>6, <2>1, <2>4, <2>5 DEF AskedInv
<1>8. CASE ~PublishResponse
  <2>1. UNCHANGED published
    BY <1>8, Zenon
    DEF Answering, GetConfigurationInfo, SetConfigurationInfo, Refuse, AcknowledgeCommand,
        sendProcessResponses, InProcess
  <2>2. PublishedInv'
    BY <2>1 DEF AskedInv, PublishedInv
  <2>3. ASSUME pc' = "top" PROVE AskedInv'
    BY <2>2, <2>3 DEF AskedInv, HandInv, PlaceInv, OwedInv, RequestPcs
  <2>4. ASSUME pc' \in {"set", "refuse", "ack"}, job.req.target = job.src,
               job'.req = job.req, job'.src = job.src, job'.moving = job.moving
        PROVE  AskedInv'
    BY <1>6, <2>2, <2>4 DEF AskedInv, PlaceInv, OwedInv
  <2>5. ASSUME NEW r, Done(<<r>>), Gone \/ Owed(job, r),
               job'.req = job.req, job'.src = job.src, job'.moving = job.moving
        PROVE  AskedInv'
    <3>1. pc' = "send" /\ ToSet(responses') = {r}
      BY <2>5, Hands
    <3>2. Gone' \/ Owed(job', r)
      BY <1>4, <2>5 DEF Owed
    <3> QED
      BY <1>6, <2>2, <2>5, <3>1, <3>2 DEF AskedInv, PlaceInv, OwedInv
  <2>6. CASE GetConfigurationInfo
    <3>1. pc = "get"
      BY <2>6 DEF GetConfigurationInfo
    <3>2. job.req.type \notin {"isoRequest", "request"} => job.req.target = job.src
      BY <3>1 DEF AskedInv, PlaceInv
    <3>3. CASE Writes /\ GoOn("set") /\ job' = [job EXCEPT !.info = Changed]
      <4>1. job'.req = job.req /\ job'.src = job.src /\ job'.moving = job.moving
        BY <1>1, <3>3 DEF Jobs
      <4> QED
        BY <2>4, <3>2, <3>3, <4>1 DEF GoOn, Writes
    <3>4. CASE /\ job.req.type \notin {"isoRequest", "request"}
               /\ GoOn("refuse")
               /\ UNCHANGED job
      BY <2>4, <3>2, <3>4 DEF GoOn
    <3>5. CASE Done(<<>>)
      BY <2>3, <3>5, Hands
    <3>6. CASE /\ UNCHANGED job
               /\ \E r : /\ Done(<<r>>)
                         /\ r.src = job.src
                         /\ \/ r.pgn # "NMEAGroupFunction"
                            \/ job.req.type \notin {"isoRequest", "request"}
      BY <2>5, <3>2, <3>6 DEF Owed
    <3> QED
      BY <2>6, <3>3, <3>4, <3>5, <3>6, GetEffect, Zenon
  <2>7. CASE SetConfigurationInfo
    <3>1. Writes /\ job.req.target = job.src
      BY <1>1, <2>7 DEF SetConfigurationInfo, JobOK, AskedInv, PlaceInv
    <3>2. CASE GoOn("refuse") /\ UNCHANGED job
      BY <2>4, <3>1, <3>2 DEF GoOn
    <3>3. CASE /\ job' = [job EXCEPT !.applied = TRUE]
               /\ GoOn("ack") \/ \E r : Done(<<r>>) /\ r.src = job.src
      <4>1. job'.req = job.req /\ job'.src = job.src /\ job'.moving = job.moving
        BY <1>1, <3>3 DEF Jobs
      <4>2. CASE GoOn("ack")
        BY <2>4, <3>1, <4>1, <4>2 DEF GoOn
      <4>3. CASE \E r : Done(<<r>>) /\ r.src = job.src
        BY <2>5, <3>1, <4>1, <4>3 DEF Owed
      <4> QED
        BY <3>3, <4>2, <4>3
    <3> QED
      BY <2>7, <3>1, <3>2, <3>3, SetEffect, Zenon
  <2>8. CASE Refuse
    <3>1. job.req.target = job.src /\ UNCHANGED job
      BY <2>8 DEF Refuse, AskedInv, PlaceInv
    <3>2. CASE Done(<<>>)
      BY <2>3, <3>2, Hands
    <3>3. CASE GoOn("ack")
      BY <2>4, <3>1, <3>3 DEF GoOn
    <3>4. CASE \E r : Done(<<r>>) /\ ~readOnly /\ r.src = networkAddress
      <4>1. ~Gone
        BY <3>4, Zenon DEF Gone
      <4> QED
        BY <1>5, <2>5, <3>1, <3>4, <4>1 DEF Owed
    <3> QED
      BY <2>8, <3>2, <3>3, <3>4, RefuseEffect, Zenon
  <2>9. CASE AcknowledgeCommand
    <3>1. job.req.target = job.src /\ UNCHANGED job
      BY <2>9 DEF AcknowledgeCommand, AskedInv, PlaceInv
    <3>2. PICK r : Done(<<r>>) /\ r.src = networkAddress
      BY <2>9, AckEffect
    <3>3. Gone \/ Owed(job, r)
      BY <1>5, <3>1, <3>2 DEF Owed
    <3> QED
      BY <2>5, <3>1, <3>2, <3>3
  <2>10. CASE sendProcessResponses
    <3>1. pc = "send" /\ UNCHANGED job
      BY <2>10 DEF sendProcessResponses
    <3>2. CASE pc' = "top"
      BY <2>3, <3>2
    <3>3. CASE ~readOnly /\ GoOn("publish")
      <4>1. \A r \in ToSet(responses) : Owed(job, r)
        BY <3>1, <3>3, Zenon DEF AskedInv, OwedInv, Gone
      <4> QED
        BY <1>6, <2>2, <3>1, <3>3, <4>1 DEF AskedInv, PlaceInv, OwedInv, GoOn
    <3> QED
      BY <2>10, <3>2, <3>3, Zenon DEF sendProcessResponses
  <2> QED
    BY <1>8, <2>6, <2>7, <2>8, <2>9, <2>10 DEF Answering
<1> QED
  BY <1>7, <1>8

\* Whatever the application, Stop, the bus and the tickers do meanwhile, the address
\* stays the one that was found, or the node is Gone.
LEMMA OthersAsked ==
  ASSUME FewCalls, RequestsOK, StopInv, CallsInv, AskedInv, Others
  PROVE  AskedInv'
<1> budget.claim \in Nat /\ MaxClaimCalls \in Nat
  BY NodeAssumption DEF RequestsOK, NodeOK
<1>1. UNCHANGED <<job, responses, published>>
  BY Zenon DEF Others
<1>2. PublishedInv'
  BY <1>1 DEF AskedInv, PublishedInv
<1>3. ASSUME pc' = "top" \/ pc' \notin RequestPcs PROVE AskedInv'
  BY <1>2, <1>3 DEF AskedInv, HandInv, PlaceInv, OwedInv, RequestPcs
<1>4. ASSUME pc \in RequestPcs, UNCHANGED <<pc, won>>,
             networkAddress' = networkAddress \/ Gone', Gone => Gone',
             budget'.claim <= budget.claim, budget'.claim \in Nat
      PROVE  AskedInv'
  <2>1. HandInv'
    BY <1>1, <1>4 DEF AskedInv, HandInv
  <2>2. PlaceInv' /\ OwedInv'
    BY <1>1, <1>4 DEF AskedInv, PlaceInv, OwedInv
  <2> QED
    BY <1>2, <2>1, <2>2 DEF AskedInv
<1>5. CASE pc \in RequestPcs
  <2>1. CASE Bystands
    <3>1. UNCHANGED <<pc, won, networkAddress>> /\ budget'.claim = budget.claim
      BY <2>1, Zenon DEF Bystands
    <3>2. Gone => Gone'
      BY <2>1, Zenon DEF Bystands, Gone
    <3> QED
      BY <1>4, <1>5, <3>1, <3>2
  <2>2. CASE Claims
    <3>1. /\ UNCHANGED <<pc, won>>
          /\ budget.claim > 0
          /\ budget'.claim = budget.claim - 1
      BY <2>2 DEF Claims
    <3>2. ~Gone
      BY <3>1 DEF Gone
    <3>3. networkAddress' = networkAddress \/ (readOnly' /\ GlobalAddress \in AppAddresses)
      BY <2>2, Zenon DEF Claims
    <3>4. GlobalAddress \in AppAddresses => budget'.claim = 0
      BY <1>5, <3>1 DEF AskedInv, HandInv, FewCalls
    <3>5. networkAddress' = networkAddress \/ Gone'
      BY <3>3, <3>4, Zenon DEF Gone
    <3> QED
      BY <1>4, <1>5, <3>1, <3>2, <3>5
  <2>3. ~ \E s \in Stoppers : StopReset(s)
    BY <1>5 DEF StopInv, StopReset, RequestPcs
  <2>4. pc # "off"
    BY <1>5 DEF RequestPcs
  <2> QED
    BY <2>1, <2>2, <2>3, <2>4, OthersEffect, Zenon DEF RequestsOK
<1>6. CASE pc \notin RequestPcs
  BY <1>3, <1>6, OthersPlace DEF RequestsOK
<1> QED
  BY <1>5, <1>6

\* The answers of a node are all owed.
LEMMA AskedAlways ==
  ASSUME FewCalls, OneStopper
  PROVE  SpecRequests => []AskedInv
<1>1. InitRequests => StopInv /\ WonInv /\ CallsInv /\ AskedInv
  <2> SUFFICES ASSUME InitRequests PROVE StopInv /\ WonInv /\ CallsInv /\ AskedInv
    OBVIOUS
  <2>1. Init /\ published = Nil
    BY DEF InitRequests
  <2>2. StopInv
    BY <2>1, StopInit
  <2>3. WonInv
    BY <2>1 DEF Init, WonInv
  <2>4. CallsInv
    BY <2>1, NodeAssumption DEF Init, CallsInv
  <2>5. AskedInv
    BY <2>1 DEF Init, AskedInv, HandInv, PlaceInv, OwedInv, PublishedInv, RequestPcs
  <2> QED
    BY <2>2, <2>3, <2>4, <2>5
<1>2. ASSUME RequestsOK, StopInv, WonInv, CallsInv, AskedInv, [NextRequests]_allVars
      PROVE  StopInv' /\ WonInv' /\ CallsInv' /\ AskedInv'
  <2>1. StopInv' /\ WonInv' /\ CallsInv'
    BY <1>2, RequestsStop, RequestsWon, CallsStep
  <2>2. CASE Answering
    BY <1>2, <2>1, <2>2, TakeAsked, AnswerAsked
  <2>3. CASE Process /\ UNCHANGED requestVars
    <3>1. pc' \notin RequestPcs
      BY <1>2, <2>3, ProcessOKStep, PlacesApart DEF RequestsOK
    <3>2. PublishedInv'
      BY <1>2, <2>3 DEF AskedInv, PublishedInv, requestVars
    <3> QED
      BY <2>1, <3>1, <3>2 DEF AskedInv, HandInv, PlaceInv, OwedInv, RequestPcs
  <2>4. CASE Others
    BY <1>2, <2>1, <2>4, OthersAsked
  <2> QED
    BY <1>2, <2>1, <2>2, <2>3, <2>4, StepKinds
<1> QED
  BY <1>1, <1>2, RequestsAlwaysOK, PTL DEF SpecRequests

\* The application may claim other addresses, turn the node read-only or stop it at
\* any point of a handler: the answer still leaves from the address that was asked,
\* and no broadcast makes a group function answer.
THEOREM AnswersAreFromAsked ==
  ASSUME FewCalls, OneStopper
  PROVE  SpecRequests => []AnswersComeFromAsked
<1>1. AskedInv /\ RequestsTypeOK => AnswersComeFromAsked
  BY DEF AskedInv, PublishedInv, Owed, FoundAt, AnswersComeFromAsked
<1> QED
  BY <1>1, AskedAlways, RequestTypesHold, PTL

\* That address is one whose claim has run its time, unless the request was taken
\* while the application was moving a claimed node.
THEOREM AnswersAreFromWon ==
  ASSUME FewCalls, OneStopper
  PROVE  SpecRequests => []AnswersFromWonAddress
<1>1. AskedInv => AnswersFromWonAddress
  BY Zenon DEF AskedInv, PublishedInv, Owed, FoundAt, AnswersFromWonAddress
<1> QED
  BY <1>1, AskedAlways, PTL

-----------------------------------------------------------------------------
(* What the node answers with is what it lists.                            *)

\* An answer the node lists: a PGN it always transmits, or one of those a provider adds
\* where there was one, with a list that names nothing twice.
Listed(j, answer) ==
  /\ answer.pgn \in AlwaysListed \/ (j.listed /\ answer.pgn \in PGNs)
  /\ Once(answer.list)

\* The provider is asked only when its PGN is listed; so are the answers on their way
\* and the one published last.
ListedInv ==
  /\ pc = "get" => job.listed
  /\ pc \in {"send", "publish"} => \A r \in ToSet(responses) : Listed(job, r)
  /\ published # Nil => Listed(published.job, published.answer)

\* Taking a request from the queue keeps that.
LEMMA TakeListed == ASSUME RequestsOK, TakeRequest PROVE ListedInv'
<1> DEFINE m == Head(pgnIn)
<1>1. /\ job' = [req |-> m, src |-> networkAddress,
                 moving |-> addressState = "Claiming" /\ addressClaimed,
                 listed |-> configProvider, info |-> Nil, before |-> config,
                 applied |-> FALSE]
      /\ Ignores \/ Accepts(m)
  BY TakeEffect DEF RequestsOK
<1> HIDE DEF m
<1>2. job'.listed = configProvider
  BY <1>1
<1>3. published' = Nil
  BY DEF TakeRequest
<1>4. CASE Ignores
  BY <1>3, <1>4, Hands DEF ListedInv, Ignores
<1>5. CASE GoOn("get") /\ configProvider
  BY <1>2, <1>3, <1>5 DEF ListedInv, GoOn
<1>6. ASSUME NEW list, Done(list), list # <<>>,
             \A r \in ToSet(list) : r.pgn \in AlwaysListed /\ Once(r.list)
      PROVE  ListedInv'
  <2>1. pc' = "send" /\ responses' = list
    BY <1>6, HandsOn
  <2> QED
    BY <1>3, <1>6, <2>1 DEF ListedInv, Listed
<1> QED
  BY <1>1, <1>4, <1>5, <1>6 DEF Accepts

\* So does sending the next answer.
LEMMA PublishListed ==
  ASSUME RequestsOK, ListedInv, PublishResponse
  PROVE  ListedInv'
<1>1. /\ pc = "publish" /\ UNCHANGED job
      /\ responses' = Tail(responses)
      /\ pc' \in {"top", "publish"}
      /\ \/ published' = [answer |-> Head(responses), job |-> job, won |-> won]
         \/ published' = Nil
  BY Zenon DEF PublishResponse
<1>2. /\ Head(responses) \in ToSet(responses)
      /\ ToSet(responses') \subseteq ToSet(responses)
  BY <1>1, AnswersLeft DEF RequestsOK, JobOK
<1>3. \A r \in ToSet(responses) : Listed(job, r)
  BY <1>1 DEF ListedInv
<1>4. published' # Nil => Listed(published'.job, published'.answer)
  <2>1. CASE published' = [answer |-> Head(responses), job |-> job, won |-> won]
    <3>1. published'.job = job /\ published'.answer = Head(responses)
      BY <2>1
    <3> QED
      BY <1>2, <1>3, <3>1, Zenon
  <2> QED
    BY <1>1, <2>1
<1>5. \A r \in ToSet(responses') : Listed(job', r)
  BY <1>1, <1>2, <1>3
<1> QED
  BY <1>1, <1>4, <1>5 DEF ListedInv

\* So does what else the handler does.
LEMMA AnswerListed ==
  ASSUME RequestsOK, ListedInv, Answering, ~TakeRequest, ~PublishResponse
  PROVE  ListedInv'
<1>1. job \in Jobs
  BY AnswersApart DEF RequestsOK, JobOK
<1>2. UNCHANGED published
  BY Zenon
  DEF Answering, GetConfigurationInfo, SetConfigurationInfo, Refuse, AcknowledgeCommand,
      sendProcessResponses, InProcess
<1>3. published' # Nil => Listed(published'.job, published'.answer)
  BY <1>2 DEF ListedInv
<1>4. ASSUME pc' \in {"top", "ack", "set", "refuse"} PROVE ListedInv'
  BY <1>3, <1>4 DEF ListedInv
<1>5. ASSUME NEW r, Done(<<r>>), Listed(job', r) PROVE ListedInv'
  <2>1. pc' = "send" /\ ToSet(responses') = {r}
    BY <1>5, Hands
  <2> QED
    BY <1>3, <1>5, <2>1 DEF ListedInv
<1>6. ASSUME NEW r, Done(<<r>>), r.pgn = "NMEAGroupFunction", Once(r.list) PROVE ListedInv'
  BY <1>5, <1>6 DEF Listed, AlwaysListed
<1>7. CASE GetConfigurationInfo
  <2>1. job.listed
    BY <1>7 DEF GetConfigurationInfo, ListedInv
  <2>2. CASE GoOn("set") \/ GoOn("refuse")
    BY <1>4, <2>2 DEF GoOn
  <2>3. CASE Done(<<>>)
    BY <1>4, <2>3, Hands
  <2>4. CASE UNCHANGED job /\ \E r : Done(<<r>>) /\ r.pgn \in PGNs /\ Once(r.list)
    <3>1. PICK r : Done(<<r>>) /\ r.pgn \in PGNs /\ Once(r.list)
      BY <2>4
    <3>2. Listed(job', r)
      BY <2>1, <2>4, <3>1 DEF Listed
    <3> QED
      BY <1>5, <3>1, <3>2
  <2> QED
    BY <1>7, <2>2, <2>3, <2>4, GetEffect, Zenon
<1>8. CASE SetConfigurationInfo
  <2>1. Writes
    BY <1>8 DEF SetConfigurationInfo, RequestsOK, JobOK
  <2>2. CASE GoOn("refuse") \/ GoOn("ack")
    BY <1>4, <2>2 DEF GoOn
  <2>3. CASE \E r : Done(<<r>>) /\ r.pgn = "NMEAGroupFunction" /\ Once(r.list)
    BY <1>6, <2>3
  <2> QED
    BY <1>8, <2>1, <2>2, <2>3, SetEffect, Zenon
<1>9. CASE Refuse
  <2>1. CASE Done(<<>>)
    BY <1>4, <2>1, Hands
  <2>2. CASE GoOn("ack")
    BY <1>4, <2>2 DEF GoOn
  <2>3. CASE \E r : Done(<<r>>) /\ r.pgn = "NMEAGroupFunction" /\ Once(r.list)
    BY <1>6, <2>3
  <2> QED
    BY <1>9, <2>1, <2>2, <2>3, RefuseEffect, Zenon
<1>10. CASE AcknowledgeCommand
  BY <1>6, <1>10, AckEffect
<1>11. CASE sendProcessResponses
  <2>1. pc = "send" /\ UNCHANGED job
    BY <1>11 DEF sendProcessResponses
  <2>2. CASE pc' = "top"
    BY <1>4, <2>2
  <2>3. CASE GoOn("publish")
    BY <1>3, <2>1, <2>3 DEF GoOn, ListedInv
  <2> QED
    BY <1>11, <2>2, <2>3, Zenon DEF sendProcessResponses
<1> QED
  BY <1>7, <1>8, <1>9, <1>10, <1>11 DEF Answering

\* Whatever is asked, and whenever the application adds a provider, the node answers
\* only with PGNs that were in its list when it took the request; and for lists of any
\* length, with whatever repetitions the application gives them, the lists it sends
\* name each PGN once.
THEOREM AnswersAreListed == SpecRequests => []AnswersAreAdvertised
<1>1. InitRequests => ListedInv
  BY DEF InitRequests, Init, ListedInv
<1>2. ASSUME RequestsOK, ListedInv, [NextRequests]_allVars PROVE ListedInv'
  <2>1. CASE Answering
    BY <1>2, <2>1, TakeListed, PublishListed, AnswerListed
  <2>2. CASE Process /\ UNCHANGED requestVars
    <3>1. pc' \notin RequestPcs
      BY <1>2, <2>2, ProcessOKStep, PlacesApart DEF RequestsOK
    <3> QED
      BY <1>2, <2>2, <3>1 DEF ListedInv, RequestPcs, requestVars
  <2>3. CASE Others
    <3>1. pc' = pc \/ pc' = "top"
      BY <1>2, <2>3, OthersPlace DEF RequestsOK
    <3>2. UNCHANGED <<job, responses, published>>
      BY <2>3, Zenon DEF Others
    <3> QED
      BY <1>2, <3>1, <3>2 DEF ListedInv
  <2> QED
    BY <1>2, <2>1, <2>2, <2>3, StepKinds
<1>3. ListedInv => AnswersAreAdvertised
  <2> SUFFICES ASSUME ListedInv, published # Nil
               PROVE  /\ published.answer.pgn \in
                            ToSet(managedTransmitPGNs(TransmitPGNs, published.job.listed, FALSE))
                      /\ Once(published.answer.list)
    BY Zenon DEF AnswersAreAdvertised, Once
  <2>1. Listed(published.job, published.answer)
    BY DEF ListedInv
  <2>2. /\ AlwaysListed \subseteq
             ToSet(managedTransmitPGNs(TransmitPGNs, published.job.listed, FALSE))
        /\ published.job.listed =>
             "ConfigurationInformation" \in
               ToSet(managedTransmitPGNs(TransmitPGNs, published.job.listed, FALSE))
    BY PGNLists, Zenon
  <2>3. PGNs = AlwaysListed \cup {"ConfigurationInformation"}
    BY DEF PGNs, AlwaysListed
  <2> QED
    BY <2>1, <2>2, <2>3 DEF Listed
<1> QED
  BY <1>1, <1>2, <1>3, RequestsAlwaysOK, PTL DEF SpecRequests
=============================================================================
