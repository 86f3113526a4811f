----------------------------- MODULE AddressBus -----------------------------
(***************************************************************************)
(* Several nodes of pkg/node/node.go claiming addresses on one bus.        *)
(*                                                                         *)
(* Module Node takes one node apart lock region by lock region; here one   *)
(* round of a node's process goroutine, from its select over the handler   *)
(* to the top of the loop and the claim sent there, is one step.  Nothing  *)
(* is lost by that: once the application has made its one call of          *)
(* ClaimAddress, only that goroutine changes what it decides from.  The    *)
(* bus hands every frame to all other nodes in one order; a node does not  *)
(* hear itself.                                                            *)
(*                                                                         *)
(* The faults: a node loses its power and comes back knowing nothing, and  *)
(* a node misses a message (pgnIn drops what it cannot hold).  A device    *)
(* that asks everybody for their claims repairs the latter.  Product       *)
(* Information and the like may come from any address at any time, from a  *)
(* node or from another device that was there before.                      *)
(*                                                                         *)
(* A node is its NAME.  Of its registry the two maps the search for a free *)
(* address reads are kept: the index, the inverse of the directory `at` of *)
(* DeviceDirectory, and the addresses with an unnamed record; and only for *)
(* the nodes that use them: those that may choose another address.         *)
(***************************************************************************)
EXTENDS Naturals, FiniteSets, SequencesExt

CONSTANTS Nodes,             \* the NAMEs of the nodes
          TopBit,            \* NAMEs from here on may choose another address
          LastAddress,       \* 253 in the code
          AppAddresses,      \* what the applications pass to ClaimAddress
          CommandAddresses,  \* the addresses of commands on the bus
          InfoAddresses,     \* where information messages come from
          Nil,
          Bounds             \* bounds for TLC, to choose from: the nodes that take
                             \* part, the power cuts and missed messages, and the
                             \* commands, requests and information of other devices

Usable        == 0..LastAddress
GlobalAddress == LastAddress + 2

ASSUME BusAssumption ==
  /\ Nodes \subseteq Nat
  /\ IsFiniteSet(Nodes)
  /\ TopBit \in Nat
  /\ LastAddress \in Nat
  /\ AppAddresses \cup CommandAddresses \cup InfoAddresses \subseteq Usable
  /\ Nil \notin Nat
  /\ Bounds \subseteq [nodes : (SUBSET Nodes) \ {{}}, fault : Nat, order : Nat]

VARIABLES
  node,     \* each node's addressState, networkAddress and preferredAddress
  pgnIn,    \* what each node has yet to take
  heard,    \* each node's index of who is where
  unnamed,  \* the addresses each node has an unnamed record of
  asked,    \* history: the address the lowest NAME was last told to take
  missed,   \* history: a message was missed and no request has repaired it
  budget    \* what is left within the bounds

vars == <<node, pgnIn, heard, unnamed, asked, missed, budget>>

Off     == [addressState |-> "Off", networkAddress |-> GlobalAddress, preferredAddress |-> Nil]
Started == [Off EXCEPT !.addressState = "Unclaimed"]
Silence == [a \in Usable |-> Nil]
On      == {n \in Nodes : node[n] # Off}

Choosers == {n \in Nodes : n >= TopBit}
Lowest   == CHOOSE n \in budget.nodes : \A m \in budget.nodes : n <= m

Init ==
  /\ node = [n \in Nodes |-> Off]
  /\ pgnIn = [n \in Nodes |-> <<>>]
  /\ heard = [n \in Choosers |-> Silence]
  /\ unnamed = [n \in Choosers |-> {}]
  /\ asked = Nil
  /\ missed = FALSE
  /\ budget \in Bounds

Spend(kind) == /\ budget[kind] > 0
               /\ budget' = [budget EXCEPT ![kind] = @ - 1]

-----------------------------------------------------------------------------
(* The bus.                                                                *)

Claim(n, a) == [type |-> "claim", src |-> a, name |-> n]
Command(a)  == [type |-> "command", new |-> a]
Info(a)     == [type |-> "info", src |-> a]
Request     == [type |-> "request"]

\* The queues q once everybody but the sender has got the messages.
Sent(q, sender, list) ==
  [n \in Nodes |-> IF n \in On \ {sender} THEN q[n] \o list ELSE q[n]]

-----------------------------------------------------------------------------
(* The applications, the power and the other devices.                      *)

\* NewNode, SetDeviceInfo and Start.
Boot(n) ==
  /\ n \in budget.nodes
  /\ node[n] = Off
  /\ node' = [node EXCEPT ![n] = Started]
  /\ UNCHANGED <<pgnIn, heard, unnamed, asked, missed, budget>>

\* Nothing is saved and nobody is told.
PowerOff(n) ==
  /\ node[n] # Off
  /\ node' = [node EXCEPT ![n] = Off]
  /\ pgnIn' = [pgnIn EXCEPT ![n] = <<>>]
  /\ heard' = [m \in Choosers |-> IF m = n THEN Silence ELSE heard[m]]
  /\ unnamed' = [m \in Choosers |-> IF m = n THEN {} ELSE unnamed[m]]
  /\ asked' = IF n = Lowest THEN Nil ELSE asked
  /\ Spend("fault")
  /\ UNCHANGED missed

\* enqueuePgn drops the message that has just come.
Miss(n) ==
  /\ pgnIn[n] # <<>>
  /\ pgnIn' = [pgnIn EXCEPT ![n] = Front(@)]
  /\ missed' = TRUE
  /\ Spend("fault")
  /\ UNCHANGED <<node, heard, unnamed, asked>>

\* A device commands node n to take address a; the others see a foreign NAME.
CommandAddress(n, a) ==
  /\ n \in On
  /\ pgnIn' = [pgnIn EXCEPT ![n] = Append(@, Command(a))]
  /\ Spend("order")
  /\ UNCHANGED <<node, heard, unnamed, asked, missed>>

\* Everything sent has been taken, and no claim is under way.
Quiet == \A n \in Nodes : pgnIn[n] = <<>>
Idle  == Quiet /\ \A n \in Nodes : node[n].addressState # "Claiming"

\* A device sends an ISO request for the address claim to everybody.  A node that
\* is claiming does not answer: only a request on an idle bus reaches all.
AskClaims ==
  /\ pgnIn' = Sent(pgnIn, Nil, <<Request>>)
  /\ missed' = (missed /\ ~Idle)
  /\ Spend("order")
  /\ UNCHANGED <<node, heard, unnamed, asked>>

\* Product Information, Configuration Information or a PGN List from address a.
Inform(a) ==
  /\ pgnIn' = Sent(pgnIn, Nil, <<Info(a)>>)
  /\ Spend("order")
  /\ UNCHANGED <<node, heard, unnamed, asked, missed>>

-----------------------------------------------------------------------------
(* The process goroutine.                                                  *)

\* process has a claim ticker.
Ticking(r) == r.addressState = "Claiming" /\ r.networkAddress = r.preferredAddress

\* Whether the claim is sent at the top of the loop, when a handler has turned
\* the node's fields from old into new.
Restarts(old, new) ==
  /\ new.addressState = "Claiming"
  /\ ~Ticking(old) \/ new.networkAddress # new.preferredAddress

\* A round of node n: it takes the first message, if the round is for one, sends
\* the handler's answers, and passes the top of the loop.
Round(n, taken, new, answers) ==
  LET rest == [pgnIn EXCEPT ![n] = IF taken THEN Tail(@) ELSE @]
  IN  IF Restarts(node[n], new)
      THEN /\ node' = [node EXCEPT ![n] = [new EXCEPT !.networkAddress = new.preferredAddress]]
           /\ pgnIn' = Sent(rest, n, Append(answers, Claim(n, new.preferredAddress)))
      ELSE /\ node' = [node EXCEPT ![n] = new]
           /\ pgnIn' = Sent(rest, n, answers)

\* ClaimAddress wakes the goroutine; the round that follows belongs to the call.
\* What is taken from the queue before that round is taken before the call here.
ClaimAddress(n, a) ==
  /\ node[n] = Started
  /\ Round(n, FALSE, [node[n] EXCEPT !.addressState = "Claiming", !.preferredAddress = a],
           <<>>)
  /\ asked' = IF n = Lowest THEN a ELSE asked
  /\ UNCHANGED <<heard, unnamed, missed, budget>>

TakeClaimTick(n) ==
  /\ Ticking(node[n])
  /\ Round(n, FALSE, [node[n] EXCEPT !.addressState = "Claimed"], <<>>)
  /\ UNCHANGED <<heard, unnamed, asked, missed, budget>>

Takes(n, type) == pgnIn[n] # <<>> /\ Head(pgnIn[n]).type = type

\* The index of node n after a claim, as updateKnownDeviceFromClaim leaves it.
Heard(n, m) ==
  [a \in Usable |-> IF a = m.src THEN m.name
                    ELSE IF heard[n][a] = m.name THEN Nil ELSE heard[n][a]]

\* Mutant: the search ends before it has wrapped.
nextAvailableAddressLockedNoWrap(index, records, after) ==
  LET free == {a \in (after + 1)..LastAddress : index[a] = Nil /\ a \notin records}
  IN  IF free = {} THEN Nil ELSE CHOOSE a \in free : \A b \in free : a <= b

\* The first address after the lost one, round the corner, that the index has nobody
\* at and that has no unnamed record.
nextAvailableAddressLocked(index, records, after) ==
  LET candidate(i) == (after + i) % (LastAddress + 1)
      free == {i \in 1..LastAddress : index[candidate(i)] = Nil /\ candidate(i) \notin records}
  IN  IF free = {} THEN Nil
      ELSE candidate(CHOOSE i \in free : \A j \in free : i <= j)

\* Mutant: only a claimed node looks at contention.
ContendsWhenClaimed(n, m) ==
  node[n].addressState = "Claimed" /\ m.src = node[n].networkAddress

\* The claim is to the address this node holds or is claiming.
Contends(n, m) == /\ node[n].addressState \in {"Claiming", "Claimed"}
                  /\ m.src = node[n].networkAddress

\* Mutant: the higher NAME wins.
WinsHigher(n, m) == m.name < n

\* Mutant: the node never yields.
WinsAlways(n, m) == TRUE

\* The node's NAME goes before the incoming one.
Wins(n, m) == n <= m.name

\* What the write-locked region of processIsoAddressClaim makes of a node that
\* has to yield to claim m.
Yielded(n, m) ==
  LET next == IF n \in Choosers
              THEN nextAvailableAddressLocked(Heard(n, m), unnamed[n] \ {m.src}, m.src)
              ELSE Nil
  IN  IF next # Nil
      THEN [node[n] EXCEPT !.addressState = "Claiming", !.preferredAddress = next]
      ELSE [node[n] EXCEPT !.addressState = "Lost", !.networkAddress = GlobalAddress]

processIsoAddressClaim(n) ==
  /\ Takes(n, "claim")
  /\ LET m == Head(pgnIn[n])
     IN  /\ heard' = [c \in Choosers |-> IF c = n THEN Heard(n, m) ELSE heard[c]]
         /\ unnamed' = [c \in Choosers |-> IF c = n THEN unnamed[c] \ {m.src} ELSE unnamed[c]]
         /\ \/ ~Contends(n, m) /\ Round(n, TRUE, node[n], <<>>)
            \/ /\ Contends(n, m) /\ Wins(n, m)
               /\ Round(n, TRUE, node[n], <<Claim(n, node[n].networkAddress)>>)
            \/ /\ Contends(n, m) /\ ~Wins(n, m)
               /\ Round(n, TRUE, Yielded(n, m), <<>>)
  /\ UNCHANGED <<asked, missed, budget>>

\* Before ClaimAddress the node is read-only and obeys no command.
processIsoCommandedAddress(n) ==
  /\ Takes(n, "command")
  /\ LET a == Head(pgnIn[n]).new
     IN  \/ /\ node[n].addressState = "Unclaimed"
            /\ Round(n, TRUE, node[n], <<>>)
            /\ UNCHANGED asked
         \/ /\ node[n].addressState # "Unclaimed"
            /\ Round(n, TRUE, [node[n] EXCEPT !.addressState = "Claiming",
                                              !.preferredAddress = a], <<>>)
            /\ asked' = IF n = Lowest THEN a ELSE asked
  /\ UNCHANGED <<heard, unnamed, missed, budget>>

\* updateKnownDeviceFromProductInfo and the two like it: an address the index has
\* nobody at gets an unnamed record.
updateKnownDevice(n) ==
  /\ Takes(n, "info")
  /\ LET a == Head(pgnIn[n]).src
     IN  unnamed' = [c \in Choosers |-> IF c = n /\ heard[c][a] = Nil THEN unnamed[c] \cup {a}
                                       ELSE unnamed[c]]
  /\ Round(n, TRUE, node[n], <<>>)
  /\ UNCHANGED <<heard, asked, missed, budget>>

\* processIsoRequest answers for a claimed address only.
Answers(n) == node[n].addressState = "Claimed"

processIsoRequest(n) ==
  /\ Takes(n, "request")
  /\ Round(n, TRUE, node[n],
           IF Answers(n) THEN <<Claim(n, node[n].networkAddress)>> ELSE <<>>)
  /\ UNCHANGED <<heard, unnamed, asked, missed, budget>>

-----------------------------------------------------------------------------

Process(n) ==
  \/ processIsoAddressClaim(n) \/ processIsoCommandedAddress(n) \/ processIsoRequest(n)
  \/ updateKnownDevice(n) \/ TakeClaimTick(n)

Environment ==
  \/ \E n \in Nodes : Boot(n) \/ PowerOff(n) \/ Miss(n)
  \/ \E n \in Nodes, a \in AppAddresses : ClaimAddress(n, a)
  \/ \E n \in Nodes, a \in CommandAddresses : CommandAddress(n, a)
  \/ \E a \in InfoAddresses : Inform(a)
  \/ AskClaims

Next == Environment \/ \E n \in Nodes : Process(n)

Spec == Init /\ [][Next]_vars

\* Every node's goroutine runs and its ticker ticks.
Fairness == \A n \in Nodes : WF_vars(Process(n))

FairSpec == Spec /\ Fairness

-----------------------------------------------------------------------------
(* Properties.                                                             *)

AddressStates == {"Off", "Unclaimed", "Claiming", "Claimed", "Lost"}

\* The nodes' fields hold values of their types, a claimed address is usable, a
\* node without an address has none to send from, and one that is off has no
\* messages.
BusTypeOK ==
  \A n \in Nodes :
    /\ node[n] \in [addressState : AddressStates,
                    networkAddress : Usable \cup {GlobalAddress},
                    preferredAddress : Usable \cup {Nil}]
    /\ n \in Choosers => /\ heard[n] \in [Usable -> Nodes \cup {Nil}]
                         /\ unnamed[n] \subseteq {a \in Usable : heard[n][a] = Nil}
    /\ node[n].addressState = "Claimed" => node[n].networkAddress \in Usable
    /\ node[n].addressState \in {"Unclaimed", "Lost"} => node[n].networkAddress = GlobalAddress
    /\ node[n] = Off => pgnIn[n] = <<>>

\* Beside the types: once everything sent has been taken, no two nodes hold one address: whoever
\* started first, whoever lost power in between, and however claims, defences,
\* retries, commands and timeouts crossed on the bus.  A message that was missed is
\* repaired by a request for everybody's claim, made when nobody is claiming any
\* more.
QuietMeansDistinct ==
  /\ BusTypeOK
  /\ Quiet /\ ~missed =>
       \A n, m \in Nodes :
         n # m /\ node[n].addressState = "Claimed" /\ node[m].addressState = "Claimed"
           => node[n].networkAddress # node[m].networkAddress

\* The lowest NAME never loses an address and never moves by itself: the address
\* it holds is the one it was last told to take.
LowestNameUndisturbed ==
  /\ node[Lowest].addressState # "Lost"
  /\ node[Lowest].addressState = "Claimed" => node[Lowest].networkAddress = asked

\* A node that may choose its address gives up only when the other nodes and the
\* unnamed records it has then can fill its table: what it has heard of the others,
\* those without power and those that have moved included, takes one address each.
\* An unnamed record stays when the device it is of claims another address, so one
\* that is stale may cost the node its address.
NobodyLostNeedlessly ==
  [][\A n \in Choosers :
       node[n].addressState # "Lost" /\ node'[n].addressState = "Lost"
         => Cardinality(budget.nodes) + Cardinality(unnamed'[n]) > LastAddress + 1]_vars

\* The contention ends: every node settles on an address or gives up.
Settles == <>[](\A n \in Nodes : node[n].addressState # "Claiming")
=============================================================================
