-------------------------- MODULE AddressBusProofs --------------------------
(***************************************************************************)
(* Claims on the bus, for any number of nodes, addresses, power cuts,      *)
(* missed messages, commands, requests and information messages.           *)
(***************************************************************************)
EXTENDS AddressBus, SequenceTheorems, FiniteSetTheorems, TLAPS

-----------------------------------------------------------------------------
(* Queues.                                                                 *)

\* What the operations on pgnIn do to the messages that are in it.
LEMMA QueueContents ==
  ASSUME NEW T, NEW q \in Seq(T)
  PROVE  /\ ToSet(q) \subseteq T
         /\ q = <<>> => ToSet(q) = {}
         /\ q # <<>> => /\ Head(q) \in ToSet(q)
                        /\ Tail(q) \in Seq(T)
                        /\ ToSet(q) = {Head(q)} \cup ToSet(Tail(q))
<1>1. /\ Len(q) \in Nat
      /\ DOMAIN q = 1..Len(q)
      /\ \A i \in 1..Len(q) : q[i] \in T
  BY LenProperties
<1>2. ToSet(q) \subseteq T
  BY <1>1 DEF ToSet
<1>3. q = <<>> => ToSet(q) = {}
  BY DEF ToSet
<1>4. ASSUME q # <<>>
      PROVE  /\ Head(q) \in ToSet(q)
             /\ Tail(q) \in Seq(T)
             /\ ToSet(q) = {Head(q)} \cup ToSet(Tail(q))
  <2>1. /\ Tail(q) \in Seq(T)
        /\ Len(Tail(q)) = Len(q) - 1
        /\ DOMAIN Tail(q) = 1..(Len(q) - 1)
        /\ \A i \in 1..(Len(q) - 1) : Tail(q)[i] = q[i + 1]
    BY <1>4, HeadTailProperties, LenProperties
  <2>2. Head(q) = q[1] /\ 1 \in DOMAIN q
    BY <1>1, <1>4, EmptySeq
  <2>3. Head(q) \in ToSet(q)
    BY <2>2 DEF ToSet
  <2>4. ToSet(Tail(q)) \subseteq ToSet(q)
    BY <1>1, <2>1 DEF ToSet
  <2>5. ASSUME NEW x \in ToSet(q), x # Head(q) PROVE x \in ToSet(Tail(q))
    <3>1. PICK i \in 1..Len(q) : q[i] = x
      BY <1>1 DEF ToSet
    <3>2. i # 1
      BY <2>2, <2>5, <3>1
    <3>3. i - 1 \in DOMAIN Tail(q) /\ Tail(q)[i - 1] = x
      BY <1>1, <2>1, <3>1, <3>2
    <3> QED
      BY <3>3 DEF ToSet
  <2> QED
    BY <2>1, <2>3, <2>4, <2>5
<1> QED
  BY <1>2, <1>3, <1>4

\* What is sent joins what was there.
LEMMA JoinedContents ==
  ASSUME NEW T, NEW q \in Seq(T), NEW p \in Seq(T)
  PROVE  q \o p \in Seq(T) /\ ToSet(q \o p) = ToSet(q) \cup ToSet(p)
<1>1. /\ Len(q) \in Nat /\ DOMAIN q = 1..Len(q)
      /\ Len(p) \in Nat /\ DOMAIN p = 1..Len(p)
  BY LenProperties
<1>2. /\ q \o p \in Seq(T)
      /\ DOMAIN (q \o p) = 1..(Len(q) + Len(p))
      /\ \A i \in 1..(Len(q) + Len(p)) :
           (q \o p)[i] = IF i <= Len(q) THEN q[i] ELSE p[i - Len(q)]
  BY ConcatProperties, LenProperties
<1>3. ToSet(q \o p) \subseteq ToSet(q) \cup ToSet(p)
  BY <1>1, <1>2 DEF ToSet
<1>4. ToSet(q) \subseteq ToSet(q \o p)
  BY <1>1, <1>2 DEF ToSet
<1>5. ASSUME NEW j \in 1..Len(p) PROVE p[j] \in ToSet(q \o p)
  <2>1. /\ Len(q) + j \in 1..(Len(q) + Len(p))
        /\ ~(Len(q) + j <= Len(q))
        /\ (Len(q) + j) - Len(q) = j
    BY <1>1
  <2>2. (q \o p)[Len(q) + j] = p[j]
    BY <1>2, <2>1
  <2> QED
    BY <1>2, <2>1, <2>2 DEF ToSet
<1>6. ToSet(p) \subseteq ToSet(q \o p)
  BY <1>1, <1>5 DEF ToSet
<1> QED
  BY <1>2, <1>3, <1>4, <1>6

\* Lists of one message.
LEMMA OneMessage ==
  ASSUME NEW T, NEW x \in T
  PROVE  <<x>> \in Seq(T) /\ ToSet(<<x>>) = {x} /\ Append(<<>>, x) = <<x>>
BY DEF ToSet

\* One message more in a queue.
LEMMA OneMore ==
  ASSUME NEW T, NEW q \in Seq(T), NEW x \in T
  PROVE  q \o <<x>> \in Seq(T) /\ ToSet(q \o <<x>>) = ToSet(q) \cup {x}
<1> DEFINE p == <<x>>
<1>1. p \in Seq(T) /\ ToSet(p) = {x}
  BY OneMessage
<1> HIDE DEF p
<1>2. q \o p \in Seq(T) /\ ToSet(q \o p) = ToSet(q) \cup {x}
  BY <1>1, JoinedContents
<1> QED
  BY <1>2 DEF p

\* enqueuePgn, when it drops the message that has just come.
LEMMA FrontContents ==
  ASSUME NEW T, NEW q \in Seq(T), q # <<>>
  PROVE  Front(q) \in Seq(T) /\ ToSet(Front(q)) \subseteq ToSet(q)
<1>1. Len(q) \in Nat /\ Len(q) # 0 /\ DOMAIN q = 1..Len(q) /\ \A i \in 1..Len(q) : q[i] \in T
  BY LenProperties, EmptySeq
<1>2. Front(q) = SubSeq(q, 1, Len(q) - 1)
  BY DEF Front
<1>3. /\ SubSeq(q, 1, Len(q) - 1) \in Seq(T)
      /\ Len(SubSeq(q, 1, Len(q) - 1)) = Len(q) - 1
      /\ \A i \in 1..(Len(q) - 1) : SubSeq(q, 1, Len(q) - 1)[i] = q[i]
  BY <1>1, SubSeqProperties
<1>4. DOMAIN SubSeq(q, 1, Len(q) - 1) = 1..(Len(q) - 1)
  BY <1>3, LenProperties
<1>5. ToSet(SubSeq(q, 1, Len(q) - 1)) \subseteq ToSet(q)
  BY <1>1, <1>3, <1>4 DEF ToSet
<1> QED
  BY <1>2, <1>3, <1>5

-----------------------------------------------------------------------------
(* The search for an address.                                              *)

\* From a lost address on, every other one is a candidate, and the lost one is none.
LEMMA Candidates ==
  ASSUME NEW after \in Usable
  PROVE  /\ \A i \in 1..LastAddress :
              (after + i) % (LastAddress + 1) \in Usable \ {after}
         /\ \A b \in Usable \ {after} :
              \E i \in 1..LastAddress : (after + i) % (LastAddress + 1) = b
<1>0. after \in Nat /\ after <= LastAddress /\ LastAddress \in Nat
  BY BusAssumption DEF Usable
<1>1. ASSUME NEW b \in Nat, b <= LastAddress PROVE b % (LastAddress + 1) = b
  BY <1>0, <1>1
<1>2. ASSUME NEW b \in Nat, b <= LastAddress
      PROVE  (b + (LastAddress + 1)) % (LastAddress + 1) = b
  BY <1>0, <1>2
<1>3. ASSUME NEW i \in 1..LastAddress
      PROVE  (after + i) % (LastAddress + 1) \in Usable \ {after}
  <2>1. CASE after + i <= LastAddress
    <3>1. (after + i) % (LastAddress + 1) = after + i
      BY <1>0, <1>1, <2>1
    <3> QED
      BY <1>0, <2>1, <3>1 DEF Usable
  <2>2. CASE after + i > LastAddress
    <3> DEFINE b == after + i - (LastAddress + 1)
    <3>1. /\ b \in Nat
          /\ b <= LastAddress
          /\ b # after
          /\ b + (LastAddress + 1) = after + i
      BY <1>0, <2>2
    <3> HIDE DEF b
    <3>2. (b + (LastAddress + 1)) % (LastAddress + 1) = b
      BY <1>2, <3>1
    <3> QED
      BY <3>1, <3>2 DEF Usable
  <2> QED
    BY <1>0, <2>1, <2>2
<1>4. ASSUME NEW b \in Usable \ {after}
      PROVE  \E i \in 1..LastAddress : (after + i) % (LastAddress + 1) = b
  <2>0. b \in Nat /\ b <= LastAddress /\ b # after
    BY <1>0 DEF Usable
  <2>1. CASE b > after
    <3>1. b - after \in 1..LastAddress /\ after + (b - after) = b
      BY <1>0, <2>0, <2>1
    <3> QED
      BY <1>1, <2>0, <3>1
  <2>2. CASE b < after
    <3>1. /\ b - after + (LastAddress + 1) \in 1..LastAddress
          /\ after + (b - after + (LastAddress + 1)) = b + (LastAddress + 1)
      BY <1>0, <2>0, <2>2
    <3> QED
      BY <1>2, <2>0, <3>1
  <2> QED
    BY <1>0, <2>0, <2>1, <2>2
<1> QED
  BY <1>3, <1>4

\* Every non-empty set of natural numbers has a least element.
LEMMA LeastOne ==
  ASSUME NEW S, S \subseteq Nat, S # {}
  PROVE  \E i \in S : \A j \in S : i <= j
<1> DEFINE less == {p \in Nat \X Nat : p[1] < p[2]}
<1>1. IsWellFoundedOn(less, Nat)
  BY NatLessThanWellFounded, Zenon DEF OpToRel
<1>2. \E i \in S : \A j \in S : <<j, i>> \notin less
  <2> HIDE DEF less
  <2> QED
    BY <1>1, WFMin
<1>3. \A i, j \in Nat : <<j, i>> \notin less => i <= j
  OBVIOUS
<1> HIDE DEF less
<1> QED
  BY <1>2, <1>3

\* nextAvailableAddressLocked finds another address that the index has nobody at and
\* that has no unnamed record, and none only if every other has one or the other.
LEMMA NextOne ==
  ASSUME NEW index, NEW records, NEW after \in Usable
  PROVE  LET next == nextAvailableAddressLocked(index, records, after)
         IN  \/ /\ next \in Usable \ {after} /\ next # Nil
                /\ index[next] = Nil /\ next \notin records
             \/ next = Nil /\ \A b \in Usable \ {after} : index[b] # Nil \/ b \in records
<1> DEFINE candidate(i) == (after + i) % (LastAddress + 1)
           free == {i \in 1..LastAddress :
                      index[candidate(i)] = Nil /\ candidate(i) \notin records}
           next == nextAvailableAddressLocked(index, records, after)
<1>1. \A i \in 1..LastAddress : candidate(i) \in Usable \ {after}
  BY Candidates
<1>2. \A b \in Usable \ {after} : \E i \in 1..LastAddress : candidate(i) = b
  BY Candidates
<1>3. next = IF free = {} THEN Nil ELSE candidate(CHOOSE i \in free : \A j \in free : i <= j)
  BY DEF nextAvailableAddressLocked
<1>4. /\ free \subseteq 1..LastAddress
      /\ \A i \in free : index[candidate(i)] = Nil /\ candidate(i) \notin records
  OBVIOUS
<1>5. free = {} =>
        \A i \in 1..LastAddress : index[candidate(i)] # Nil \/ candidate(i) \in records
  OBVIOUS
<1>6. \A b \in Usable : b # Nil
  BY BusAssumption DEF Usable
<1> HIDE DEF candidate, free, next
<1>7. CASE free = {}
  BY <1>2, <1>3, <1>5, <1>7 DEF next
<1>8. CASE free # {}
  <2>1. \E i \in free : \A j \in free : i <= j
    <3>1. free \subseteq Nat
      BY <1>4, BusAssumption
    <3> QED
      BY <1>8, <3>1, LeastOne
  <2>2. (CHOOSE i \in free : \A j \in free : i <= j) \in free
    BY <2>1
  <2> QED
    BY <1>1, <1>3, <1>4, <1>6, <1>8, <2>2 DEF next
<1> QED
  BY <1>7, <1>8

-----------------------------------------------------------------------------
(* The types of the nodes and of what is under way between them.           *)

Records == [addressState : AddressStates,
            networkAddress : Usable \cup {GlobalAddress},
            preferredAddress : Usable \cup {Nil}]

\* The messages on the bus; a claim is that of a node that takes part.
Traffic(S) == [type : {"claim"}, src : Usable, name : S]
              \cup [type : {"command"}, new : Usable]
              \cup [type : {"info"}, src : Usable]
              \cup {Request}

\* A node claims and holds the address it wants; without one it is nowhere.
Settled(r) ==
  /\ r.addressState = "Off" => r = Off
  /\ r.addressState \in {"Claiming", "Claimed"} =>
       r.networkAddress \in Usable /\ r.networkAddress = r.preferredAddress
  /\ r.addressState \in {"Unclaimed", "Lost"} => r.networkAddress = GlobalAddress

\* What the nodes know: who of S is where, and records of addresses nobody is at.
Known(h, u, S) ==
  /\ h \in [Choosers -> [Usable -> S \cup {Nil}]]
  /\ u \in [Choosers -> SUBSET Usable]
  /\ \A c \in Choosers : \A a \in u[c] : h[c][a] = Nil

\* Only nodes that take part have power, and only these have messages, none of them
\* their own claim.
TrafficInv ==
  /\ budget \in [nodes : (SUBSET Nodes) \ {{}}, fault : Nat, order : Nat]
  /\ node \in [Nodes -> Records]
  /\ pgnIn \in [Nodes -> Seq(Traffic(budget.nodes))]
  /\ Known(heard, unnamed, budget.nodes)
  /\ \A n \in Nodes : /\ Settled(node[n])
                      /\ node[n] # Off => n \in budget.nodes
                      /\ node[n] = Off => pgnIn[n] = <<>>
                      /\ \A x \in ToSet(pgnIn[n]) : x.type = "claim" => x.name # n

\* The states of a node are different ones.
LEMMA StateFacts ==
  /\ Off \in Records /\ Off.addressState = "Off" /\ Settled(Off)
  /\ Started \in Records /\ Started.addressState = "Unclaimed" /\ Settled(Started)
  /\ Off # Started
BY DEF Off, Started, Records, AddressStates, Settled

\* What a message is.
LEMMA MessageKinds ==
  ASSUME NEW S
  PROVE  /\ \A n \in S, a \in Usable : /\ Claim(n, a) \in Traffic(S)
                                       /\ Claim(n, a).type = "claim"
                                       /\ Claim(n, a).src = a
                                       /\ Claim(n, a).name = n
         /\ \A a \in Usable : Command(a) \in Traffic(S) /\ Command(a).type = "command"
         /\ \A a \in Usable : Info(a) \in Traffic(S) /\ Info(a).type = "info"
         /\ Request \in Traffic(S) /\ Request.type = "request"
         /\ \A x \in Traffic(S) :
              /\ x.type = "claim" => /\ x.src \in Usable /\ x.name \in S
                                     /\ x = Claim(x.name, x.src)
              /\ x.type = "command" => x.new \in Usable
              /\ x.type = "info" => x.src \in Usable
              /\ x.type = "request" => x = Request
BY DEF Claim, Command, Info, Request, Traffic

\* The messages a node has yet to take, after a round of node n: the others get
\* what it sends.
LEMMA SentContents ==
  ASSUME TrafficInv, NEW n \in Nodes, NEW taken \in BOOLEAN, taken => pgnIn[n] # <<>>,
         NEW list \in Seq(Traffic(budget.nodes)),
         pgnIn' = Sent([pgnIn EXCEPT ![n] = IF taken THEN Tail(@) ELSE @], n, list)
  PROVE  /\ pgnIn' \in [Nodes -> Seq(Traffic(budget.nodes))]
         /\ pgnIn'[n] = IF taken THEN Tail(pgnIn[n]) ELSE pgnIn[n]
         /\ \A m \in Nodes \ {n} :
              /\ m \in On => ToSet(pgnIn'[m]) = ToSet(pgnIn[m]) \cup ToSet(list)
              /\ m \notin On => pgnIn'[m] = pgnIn[m]
<1> DEFINE T == Traffic(budget.nodes)
           rest == [pgnIn EXCEPT ![n] = IF taken THEN Tail(@) ELSE @]
<1>1. pgnIn \in [Nodes -> Seq(T)] /\ list \in Seq(T)
  BY DEF TrafficInv
<1> HIDE DEF T
<1>2. rest[n] = (IF taken THEN Tail(pgnIn[n]) ELSE pgnIn[n]) /\ rest[n] \in Seq(T)
  BY <1>1, QueueContents
<1>3. \A m \in Nodes \ {n} : rest[m] = pgnIn[m]
  BY <1>1
<1>4. \A m \in Nodes : pgnIn'[m] = IF m \in On \ {n} THEN rest[m] \o list ELSE rest[m]
  BY Zenon DEF Sent
<1>5. \A m \in Nodes : rest[m] \in Seq(T)
  BY <1>1, <1>2, <1>3
<1>0. pgnIn' = [m \in Nodes |-> pgnIn'[m]]
  BY <1>4 DEF Sent
<1> HIDE DEF rest
<1>6. ASSUME NEW m \in Nodes PROVE pgnIn'[m] \in Seq(T)
  <2>1. CASE m \in On \ {n}
    <3>1. pgnIn'[m] = rest[m] \o list
      BY <1>4, <2>1
    <3>2. rest[m] \o list \in Seq(T)
      BY <1>1, <1>5, JoinedContents
    <3> QED
      BY <3>1, <3>2
  <2>2. CASE m \notin On \ {n}
    BY <1>4, <1>5, <2>2
  <2> QED
    BY <2>1, <2>2
<1>7. pgnIn' \in [Nodes -> Seq(T)]
  BY <1>0, <1>6
<1>8. ASSUME NEW m \in Nodes \ {n}, m \in On
      PROVE  ToSet(pgnIn'[m]) = ToSet(pgnIn[m]) \cup ToSet(list)
  <2>1. pgnIn'[m] = pgnIn[m] \o list
    BY <1>3, <1>4, <1>8
  <2>2. pgnIn[m] \in Seq(T)
    BY <1>1
  <2>3. ToSet(pgnIn[m] \o list) = ToSet(pgnIn[m]) \cup ToSet(list)
    BY <1>1, <2>2, JoinedContents
  <2> QED
    BY <2>1, <2>3
<1>9. pgnIn'[n] = IF taken THEN Tail(pgnIn[n]) ELSE pgnIn[n]
  BY <1>2, <1>4
<1>10. \A m \in Nodes \ {n} : m \notin On => pgnIn'[m] = pgnIn[m]
  BY <1>3, <1>4
<1> QED
  BY <1>7, <1>8, <1>9, <1>10 DEF T

-----------------------------------------------------------------------------
(* The rounds of a node.                                                   *)

\* Node n takes a message or not, and sends a list.
Passes(n, taken, list) ==
  /\ taken \in BOOLEAN
  /\ taken => pgnIn[n] # <<>>
  /\ pgnIn' = Sent([pgnIn EXCEPT ![n] = IF taken THEN Tail(@) ELSE @], n, list)

\* What a node may find in its queue after a round of node n.
LEMMA PassedContents ==
  ASSUME TrafficInv, NEW n \in Nodes, NEW taken, NEW list \in Seq(Traffic(budget.nodes)),
         Passes(n, taken, list)
  PROVE  /\ pgnIn' \in [Nodes -> Seq(Traffic(budget.nodes))]
         /\ pgnIn'[n] = IF taken THEN Tail(pgnIn[n]) ELSE pgnIn[n]
         /\ \A m \in Nodes \ {n} :
              /\ m \in On => ToSet(pgnIn'[m]) = ToSet(pgnIn[m]) \cup ToSet(list)
              /\ m \notin On => pgnIn'[m] = pgnIn[m]
         /\ \A m \in Nodes : /\ ToSet(pgnIn'[m]) \subseteq ToSet(pgnIn[m]) \cup ToSet(list)
                             /\ m = n => ToSet(pgnIn'[m]) \subseteq ToSet(pgnIn[m])
                             /\ m # n /\ m \notin On => pgnIn'[m] = pgnIn[m]
<1> DEFINE T == Traffic(budget.nodes)
<1>1. taken \in BOOLEAN /\ (taken => pgnIn[n] # <<>>)
  BY DEF Passes
<1>2. /\ pgnIn' \in [Nodes -> Seq(T)]
      /\ pgnIn'[n] = IF taken THEN Tail(pgnIn[n]) ELSE pgnIn[n]
      /\ \A m \in Nodes \ {n} :
           /\ m \in On => ToSet(pgnIn'[m]) = ToSet(pgnIn[m]) \cup ToSet(list)
           /\ m \notin On => pgnIn'[m] = pgnIn[m]
  BY <1>1, SentContents DEF Passes
<1>3. pgnIn[n] \in Seq(T)
  BY DEF TrafficInv
<1> HIDE DEF T
<1>4. ToSet(pgnIn'[n]) \subseteq ToSet(pgnIn[n])
  BY <1>1, <1>2, <1>3, QueueContents
<1> QED
  BY <1>2, <1>4 DEF T

\* What other devices send to everybody reaches the nodes that have power.
LEMMA AskedContents ==
  ASSUME TrafficInv, NEW x \in Traffic(budget.nodes), pgnIn' = Sent(pgnIn, Nil, <<x>>)
  PROVE  /\ pgnIn' \in [Nodes -> Seq(Traffic(budget.nodes))]
         /\ \A m \in Nodes : /\ m \in On => ToSet(pgnIn'[m]) = ToSet(pgnIn[m]) \cup {x}
                             /\ m \notin On => pgnIn'[m] = pgnIn[m]
<1> DEFINE T == Traffic(budget.nodes)
<1>1. pgnIn \in [Nodes -> Seq(T)] /\ x \in T
  BY DEF TrafficInv
<1>2. Nil \notin Nodes
  BY BusAssumption
<1>3. pgnIn' = [m \in Nodes |-> IF m \in On \ {Nil} THEN pgnIn[m] \o <<x>> ELSE pgnIn[m]]
  BY DEF Sent
<1> HIDE DEF T
<1>5. ASSUME NEW m \in Nodes
      PROVE  /\ pgnIn[m] \o <<x>> \in Seq(T)
             /\ ToSet(pgnIn[m] \o <<x>>) = ToSet(pgnIn[m]) \cup {x}
  BY <1>1, OneMore
<1>6. \A m \in Nodes : m \in On \ {Nil} <=> m \in On
  BY <1>2
<1>7. pgnIn' \in [Nodes -> Seq(T)]
  BY <1>1, <1>3, <1>5
<1> QED
  BY <1>3, <1>5, <1>6, <1>7 DEF T

\* A round changes nothing, unless it is for a claim against the node, or for a
\* request that the node answers.
Keeps(n) ==
  /\ UNCHANGED node
  /\ \E taken : /\ Passes(n, taken, <<>>)
                /\ taken => /\ Head(pgnIn[n]).type = "claim" => ~Contends(n, Head(pgnIn[n]))
                            /\ Head(pgnIn[n]).type = "request" => ~Answers(n)

\* The claim timeout.
Ticks(n) ==
  /\ node[n].addressState = "Claiming"
  /\ node' = [node EXCEPT ![n] = [@ EXCEPT !.addressState = "Claimed"]]
  /\ Passes(n, FALSE, <<>>)

\* The node says once more where it is.
Defends(n) ==
  /\ UNCHANGED node
  /\ node[n].addressState \in {"Claiming", "Claimed"}
  /\ \E taken : Passes(n, taken, <<Claim(n, node[n].networkAddress)>>)

\* The node goes for address a.
Moves(n, a) ==
  /\ a \in Usable
  /\ node' = [node EXCEPT ![n] = [addressState |-> "Claiming", networkAddress |-> a,
                                  preferredAddress |-> a]]
  /\ \E taken : Passes(n, taken, <<Claim(n, a)>>)

\* A claim against the node, from a lower NAME, is the next in its queue.
Beaten(n) ==
  /\ Takes(n, "claim")
  /\ Contends(n, Head(pgnIn[n]))
  /\ ~Wins(n, Head(pgnIn[n]))

\* The node is left without an address: it may not choose, or has somebody at every
\* address or an unnamed record of it.
Loses(n) ==
  /\ Beaten(n)
  /\ node' = [node EXCEPT ![n] = [@ EXCEPT !.addressState = "Lost",
                                           !.networkAddress = GlobalAddress]]
  /\ \E taken : Passes(n, taken, <<>>)
  /\ n \in Choosers =>
       \A b \in Usable : Heard(n, Head(pgnIn[n]))[b] # Nil \/ b \in unnamed'[n]

\* After a claim a node that may choose knows who is where, and after information
\* that somebody is.
Learns(n) ==
  \/ UNCHANGED <<heard, unnamed>>
  \/ /\ Takes(n, "claim")
     /\ heard' = [c \in Choosers |-> IF c = n THEN Heard(n, Head(pgnIn[n])) ELSE heard[c]]
     /\ unnamed' = [c \in Choosers |-> IF c = n THEN unnamed[c] \ {Head(pgnIn[n]).src}
                                       ELSE unnamed[c]]
  \/ /\ Takes(n, "info")
     /\ UNCHANGED heard
     /\ unnamed' = [c \in Choosers |-> IF c = n /\ heard[c][Head(pgnIn[n]).src] = Nil
                                       THEN unnamed[c] \cup {Head(pgnIn[n]).src}
                                       ELSE unnamed[c]]

\* A round of node n, by what it comes to.
Plays(n) ==
  /\ node[n] # Off
  /\ UNCHANGED <<budget, missed>>
  /\ Learns(n)
  /\ \/ /\ Keeps(n)
        /\ \/ UNCHANGED asked
           \/ /\ n = Lowest
              /\ node[n].addressState = "Claiming"
              /\ asked' = node[n].networkAddress
     \/ Ticks(n) /\ UNCHANGED asked
     \/ Defends(n) /\ UNCHANGED asked
     \/ /\ \E a \in Usable : /\ Moves(n, a)
                             /\ \/ asked' = IF n = Lowest THEN a ELSE asked
                                \/ Beaten(n) /\ UNCHANGED asked
     \/ Loses(n) /\ UNCHANGED asked

\* A round whose handler leaves the node's fields alone starts no claim.
LEMMA StillRound ==
  ASSUME NEW n, NEW taken, NEW answers, Settled(node[n]), node \in [Nodes -> Records],
         n \in Nodes, Round(n, taken, node[n], answers)
  PROVE  /\ UNCHANGED node
         /\ pgnIn' = Sent([pgnIn EXCEPT ![n] = IF taken THEN Tail(@) ELSE @], n, answers)
<1>1. ~Restarts(node[n], node[n])
  BY DEF Restarts, Ticking, Settled
<1>2. /\ node' = [node EXCEPT ![n] = node[n]]
      /\ pgnIn' = Sent([pgnIn EXCEPT ![n] = IF taken THEN Tail(@) ELSE @], n, answers)
  BY <1>1 DEF Round
<1> QED
  BY <1>2

\* The fields that processIsoCommandedAddress, ClaimAddress and a retry set.
LEMMA Edited ==
  ASSUME NEW r \in Records, NEW a
  PROVE  [r EXCEPT !.addressState = "Claiming", !.preferredAddress = a]
           = [addressState |-> "Claiming", networkAddress |-> r.networkAddress,
              preferredAddress |-> a]
<1> DEFINE u == [r EXCEPT !.addressState = "Claiming", !.preferredAddress = a]
<1>1. u = [r EXCEPT !.addressState = "Claiming", !.preferredAddress = a]
  OBVIOUS
<1> HIDE DEF u
<1>2. u = [addressState |-> "Claiming", networkAddress |-> r.networkAddress,
           preferredAddress |-> a]
  BY <1>1 DEF Records
<1> QED
  BY <1>1, <1>2

\* A round that goes for address a, whatever makes it do so: nothing comes of it
\* only when the node is claiming a already.
LEMMA ClaimingRound ==
  ASSUME TrafficInv, NEW n \in Nodes, NEW taken \in BOOLEAN, taken => pgnIn[n] # <<>>,
         NEW a \in Usable,
         Round(n, taken, [node[n] EXCEPT !.addressState = "Claiming", !.preferredAddress = a],
               <<>>)
  PROVE  \/ Moves(n, a)
         \/ /\ UNCHANGED node
            /\ Passes(n, taken, <<>>)
            /\ node[n].addressState = "Claiming"
            /\ node[n].networkAddress = a
<1> DEFINE new == [node[n] EXCEPT !.addressState = "Claiming", !.preferredAddress = a]
           rest == [pgnIn EXCEPT ![n] = IF taken THEN Tail(@) ELSE @]
<1>1. node[n] \in Records /\ Settled(node[n]) /\ node \in [Nodes -> Records]
  BY DEF TrafficInv
<1>2. /\ new = [addressState |-> "Claiming", networkAddress |-> node[n].networkAddress,
                preferredAddress |-> a]
  BY <1>1, Edited
<1>3. CASE Restarts(node[n], new)
  <2>1. /\ node' = [node EXCEPT ![n] = [new EXCEPT !.networkAddress = new.preferredAddress]]
        /\ pgnIn' = Sent(rest, n, Append(<<>>, Claim(n, new.preferredAddress)))
    BY <1>3, Zenon DEF Round
  <2>2. new.preferredAddress = a
    BY <1>2
  <2>3. [new EXCEPT !.networkAddress = new.preferredAddress]
          = [addressState |-> "Claiming", networkAddress |-> a, preferredAddress |-> a]
    <3> HIDE DEF new
    <3> QED
      BY <1>2
  <2>4. Append(<<>>, Claim(n, a)) = <<Claim(n, a)>>
    BY OneMessage
  <2>5. pgnIn' = Sent(rest, n, <<Claim(n, a)>>)
    BY <2>1, <2>2, <2>4
  <2>6. node' = [node EXCEPT ![n] = [addressState |-> "Claiming", networkAddress |-> a,
                                     preferredAddress |-> a]]
    BY <2>1, <2>3
  <2> QED
    BY <2>5, <2>6 DEF Moves, Passes
<1>4. CASE ~Restarts(node[n], new)
  <2>1. node' = [node EXCEPT ![n] = new] /\ pgnIn' = Sent(rest, n, <<>>)
    BY <1>4, Zenon DEF Round
  <2>2. /\ node[n].addressState = "Claiming"
        /\ node[n].networkAddress = a
        /\ node[n].preferredAddress = a
    BY <1>2, <1>4 DEF Restarts, Ticking, new
  <2>3. new = node[n]
    BY <1>1, <1>2, <2>2 DEF Records
  <2>4. UNCHANGED node
    BY <1>1, <2>1, <2>3
  <2> QED
    BY <2>1, <2>2, <2>4 DEF Passes
<1> QED
  BY <1>3, <1>4

\* A queue holds messages of its type, and a node takes one only if it has power.
LEMMA TakenMessage ==
  ASSUME TrafficInv, NEW n \in Nodes, pgnIn[n] # <<>>
  PROVE  /\ Head(pgnIn[n]) \in ToSet(pgnIn[n])
         /\ Head(pgnIn[n]) \in Traffic(budget.nodes)
         /\ node[n] # Off
         /\ Head(pgnIn[n]).type = "claim" => /\ Head(pgnIn[n]).src \in Usable
                                             /\ Head(pgnIn[n]).name \in budget.nodes
                                             /\ Head(pgnIn[n]).name # n
<1> DEFINE T == Traffic(budget.nodes)
<1>1. pgnIn[n] \in Seq(T)
  BY DEF TrafficInv
<1>2. node[n] # Off /\ \A x \in ToSet(pgnIn[n]) : x.type = "claim" => x.name # n
  BY DEF TrafficInv
<1> HIDE DEF T
<1>3. Head(pgnIn[n]) \in ToSet(pgnIn[n]) /\ Head(pgnIn[n]) \in T
  BY <1>1, QueueContents
<1> QED
  BY <1>2, <1>3, MessageKinds DEF T

\* sendAddressClaim: what a node with an address sends is a message.
LEMMA SentClaim ==
  ASSUME TrafficInv, NEW n \in Nodes, node[n] # Off, NEW a \in Usable
  PROVE  <<Claim(n, a)>> \in Seq(Traffic(budget.nodes)) /\ ToSet(<<Claim(n, a)>>) = {Claim(n, a)}
<1>1. Claim(n, a) \in Traffic(budget.nodes)
  BY MessageKinds DEF TrafficInv
<1> QED
  BY <1>1, OneMessage

\* A call of ClaimAddress.
LEMMA CallRound ==
  ASSUME TrafficInv, NEW n \in Nodes, NEW a \in AppAddresses, ClaimAddress(n, a)
  PROVE  Plays(n)
<1>1. a \in Usable
  BY BusAssumption
<1>2. node[n] = Started /\ node[n] # Off /\ node[n].addressState # "Claiming"
  BY StateFacts DEF ClaimAddress
<1>3. Moves(n, a)
  BY <1>1, <1>2, ClaimingRound DEF ClaimAddress
<1>4. Learns(n) /\ UNCHANGED <<budget, missed>>
  BY DEF Learns, ClaimAddress
<1>5. asked' = IF n = Lowest THEN a ELSE asked
  BY DEF ClaimAddress
<1> QED
  BY <1>1, <1>2, <1>3, <1>4, <1>5 DEF Plays

\* The claim timeout.
LEMMA TickRound ==
  ASSUME TrafficInv, NEW n \in Nodes, TakeClaimTick(n)
  PROVE  Plays(n)
<1> DEFINE new == [node[n] EXCEPT !.addressState = "Claimed"]
<1>1. node[n].addressState = "Claiming" /\ node[n] \in Records /\ node \in [Nodes -> Records]
  BY DEF TakeClaimTick, Ticking, TrafficInv
<1>2. node[n] # Off
  BY <1>1, StateFacts
<1>3. Round(n, FALSE, new, <<>>)
  BY DEF TakeClaimTick
<1>4. new.addressState = "Claimed"
  BY <1>1 DEF Records
<1>5. ~Restarts(node[n], new)
  <2> HIDE DEF new
  <2> QED
    BY <1>4 DEF Restarts
<1>6. /\ node' = [node EXCEPT ![n] = new]
      /\ pgnIn' = Sent([pgnIn EXCEPT ![n] = IF FALSE THEN Tail(@) ELSE @], n, <<>>)
  BY <1>3, <1>5, Zenon DEF Round
<1>7. Ticks(n)
  BY <1>1, <1>6 DEF Ticks, Passes
<1>8. Learns(n) /\ UNCHANGED <<budget, missed, asked>>
  BY DEF Learns, TakeClaimTick
<1> QED
  BY <1>2, <1>7, <1>8 DEF Plays

\* A request for the claim.
LEMMA RequestRound ==
  ASSUME TrafficInv, NEW n \in Nodes, processIsoRequest(n)
  PROVE  Plays(n)
<1>1. node[n] \in Records /\ Settled(node[n]) /\ node \in [Nodes -> Records]
  BY DEF TrafficInv
<1>2. pgnIn[n] # <<>> /\ Head(pgnIn[n]).type = "request"
  BY DEF processIsoRequest, Takes
<1>3. node[n] # Off
  BY <1>2, TakenMessage
<1>4. Learns(n) /\ UNCHANGED <<budget, missed, asked>>
  BY DEF Learns, processIsoRequest
<1>5. CASE Answers(n)
  <2>1. Round(n, TRUE, node[n], <<Claim(n, node[n].networkAddress)>>)
    BY <1>5 DEF processIsoRequest
  <2>2. UNCHANGED node /\ Passes(n, TRUE, <<Claim(n, node[n].networkAddress)>>)
    BY <1>1, <1>2, <2>1, StillRound DEF Passes
  <2>3. Defends(n)
    BY <1>5, <2>2 DEF Defends, Answers
  <2> QED
    BY <1>3, <1>4, <2>3 DEF Plays
<1>6. CASE ~Answers(n)
  <2>1. Round(n, TRUE, node[n], <<>>)
    BY <1>6 DEF processIsoRequest
  <2>2. UNCHANGED node /\ Passes(n, TRUE, <<>>)
    BY <1>1, <1>2, <2>1, StillRound DEF Passes
  <2>3. Keeps(n)
    BY <1>2, <1>6, <2>2 DEF Keeps
  <2> QED
    BY <1>3, <1>4, <2>3 DEF Plays
<1> QED
  BY <1>5, <1>6

\* Information.
LEMMA InfoRound ==
  ASSUME TrafficInv, NEW n \in Nodes, updateKnownDevice(n)
  PROVE  Plays(n)
<1>1. node[n] \in Records /\ Settled(node[n]) /\ node \in [Nodes -> Records]
  BY DEF TrafficInv
<1>2. Takes(n, "info") /\ pgnIn[n] # <<>> /\ Head(pgnIn[n]).type = "info"
  BY DEF updateKnownDevice, Takes
<1>3. node[n] # Off
  BY <1>2, TakenMessage
<1>4. Learns(n) /\ UNCHANGED <<budget, missed, asked>>
  BY <1>2 DEF Learns, updateKnownDevice
<1>5. Round(n, TRUE, node[n], <<>>)
  BY DEF updateKnownDevice
<1>6. UNCHANGED node /\ Passes(n, TRUE, <<>>)
  BY <1>1, <1>2, <1>5, StillRound DEF Passes
<1>7. Keeps(n)
  BY <1>2, <1>6 DEF Keeps
<1> QED
  BY <1>3, <1>4, <1>7 DEF Plays

\* A commanded address.
LEMMA CommandRound ==
  ASSUME TrafficInv, NEW n \in Nodes, processIsoCommandedAddress(n)
  PROVE  Plays(n)
<1> DEFINE a == Head(pgnIn[n]).new
<1>1. node[n] \in Records /\ Settled(node[n]) /\ node \in [Nodes -> Records]
  BY DEF TrafficInv
<1>2. pgnIn[n] # <<>> /\ Head(pgnIn[n]).type = "command"
  BY DEF processIsoCommandedAddress, Takes
<1>3. node[n] # Off /\ a \in Usable
  BY <1>2, TakenMessage, MessageKinds
<1>4. Learns(n) /\ UNCHANGED <<budget, missed>>
  BY DEF Learns, processIsoCommandedAddress
<1>5. CASE node[n].addressState = "Unclaimed"
  <2>1. Round(n, TRUE, node[n], <<>>) /\ UNCHANGED asked
    BY <1>5 DEF processIsoCommandedAddress
  <2>2. UNCHANGED node /\ Passes(n, TRUE, <<>>)
    BY <1>1, <1>2, <2>1, StillRound DEF Passes
  <2>3. Keeps(n)
    BY <1>2, <2>2 DEF Keeps
  <2> QED
    BY <1>3, <1>4, <2>1, <2>3 DEF Plays
<1>6. CASE node[n].addressState # "Unclaimed"
  <2>1. /\ Round(n, TRUE, [node[n] EXCEPT !.addressState = "Claiming",
                                          !.preferredAddress = a], <<>>)
        /\ asked' = IF n = Lowest THEN a ELSE asked
    BY <1>6, Zenon DEF processIsoCommandedAddress
  <2>2. \/ Moves(n, a)
        \/ /\ UNCHANGED node
           /\ Passes(n, TRUE, <<>>)
           /\ node[n].addressState = "Claiming"
           /\ node[n].networkAddress = a
    <3> HIDE DEF a
    <3> QED
      BY <1>2, <1>3, <2>1, ClaimingRound
  <2>3. CASE Moves(n, a)
    BY <1>3, <1>4, <2>1, <2>3, Zenon DEF Plays
  <2>4. CASE /\ UNCHANGED node
             /\ Passes(n, TRUE, <<>>)
             /\ node[n].addressState = "Claiming"
             /\ node[n].networkAddress = a
    <3>1. Keeps(n)
      BY <1>2, <2>4 DEF Keeps
    <3>2. UNCHANGED asked \/ (n = Lowest /\ asked' = node[n].networkAddress)
      BY <2>1, <2>4
    <3> QED
      BY <1>3, <1>4, <2>4, <3>1, <3>2, Zenon DEF Plays
  <2> QED
    BY <2>2, <2>3, <2>4
<1> QED
  BY <1>5, <1>6

\* A node that yields goes for another address than the lost one, or has somebody
\* or an unnamed record at every address.
LEMMA YieldingRound ==
  ASSUME TrafficInv, NEW n \in Nodes, Beaten(n),
         n \in Choosers => unnamed'[n] = unnamed[n] \ {Head(pgnIn[n]).src},
         Round(n, TRUE, Yielded(n, Head(pgnIn[n])), <<>>)
  PROVE  (\E a \in Usable : Moves(n, a)) \/ Loses(n)
<1> DEFINE m == Head(pgnIn[n])
           next == IF n \in Choosers
                   THEN nextAvailableAddressLocked(Heard(n, m), unnamed[n] \ {m.src}, m.src)
                   ELSE Nil
           lost == [node[n] EXCEPT !.addressState = "Lost", !.networkAddress = GlobalAddress]
<1>1. node[n] \in Records /\ Settled(node[n]) /\ node \in [Nodes -> Records]
  BY DEF TrafficInv
<1>2. pgnIn[n] # <<>> /\ m.type = "claim"
  BY DEF Beaten, Takes
<1>3. m.src \in Usable /\ m.name # Nil
  <2>1. m.src \in Usable /\ m.name \in budget.nodes /\ budget.nodes \subseteq Nodes
    BY <1>2, TakenMessage DEF TrafficInv
  <2> QED
    BY <2>1, BusAssumption
<1>4. m.src = node[n].networkAddress
  BY DEF Beaten, Contends
<1>5. Yielded(n, m) = IF next # Nil
                      THEN [node[n] EXCEPT !.addressState = "Claiming",
                                           !.preferredAddress = next]
                      ELSE lost
  BY DEF Yielded
<1>6. CASE next # Nil
  <2>1. next \in Usable \ {m.src}
    <3>1. /\ n \in Choosers
          /\ next = nextAvailableAddressLocked(Heard(n, m), unnamed[n] \ {m.src}, m.src)
      BY <1>6
    <3> HIDE DEF next, m
    <3> QED
      BY <1>3, <1>6, <3>1, NextOne
  <2>2. Round(n, TRUE, [node[n] EXCEPT !.addressState = "Claiming",
                                       !.preferredAddress = next], <<>>)
    <3>1. Yielded(n, m) = [node[n] EXCEPT !.addressState = "Claiming",
                                          !.preferredAddress = next]
      BY <1>5, <1>6
    <3> HIDE DEF next
    <3> QED
      BY <3>1
  <2> HIDE DEF next, m
  <2>3. Moves(n, next)
    BY <1>2, <1>4, <2>1, <2>2, ClaimingRound
  <2> QED
    BY <2>1, <2>3
<1>7. CASE next = Nil
  <2>1. Round(n, TRUE, lost, <<>>)
    <3>1. Yielded(n, m) = lost
      BY <1>5, <1>7
    <3> HIDE DEF lost
    <3> QED
      BY <3>1
  <2>2. lost.addressState = "Lost"
    BY <1>1 DEF Records
  <2>3. ~Restarts(node[n], lost)
    <3> HIDE DEF lost
    <3> QED
      BY <2>2 DEF Restarts
  <2>4. node' = [node EXCEPT ![n] = lost] /\ Passes(n, TRUE, <<>>)
    BY <1>2, <2>1, <2>3, Zenon DEF Round, Passes
  <2>5. ASSUME n \in Choosers
        PROVE  \A b \in Usable : Heard(n, m)[b] # Nil \/ b \in unnamed'[n]
    <3>1. nextAvailableAddressLocked(Heard(n, m), unnamed[n] \ {m.src}, m.src) = Nil
      BY <1>7, <2>5
    <3>2. \A b \in Usable \ {m.src} : Heard(n, m)[b] # Nil \/ b \in unnamed[n] \ {m.src}
      <4> HIDE DEF m
      <4> QED
        BY <1>3, <3>1, NextOne
    <3>4. unnamed'[n] = unnamed[n] \ {m.src}
      BY <2>5
    <3>3. Heard(n, m)[m.src] = m.name
      BY <1>3 DEF Heard
    <3> QED
      BY <1>3, <3>2, <3>3, <3>4
  <2>6. Loses(n)
    BY <2>4, <2>5, Zenon DEF Loses
  <2> QED
    BY <2>6
<1> QED
  BY <1>6, <1>7

\* A claim.
LEMMA ClaimRound ==
  ASSUME TrafficInv, NEW n \in Nodes, processIsoAddressClaim(n)
  PROVE  Plays(n)
<1> DEFINE m == Head(pgnIn[n])
<1>1. node[n] \in Records /\ Settled(node[n]) /\ node \in [Nodes -> Records]
  BY DEF TrafficInv
<1>2. Takes(n, "claim") /\ pgnIn[n] # <<>> /\ m.type = "claim"
  BY DEF processIsoAddressClaim, Takes
<1>3. node[n] # Off
  BY <1>2, TakenMessage
<1>4. Learns(n) /\ UNCHANGED <<budget, missed, asked>>
  BY <1>2 DEF Learns, processIsoAddressClaim
<1>5. CASE ~Contends(n, m)
  <2>1. Round(n, TRUE, node[n], <<>>)
    BY <1>5 DEF processIsoAddressClaim
  <2>2. UNCHANGED node /\ Passes(n, TRUE, <<>>)
    BY <1>1, <1>2, <2>1, StillRound DEF Passes
  <2>3. Keeps(n)
    BY <1>2, <1>5, <2>2 DEF Keeps
  <2> QED
    BY <1>3, <1>4, <2>3 DEF Plays
<1>6. CASE Contends(n, m) /\ Wins(n, m)
  <2>1. Round(n, TRUE, node[n], <<Claim(n, node[n].networkAddress)>>)
    BY <1>6 DEF processIsoAddressClaim
  <2>2. UNCHANGED node /\ Passes(n, TRUE, <<Claim(n, node[n].networkAddress)>>)
    BY <1>1, <1>2, <2>1, StillRound DEF Passes
  <2>3. Defends(n)
    BY <1>6, <2>2 DEF Defends, Contends
  <2> QED
    BY <1>3, <1>4, <2>3 DEF Plays
<1>7. CASE Contends(n, m) /\ ~Wins(n, m)
  <2>1. Beaten(n)
    BY <1>2, <1>7 DEF Beaten
  <2>2. Round(n, TRUE, Yielded(n, m), <<>>)
    BY <1>7 DEF processIsoAddressClaim
  <2>4. n \in Choosers => unnamed'[n] = unnamed[n] \ {m.src}
    BY DEF processIsoAddressClaim
  <2>3. (\E a \in Usable : Moves(n, a)) \/ Loses(n)
    BY <2>1, <2>2, <2>4, YieldingRound
  <2> QED
    BY <1>3, <1>4, <2>1, <2>3 DEF Plays
<1> QED
  BY <1>5, <1>6, <1>7

\* What the handlers, the timeout and the call of ClaimAddress come to.
LEMMA Rounds ==
  ASSUME TrafficInv, NEW n \in Nodes,
         Process(n) \/ \E a \in AppAddresses : ClaimAddress(n, a)
  PROVE  Plays(n)
BY CallRound, TickRound, RequestRound, CommandRound, ClaimRound, InfoRound DEF Process

-----------------------------------------------------------------------------
(* The types, step by step.                                                *)

\* Whatever a round comes to, it leaves the node with settled fields, and what it
\* sends is the node's own claim.
LEMMA RoundShape ==
  ASSUME TrafficInv, NEW n \in Nodes, Plays(n)
  PROVE  /\ \E r \in Records : Settled(r) /\ r # Off /\ node' = [node EXCEPT ![n] = r]
         /\ \E taken, list : /\ Passes(n, taken, list)
                             /\ list \in Seq(Traffic(budget.nodes))
                             /\ \A x \in ToSet(list) : x.name = n
<1>1. node[n] \in Records /\ Settled(node[n]) /\ node \in [Nodes -> Records] /\ node[n] # Off
  BY DEF TrafficInv, Plays
<1>2. <<>> \in Seq(Traffic(budget.nodes)) /\ \A x \in ToSet(<<>>) : x.name = n
  BY DEF ToSet
<1>3. ASSUME NEW a \in Usable
      PROVE  /\ <<Claim(n, a)>> \in Seq(Traffic(budget.nodes))
             /\ \A x \in ToSet(<<Claim(n, a)>>) : x.name = n
  BY <1>1, <1>3, SentClaim DEF Claim
<1>4. UNCHANGED node => node' = [node EXCEPT ![n] = node[n]]
  BY <1>1
<1>5. CASE Keeps(n)
  BY <1>1, <1>2, <1>4, <1>5 DEF Keeps
<1>6. CASE Ticks(n)
  <2> DEFINE r == [node[n] EXCEPT !.addressState = "Claimed"]
  <2>1. r \in Records /\ r.addressState = "Claimed"
        /\ r.networkAddress = node[n].networkAddress
        /\ r.preferredAddress = node[n].preferredAddress
    BY <1>1 DEF Records, AddressStates
  <2>2. node' = [node EXCEPT ![n] = r] /\ node[n].addressState = "Claiming"
        /\ Passes(n, FALSE, <<>>)
    BY <1>6, Zenon DEF Ticks
  <2> HIDE DEF r
  <2>3. Settled(r) /\ r # Off
    BY <1>1, <2>1, <2>2, StateFacts DEF Settled
  <2> QED
    BY <1>2, <2>1, <2>2, <2>3
<1>7. CASE Defends(n)
  <2>1. node[n].networkAddress \in Usable
    BY <1>1, <1>7 DEF Defends, Settled
  <2> QED
    BY <1>1, <1>3, <1>4, <1>7, <2>1 DEF Defends
<1>8. ASSUME NEW a \in Usable, Moves(n, a)
      PROVE  /\ \E r \in Records : Settled(r) /\ r # Off /\ node' = [node EXCEPT ![n] = r]
             /\ \E taken, list : /\ Passes(n, taken, list)
                                 /\ list \in Seq(Traffic(budget.nodes))
                                 /\ \A x \in ToSet(list) : x.name = n
  <2> DEFINE r == [addressState |-> "Claiming", networkAddress |-> a, preferredAddress |-> a]
  <2>1. r \in Records /\ r.addressState = "Claiming" /\ Settled(r)
    BY <1>8 DEF Records, AddressStates, Settled
  <2>2. node' = [node EXCEPT ![n] = r] /\ \E taken : Passes(n, taken, <<Claim(n, a)>>)
    BY <1>8, Zenon DEF Moves
  <2> HIDE DEF r
  <2>3. r # Off
    BY <2>1, StateFacts
  <2> QED
    BY <1>3, <1>8, <2>1, <2>2, <2>3
<1>9. CASE Loses(n)
  <2> DEFINE r == [node[n] EXCEPT !.addressState = "Lost", !.networkAddress = GlobalAddress]
  <2>1. r \in Records /\ r.addressState = "Lost" /\ r.networkAddress = GlobalAddress
    BY <1>1 DEF Records, AddressStates
  <2>2. node' = [node EXCEPT ![n] = r] /\ \E taken : Passes(n, taken, <<>>)
    BY <1>9, Zenon DEF Loses
  <2> HIDE DEF r
  <2>3. Settled(r) /\ r # Off
    BY <2>1, StateFacts DEF Settled
  <2> QED
    BY <1>2, <2>1, <2>2, <2>3
<1> QED
  BY <1>5, <1>6, <1>7, <1>8, <1>9 DEF Plays

\* updateKnownDeviceFromClaim keeps the index one of nodes that take part and removes
\* the record of the claimed address; information makes none where somebody is.
LEMMA LearnedIndex ==
  ASSUME TrafficInv, NEW n \in Nodes, Learns(n)
  PROVE  Known(heard', unnamed', budget.nodes)
<1>0. Known(heard, unnamed, budget.nodes)
  BY DEF TrafficInv
<1>1. /\ heard \in [Choosers -> [Usable -> budget.nodes \cup {Nil}]]
      /\ unnamed \in [Choosers -> SUBSET Usable]
      /\ \A c \in Choosers : \A a \in unnamed[c] : heard[c][a] = Nil
  BY <1>0 DEF Known
<1>2. CASE UNCHANGED <<heard, unnamed>>
  BY <1>0, <1>2
<1> DEFINE m == Head(pgnIn[n])
<1>3. CASE /\ Takes(n, "claim")
           /\ heard' = [c \in Choosers |-> IF c = n THEN Heard(n, m) ELSE heard[c]]
           /\ unnamed' = [c \in Choosers |-> IF c = n THEN unnamed[c] \ {m.src} ELSE unnamed[c]]
  <2>1. m.name \in budget.nodes
    BY <1>3, TakenMessage DEF Takes
  <2> HIDE DEF m
  <2>2. n \in Choosers => Heard(n, m) \in [Usable -> budget.nodes \cup {Nil}]
    BY <1>1, <2>1 DEF Heard
  <2>3. heard' \in [Choosers -> [Usable -> budget.nodes \cup {Nil}]]
    BY <1>1, <1>3, <2>2
  <2>4. unnamed' \in [Choosers -> SUBSET Usable]
    BY <1>1, <1>3
  <2>5. \A c \in Choosers : \A a \in unnamed'[c] : heard'[c][a] = Nil
    BY <1>1, <1>3 DEF Heard
  <2> QED
    BY <2>3, <2>4, <2>5 DEF Known
<1>4. CASE /\ Takes(n, "info")
           /\ UNCHANGED heard
           /\ unnamed' = [c \in Choosers |-> IF c = n /\ heard[c][m.src] = Nil
                                             THEN unnamed[c] \cup {m.src} ELSE unnamed[c]]
  <2>1. m.src \in Usable
    BY <1>4, TakenMessage, MessageKinds DEF Takes
  <2> HIDE DEF m
  <2> QED
    BY <1>1, <1>4, <2>1 DEF Known
<1> QED
  BY <1>2, <1>3, <1>4 DEF Learns

\* A bound is used up one by one.
LEMMA SpentBudget ==
  ASSUME budget \in [nodes : (SUBSET Nodes) \ {{}}, fault : Nat, order : Nat]
  PROVE  \A kind \in {"fault", "order"} : Spend(kind) =>
           /\ budget' \in [nodes : (SUBSET Nodes) \ {{}}, fault : Nat, order : Nat]
           /\ budget'.nodes = budget.nodes
<1>1. Spend("fault") => /\ budget' = [budget EXCEPT !["fault"] = @ - 1]
                        /\ budget.fault > 0
  BY DEF Spend
<1>2. Spend("order") => /\ budget' = [budget EXCEPT !["order"] = @ - 1]
                        /\ budget.order > 0
  BY DEF Spend
<1>3. budget.fault \in Nat /\ budget.order \in Nat
  OBVIOUS
<1>4. Spend("fault") => budget' \in [nodes : (SUBSET Nodes) \ {{}}, fault : Nat, order : Nat]
                        /\ budget'.nodes = budget.nodes
  BY <1>1, <1>3
<1>5. Spend("order") => budget' \in [nodes : (SUBSET Nodes) \ {{}}, fault : Nat, order : Nat]
                        /\ budget'.nodes = budget.nodes
  BY <1>2, <1>3
<1> QED
  BY <1>4, <1>5

\* The types of the nodes are kept by every step.
LEMMA TrafficStep ==
  ASSUME TrafficInv, [Next]_vars
  PROVE  TrafficInv'
<1> DEFINE T == Traffic(budget.nodes)
           R == [nodes : (SUBSET Nodes) \ {{}}, fault : Nat, order : Nat]
           Fine(q, m) == \A x \in ToSet(q) : x.type = "claim" => x.name # m
           Knowing(h, u) == Known(h, u, budget.nodes)
<1>1. /\ budget \in R
      /\ node \in [Nodes -> Records]
      /\ pgnIn \in [Nodes -> Seq(T)]
      /\ Knowing(heard, unnamed)
      /\ \A n \in Nodes : /\ Settled(node[n])
                          /\ node[n] # Off => n \in budget.nodes
                          /\ node[n] = Off => pgnIn[n] = <<>>
                          /\ Fine(pgnIn[n], n)
  BY DEF TrafficInv
<1>2. ASSUME /\ budget' \in R /\ budget'.nodes = budget.nodes
             /\ node' \in [Nodes -> Records]
             /\ pgnIn' \in [Nodes -> Seq(T)]
             /\ Knowing(heard', unnamed'),
             \A n \in Nodes : /\ Settled(node'[n])
                              /\ node'[n] # Off => n \in budget.nodes
                              /\ node'[n] = Off => pgnIn'[n] = <<>>
                              /\ Fine(pgnIn'[n], n)
      PROVE  TrafficInv'
  BY <1>2 DEF TrafficInv, Traffic, Settled, Known
<1>3. /\ Spend("fault") => budget' \in R /\ budget'.nodes = budget.nodes
      /\ Spend("order") => budget' \in R /\ budget'.nodes = budget.nodes
  BY <1>1, SpentBudget
<1>4. Fine(<<>>, <<>>) /\ \A m : Fine(<<>>, m)
  BY DEF ToSet
<1> HIDE DEF T, R, Fine, Knowing
<1>5. CASE UNCHANGED vars
  <2>1. UNCHANGED <<node, pgnIn, heard, unnamed, budget>>
    BY <1>5 DEF vars
  <2> QED
    BY <1>1, <1>2, <2>1
<1>6. ASSUME NEW n \in Nodes, Boot(n) PROVE TrafficInv'
  <2>1. /\ node[n] = Off /\ n \in budget.nodes
        /\ node' = [node EXCEPT ![n] = Started]
        /\ UNCHANGED <<pgnIn, heard, unnamed, budget>>
    BY <1>6 DEF Boot
  <2>2. node' \in [Nodes -> Records] /\ node'[n] = Started
        /\ \A m \in Nodes \ {n} : node'[m] = node[m]
    BY <1>1, <2>1, StateFacts
  <2>3. \A m \in Nodes : /\ Settled(node'[m])
                         /\ node'[m] # Off => m \in budget.nodes
                         /\ node'[m] = Off => pgnIn'[m] = <<>>
                         /\ Fine(pgnIn'[m], m)
    BY <1>1, <2>1, <2>2, StateFacts
  <2> QED
    BY <1>1, <1>2, <2>1, <2>2, <2>3
<1>7. ASSUME NEW n \in Nodes, PowerOff(n) PROVE TrafficInv'
  <2>1. /\ node' = [node EXCEPT ![n] = Off]
        /\ pgnIn' = [pgnIn EXCEPT ![n] = <<>>]
        /\ heard' = [m \in Choosers |-> IF m = n THEN Silence ELSE heard[m]]
        /\ unnamed' = [m \in Choosers |-> IF m = n THEN {} ELSE unnamed[m]]
        /\ Spend("fault")
    BY <1>7 DEF PowerOff
  <2>2. node' \in [Nodes -> Records] /\ node'[n] = Off
        /\ \A m \in Nodes \ {n} : node'[m] = node[m]
    BY <1>1, <2>1, StateFacts
  <2>3. pgnIn' \in [Nodes -> Seq(T)] /\ pgnIn'[n] = <<>>
        /\ \A m \in Nodes \ {n} : pgnIn'[m] = pgnIn[m]
    BY <1>1, <2>1
  <2>4. Knowing(heard', unnamed')
    <3>1. /\ heard \in [Choosers -> [Usable -> budget.nodes \cup {Nil}]]
          /\ unnamed \in [Choosers -> SUBSET Usable]
          /\ \A c \in Choosers : \A a \in unnamed[c] : heard[c][a] = Nil
      BY <1>1 DEF Knowing, Known
    <3>2. /\ heard' \in [Choosers -> [Usable -> budget.nodes \cup {Nil}]]
          /\ unnamed' \in [Choosers -> SUBSET Usable]
      BY <2>1, <3>1 DEF Silence
    <3>3. \A c \in Choosers : \A a \in unnamed'[c] : heard'[c][a] = Nil
      BY <2>1, <3>1
    <3> QED
      BY <3>2, <3>3 DEF Knowing, Known
  <2>5. \A m \in Nodes : /\ Settled(node'[m])
                         /\ node'[m] # Off => m \in budget.nodes
                         /\ node'[m] = Off => pgnIn'[m] = <<>>
                         /\ Fine(pgnIn'[m], m)
    BY <1>1, <1>4, <2>2, <2>3, StateFacts
  <2> QED
    BY <1>2, <1>3, <2>1, <2>2, <2>3, <2>4, <2>5
<1>8. ASSUME NEW n \in Nodes, Miss(n) PROVE TrafficInv'
  <2>1. /\ pgnIn[n] # <<>>
        /\ pgnIn' = [pgnIn EXCEPT ![n] = Front(@)]
        /\ Spend("fault")
        /\ UNCHANGED <<node, heard, unnamed>>
    BY <1>8 DEF Miss
  <2>2. Front(pgnIn[n]) \in Seq(T) /\ ToSet(Front(pgnIn[n])) \subseteq ToSet(pgnIn[n])
    BY <1>1, <2>1, FrontContents
  <2>3. pgnIn' \in [Nodes -> Seq(T)] /\ pgnIn'[n] = Front(pgnIn[n])
        /\ \A m \in Nodes \ {n} : pgnIn'[m] = pgnIn[m]
    BY <1>1, <2>1, <2>2
  <2>4. Fine(Front(pgnIn[n]), n)
    BY <1>1, <2>2 DEF Fine
  <2>5. \A m \in Nodes : /\ Settled(node'[m])
                         /\ node'[m] # Off => m \in budget.nodes
                         /\ node'[m] = Off => pgnIn'[m] = <<>>
                         /\ Fine(pgnIn'[m], m)
    BY <1>1, <2>1, <2>3, <2>4
  <2> QED
    BY <1>1, <1>2, <1>3, <2>1, <2>3, <2>5
<1>9. ASSUME NEW n \in Nodes, NEW a \in CommandAddresses, CommandAddress(n, a)
      PROVE  TrafficInv'
  <2>1. /\ node[n] # Off
        /\ pgnIn' = [pgnIn EXCEPT ![n] = Append(@, Command(a))]
        /\ Spend("order")
        /\ UNCHANGED <<node, heard, unnamed>>
    BY <1>9 DEF CommandAddress, On
  <2>2. Command(a) \in T /\ Command(a).type # "claim"
    BY BusAssumption, MessageKinds DEF T
  <2>3. Append(pgnIn[n], Command(a)) = pgnIn[n] \o <<Command(a)>>
    BY <1>1, <2>2, AppendIsConcat
  <2>4. /\ pgnIn[n] \o <<Command(a)>> \in Seq(T)
        /\ ToSet(pgnIn[n] \o <<Command(a)>>) = ToSet(pgnIn[n]) \cup {Command(a)}
    BY <1>1, <2>2, OneMore
  <2>5. pgnIn' \in [Nodes -> Seq(T)] /\ pgnIn'[n] = pgnIn[n] \o <<Command(a)>>
        /\ \A m \in Nodes \ {n} : pgnIn'[m] = pgnIn[m]
    BY <1>1, <2>1, <2>3, <2>4
  <2>6. Fine(pgnIn[n] \o <<Command(a)>>, n)
    BY <1>1, <2>2, <2>4 DEF Fine
  <2>7. \A m \in Nodes : /\ Settled(node'[m])
                         /\ node'[m] # Off => m \in budget.nodes
                         /\ node'[m] = Off => pgnIn'[m] = <<>>
                         /\ Fine(pgnIn'[m], m)
    BY <1>1, <2>1, <2>5, <2>6
  <2> QED
    BY <1>1, <1>2, <1>3, <2>1, <2>5, <2>7
<1>10. ASSUME NEW x \in T, x.type # "claim", pgnIn' = Sent(pgnIn, Nil, <<x>>),
              Spend("order"), UNCHANGED <<node, heard, unnamed>>
       PROVE  TrafficInv'
  <2>1. Spend("order") /\ UNCHANGED <<node, heard, unnamed>>
    BY <1>10
  <2>2. /\ pgnIn' \in [Nodes -> Seq(T)]
        /\ \A m \in Nodes : /\ m \in On => ToSet(pgnIn'[m]) = ToSet(pgnIn[m]) \cup {x}
                            /\ m \notin On => pgnIn'[m] = pgnIn[m]
    BY <1>10, AskedContents DEF T
  <2>3. \A m \in Nodes : m \in On <=> node[m] # Off
    BY DEF On
  <2>5. \A m \in Nodes : /\ Settled(node'[m])
                         /\ node'[m] # Off => m \in budget.nodes
                         /\ node'[m] = Off => pgnIn'[m] = <<>>
    BY <1>1, <2>1, <2>2, <2>3
  <2>6. \A m \in Nodes : Fine(pgnIn'[m], m)
    BY <1>1, <1>10, <2>2 DEF Fine
  <2> QED
    BY <1>1, <1>2, <1>3, <2>1, <2>2, <2>5, <2>6
<1>12. ASSUME AskClaims PROVE TrafficInv'
  <2>1. Request \in T /\ Request.type # "claim"
    BY MessageKinds DEF T
  <2> QED
    BY <1>10, <1>12, <2>1 DEF AskClaims
<1>13. ASSUME NEW a \in InfoAddresses, Inform(a) PROVE TrafficInv'
  <2>1. Info(a) \in T /\ Info(a).type # "claim"
    BY BusAssumption, MessageKinds DEF T
  <2> QED
    BY <1>10, <1>13, <2>1 DEF Inform
<1>11. ASSUME NEW n \in Nodes, Plays(n) PROVE TrafficInv'
  <2>1. PICK r \in Records : Settled(r) /\ r # Off /\ node' = [node EXCEPT ![n] = r]
    BY <1>11, RoundShape
  <2>2. PICK taken, list : /\ Passes(n, taken, list)
                           /\ list \in Seq(T)
                           /\ \A x \in ToSet(list) : x.name = n
    BY <1>11, RoundShape DEF T
  <2>3. node[n] # Off /\ UNCHANGED budget /\ Knowing(heard', unnamed')
    BY <1>11, LearnedIndex DEF Plays, Knowing
  <2>4. node' \in [Nodes -> Records] /\ node'[n] = r
        /\ \A m \in Nodes \ {n} : node'[m] = node[m]
    BY <1>1, <2>1
  <2>5. /\ pgnIn' \in [Nodes -> Seq(T)]
        /\ \A m \in Nodes : /\ ToSet(pgnIn'[m]) \subseteq ToSet(pgnIn[m]) \cup ToSet(list)
                            /\ m = n => ToSet(pgnIn'[m]) \subseteq ToSet(pgnIn[m])
                            /\ m # n /\ m \notin On => pgnIn'[m] = pgnIn[m]
    BY <2>2, PassedContents DEF T
  <2>6. \A m \in Nodes : m \in On <=> node[m] # Off
    BY DEF On
  <2>7. \A m \in Nodes : Fine(pgnIn'[m], m)
    BY <1>1, <2>2, <2>5 DEF Fine
  <2>8. \A m \in Nodes : /\ Settled(node'[m])
                         /\ node'[m] # Off => m \in budget.nodes
                         /\ node'[m] = Off => pgnIn'[m] = <<>>
    BY <1>1, <2>1, <2>3, <2>4, <2>5, <2>6
  <2> QED
    BY <1>1, <1>2, <2>3, <2>4, <2>5, <2>7, <2>8
<1> QED
  BY <1>5, <1>6, <1>7, <1>8, <1>9, <1>11, <1>12, <1>13, Rounds
  DEF Next, Environment

\* NewNode: nobody has power, and nothing is under way.
LEMMA TrafficStart == Init => TrafficInv
<1> SUFFICES ASSUME Init PROVE TrafficInv
  OBVIOUS
<1>1. budget \in [nodes : (SUBSET Nodes) \ {{}}, fault : Nat, order : Nat]
  BY BusAssumption DEF Init
<1>2. node \in [Nodes -> Records] /\ \A n \in Nodes : node[n] = Off
  BY StateFacts DEF Init
<1>3. pgnIn \in [Nodes -> Seq(Traffic(budget.nodes))] /\ \A n \in Nodes : pgnIn[n] = <<>>
  BY DEF Init
<1>4. Known(heard, unnamed, budget.nodes)
  BY DEF Init, Silence, Known
<1>5. ToSet(<<>>) = {}
  BY DEF ToSet
<1> QED
  BY <1>1, <1>2, <1>3, <1>4, <1>5, StateFacts DEF TrafficInv

\* The fields of the nodes, their queues and their indexes keep their types, whatever
\* the bus carries.
THEOREM TrafficHolds == Spec => []TrafficInv
BY TrafficStart, TrafficStep, PTL DEF Spec

-----------------------------------------------------------------------------
(* Two nodes at one address.                                               *)

Holds(n, a) == /\ node[n].addressState \in {"Claiming", "Claimed"}
               /\ node[n].networkAddress = a

\* Node m is going to learn that node n is at address a: it has n's claim to take,
\* or n has a request to answer.
Due(n, m, a) ==
  \/ Claim(n, a) \in ToSet(pgnIn[m])
  \/ node[n].addressState = "Claimed" /\ Request \in ToSet(pgnIn[n])

\* Of two nodes at one address, one is going to learn of the other.
Pair(n, m, a) == Holds(n, a) /\ Holds(m, a) => Due(n, m, a) \/ Due(m, n, a)

DistinctInv == ~missed => \A n, m \in Nodes : n # m => \A a \in Usable : Pair(n, m, a)

\* The rounds of one node of a pair: what it takes from its queue it answers, or it
\* moves, or the message was none of the other's claim to the address.
LEMMA OwnRound ==
  ASSUME TrafficInv, NEW n \in Nodes, NEW m \in Nodes, n # m, NEW a \in Usable,
         Plays(n), Pair(n, m, a)
  PROVE  Pair(n, m, a)'
<1> SUFFICES ASSUME Holds(n, a)', Holds(m, a)'
             PROVE  Due(n, m, a)' \/ Due(m, n, a)'
  BY DEF Pair
<1>0. node \in [Nodes -> Records] /\ node[n] \in Records /\ pgnIn[n] \in Seq(Traffic(budget.nodes))
  BY DEF TrafficInv
<1>1. PICK r \in Records : node' = [node EXCEPT ![n] = r]
  BY RoundShape
<1>2. node'[m] = node[m] /\ Holds(m, a)
  BY <1>0, <1>1 DEF Holds
<1>3. m \in On
  <2>1. node[m].addressState # "Off"
    BY <1>2 DEF Holds
  <2> QED
    BY <2>1, StateFacts DEF On
<1>4. ASSUME NEW taken, NEW list \in Seq(Traffic(budget.nodes)), Passes(n, taken, list)
      PROVE  /\ ToSet(pgnIn'[m]) = ToSet(pgnIn[m]) \cup ToSet(list)
             /\ pgnIn'[n] = IF taken THEN Tail(pgnIn[n]) ELSE pgnIn[n]
             /\ taken \in BOOLEAN
             /\ taken => pgnIn[n] # <<>>
  <2>1. taken \in BOOLEAN /\ (taken => pgnIn[n] # <<>>)
    BY <1>4 DEF Passes
  <2>2. /\ pgnIn'[n] = IF taken THEN Tail(pgnIn[n]) ELSE pgnIn[n]
        /\ \A p \in Nodes \ {n} :
             p \in On => ToSet(pgnIn'[p]) = ToSet(pgnIn[p]) \cup ToSet(list)
    BY <1>4, PassedContents
  <2> QED
    BY <1>3, <2>1, <2>2
<1>5. <<>> \in Seq(Traffic(budget.nodes))
  OBVIOUS
<1>6. ASSUME NEW taken, Passes(n, taken, <<Claim(n, a)>>)
      PROVE  Due(n, m, a)'
  <2>1. <<Claim(n, a)>> \in Seq(Traffic(budget.nodes)) /\ ToSet(<<Claim(n, a)>>) = {Claim(n, a)}
    BY SentClaim DEF Plays
  <2>2. Claim(n, a) \in ToSet(pgnIn'[m])
    BY <1>4, <1>6, <2>1
  <2> QED
    BY <2>2 DEF Due, Claim
<1>7. CASE Keeps(n)
  <2>1. UNCHANGED node /\ Holds(n, a)
    BY <1>7 DEF Keeps, Holds
  <2>2. PICK taken :
          /\ Passes(n, taken, <<>>)
          /\ taken => /\ Head(pgnIn[n]).type = "claim" => ~Contends(n, Head(pgnIn[n]))
                      /\ Head(pgnIn[n]).type = "request" => ~Answers(n)
    BY <1>7 DEF Keeps
  <2>3. /\ ToSet(pgnIn[m]) \subseteq ToSet(pgnIn'[m])
        /\ pgnIn'[n] = IF taken THEN Tail(pgnIn[n]) ELSE pgnIn[n]
        /\ taken \in BOOLEAN
        /\ taken => pgnIn[n] # <<>>
    <3> DEFINE none == <<>>
    <3>1. Passes(n, taken, none) /\ none \in Seq(Traffic(budget.nodes))
      BY <1>5, <2>2
    <3> HIDE DEF none
    <3> QED
      BY <1>4, <3>1
  <2>4. ASSUME NEW x \in ToSet(pgnIn[n]), taken => x # Head(pgnIn[n])
        PROVE  x \in ToSet(pgnIn'[n])
    BY <1>0, <2>3, <2>4, QueueContents
  <2>5. CASE Due(n, m, a)
    <3>1. CASE Claim(n, a) \in ToSet(pgnIn[m])
      BY <2>3, <3>1 DEF Due, Claim
    <3>2. CASE node[n].addressState = "Claimed" /\ Request \in ToSet(pgnIn[n])
      <4>1. taken => Request # Head(pgnIn[n])
        BY <2>2, <3>2, MessageKinds DEF Answers
      <4>2. Request \in ToSet(pgnIn'[n])
        BY <2>4, <3>2, <4>1
      <4> QED
        BY <2>1, <3>2, <4>2 DEF Due, Request
    <3> QED
      BY <2>5, <3>1, <3>2 DEF Due
  <2>6. CASE Due(m, n, a)
    <3>1. CASE Claim(m, a) \in ToSet(pgnIn[n])
      <4>1. Claim(m, a).type = "claim" /\ Claim(m, a).src = a
        BY DEF Claim
      <4>2. taken => Claim(m, a) # Head(pgnIn[n])
        BY <2>1, <2>2, <4>1 DEF Contends, Holds
      <4>3. Claim(m, a) \in ToSet(pgnIn'[n])
        BY <2>4, <3>1, <4>2
      <4> QED
        BY <4>3 DEF Due, Claim
    <3>2. CASE node[m].addressState = "Claimed" /\ Request \in ToSet(pgnIn[m])
      BY <1>2, <2>3, <3>2 DEF Due, Request
    <3> QED
      BY <2>6, <3>1, <3>2 DEF Due
  <2> QED
    BY <1>2, <2>1, <2>5, <2>6 DEF Pair
<1>8. CASE Ticks(n)
  <2>1. /\ node[n].addressState = "Claiming"
        /\ node' = [node EXCEPT ![n] = [@ EXCEPT !.addressState = "Claimed"]]
        /\ Passes(n, FALSE, <<>>)
    BY <1>8, Zenon DEF Ticks
  <2>2. /\ ToSet(pgnIn[m]) \subseteq ToSet(pgnIn'[m])
        /\ pgnIn'[n] = pgnIn[n]
    BY <1>4, <1>5, <2>1
  <2>3. node'[n].networkAddress = node[n].networkAddress
    BY <1>0, <2>1 DEF Records
  <2>4. Holds(n, a)
    BY <2>1, <2>3 DEF Holds
  <2>5. Due(n, m, a) \/ Due(m, n, a)
    BY <1>2, <2>4 DEF Pair
  <2> QED
    BY <1>2, <2>1, <2>2, <2>5 DEF Due, Request, Claim
<1>9. CASE Defends(n)
  <2>1. node'[n] = node[n]
    BY <1>9 DEF Defends
  <2>2. node[n].networkAddress = a
    BY <2>1 DEF Holds
  <2> QED
    BY <1>6, <1>9, <2>2 DEF Defends
<1>10. ASSUME NEW b \in Usable, Moves(n, b) PROVE Due(n, m, a)'
  <2>1. node' = [node EXCEPT ![n] = [addressState |-> "Claiming", networkAddress |-> b,
                                     preferredAddress |-> b]]
    BY <1>10, Zenon DEF Moves
  <2>2. a = b
    BY <1>0, <2>1 DEF Holds
  <2> QED
    BY <1>6, <1>10, <2>2 DEF Moves
<1>11. CASE Loses(n)
  <2>1. node' = [node EXCEPT ![n] = [@ EXCEPT !.addressState = "Lost",
                                              !.networkAddress = GlobalAddress]]
    BY <1>11, Zenon DEF Loses
  <2>2. node'[n].addressState = "Lost"
    BY <1>0, <2>1 DEF Records
  <2> QED
    BY <2>2 DEF Holds
<1> QED
  BY <1>7, <1>8, <1>9, <1>10, <1>11 DEF Plays

\* A round of a third node changes nothing for a pair.
LEMMA OtherRound ==
  ASSUME TrafficInv, NEW k \in Nodes, NEW n \in Nodes, NEW m \in Nodes, k # n, k # m,
         NEW a \in Usable, Plays(k), Pair(n, m, a)
  PROVE  Pair(n, m, a)'
<1> SUFFICES ASSUME Holds(n, a)', Holds(m, a)'
             PROVE  Due(n, m, a)' \/ Due(m, n, a)'
  BY DEF Pair
<1>1. PICK r \in Records : node' = [node EXCEPT ![k] = r]
  BY RoundShape
<1>2. node'[n] = node[n] /\ node'[m] = node[m]
  BY <1>1 DEF TrafficInv
<1>3. PICK taken, list : Passes(k, taken, list) /\ list \in Seq(Traffic(budget.nodes))
  BY RoundShape
<1>4. ASSUME NEW p \in Nodes, p # k, node[p].addressState # "Off"
      PROVE  ToSet(pgnIn[p]) \subseteq ToSet(pgnIn'[p])
  <2>1. p \in On
    BY <1>4, StateFacts DEF On
  <2>2. \A q \in Nodes \ {k} :
          q \in On => ToSet(pgnIn'[q]) = ToSet(pgnIn[q]) \cup ToSet(list)
    BY <1>3, PassedContents
  <2> QED
    BY <1>4, <2>1, <2>2
<1>5. Holds(n, a) /\ Holds(m, a)
  BY <1>2 DEF Holds
<1>6. ToSet(pgnIn[n]) \subseteq ToSet(pgnIn'[n]) /\ ToSet(pgnIn[m]) \subseteq ToSet(pgnIn'[m])
  BY <1>4, <1>5 DEF Holds
<1>7. Due(n, m, a) \/ Due(m, n, a)
  BY <1>5 DEF Pair
<1> QED
  BY <1>2, <1>6, <1>7 DEF Due, Request, Claim

\* Pairs come from rounds that are heard, a message missed is counted, and a request
\* on an idle bus reaches every node that holds an address.
LEMMA DistinctStep ==
  ASSUME TrafficInv, DistinctInv, [Next]_vars
  PROVE  DistinctInv'
<1> SUFFICES ASSUME ~missed', NEW n \in Nodes, NEW m \in Nodes, n # m, NEW a \in Usable
             PROVE  Pair(n, m, a)'
  BY Zenon DEF DistinctInv
<1>0. /\ node \in [Nodes -> Records]
      /\ \A p \in Nodes : pgnIn[p] \in Seq(Traffic(budget.nodes))
      /\ pgnIn \in [Nodes -> Seq(Traffic(budget.nodes))]
  BY DEF TrafficInv
<1>1. ~missed => Pair(n, m, a) /\ Pair(m, n, a)
  BY Zenon DEF DistinctInv
<1>2. Pair(m, n, a)' => Pair(n, m, a)'
  BY DEF Pair
\* A step that takes nothing from the queues of nodes that keep their fields.
<1>3. ASSUME ~missed,
             \A p \in {n, m} : \/ node'[p].addressState \notin {"Claiming", "Claimed"}
                               \/ /\ node'[p] = node[p]
                                  /\ ToSet(pgnIn[p]) \subseteq ToSet(pgnIn'[p])
      PROVE  Pair(n, m, a)'
  BY <1>1, <1>3 DEF Pair, Due, Holds, Request, Claim
<1>4. CASE UNCHANGED vars
  <2>1. UNCHANGED <<node, pgnIn, missed>>
    BY <1>4 DEF vars
  <2>2. ~missed
    BY <2>1, Zenon
  <2> QED
    BY <1>3, <2>1, <2>2
<1>5. ASSUME NEW k \in Nodes, Boot(k) PROVE Pair(n, m, a)'
  <2>1. node' = [node EXCEPT ![k] = Started] /\ UNCHANGED pgnIn
    BY <1>5 DEF Boot
  <2>2. ~missed
    BY <1>5, Zenon DEF Boot
  <2> QED
    BY <1>0, <1>3, <2>1, <2>2, StateFacts
<1>6. ASSUME NEW k \in Nodes, PowerOff(k) PROVE Pair(n, m, a)'
  <2>1. node' = [node EXCEPT ![k] = Off] /\ pgnIn' = [pgnIn EXCEPT ![k] = <<>>]
    BY <1>6 DEF PowerOff
  <2>2. ~missed
    BY <1>6, Zenon DEF PowerOff
  <2>3. \A p \in {n, m} : p # k => node'[p] = node[p] /\ pgnIn'[p] = pgnIn[p]
    BY <1>0, <2>1
  <2>4. node'[k].addressState = "Off"
    BY <1>0, <2>1, StateFacts
  <2> QED
    BY <1>3, <2>2, <2>3, <2>4
<1>7. ASSUME NEW k \in Nodes, Miss(k) PROVE Pair(n, m, a)'
  BY <1>7, Zenon DEF Miss
<1>8. ASSUME NEW k \in Nodes, NEW b \in CommandAddresses, CommandAddress(k, b)
      PROVE  Pair(n, m, a)'
  <2>1. UNCHANGED node /\ pgnIn' = [pgnIn EXCEPT ![k] = Append(@, Command(b))]
    BY <1>8 DEF CommandAddress
  <2>2. ~missed
    BY <1>8, Zenon DEF CommandAddress
  <2>3. Command(b) \in Traffic(budget.nodes)
    BY BusAssumption, MessageKinds
  <2>4. Append(pgnIn[k], Command(b)) = pgnIn[k] \o <<Command(b)>>
    BY <1>0, <2>3, AppendIsConcat
  <2>5. ToSet(pgnIn[k] \o <<Command(b)>>) = ToSet(pgnIn[k]) \cup {Command(b)}
    BY <1>0, <2>3, OneMore
  <2>6. \A p \in {n, m} : ToSet(pgnIn[p]) \subseteq ToSet(pgnIn'[p])
    BY <1>0, <2>1, <2>4, <2>5
  <2> QED
    BY <1>3, <2>1, <2>2, <2>6
<1>9. CASE AskClaims
  <2>1. UNCHANGED node /\ missed' = (missed /\ ~Idle)
    BY <1>9 DEF AskClaims
  <2>2. \A p \in Nodes : p \in On => ToSet(pgnIn'[p]) = ToSet(pgnIn[p]) \cup {Request}
    BY <1>9, AskedContents, MessageKinds DEF AskClaims
  <2>3. \A p \in Nodes : node[p].addressState \in {"Claiming", "Claimed"} => p \in On
    BY StateFacts DEF On
  <2>4. CASE ~missed
    BY <1>3, <2>1, <2>2, <2>3, <2>4
  <2>5. CASE Idle
    <3>1. node[n].addressState # "Claiming"
      BY <2>5 DEF Idle
    <3> QED
      BY <2>1, <2>2, <2>3, <3>1 DEF Pair, Due, Holds, Request
  <2>6. missed' <=> missed /\ ~Idle
    BY <2>1, Zenon
  <2> QED
    BY <2>4, <2>5, <2>6, Zenon
<1>11. ASSUME NEW b \in InfoAddresses, Inform(b) PROVE Pair(n, m, a)'
  <2>1. UNCHANGED node /\ pgnIn' = Sent(pgnIn, Nil, <<Info(b)>>)
    BY <1>11 DEF Inform
  <2>2. ~missed
    BY <1>11, Zenon DEF Inform
  <2>3. Info(b) \in Traffic(budget.nodes)
    BY BusAssumption, MessageKinds
  <2>4. \A p \in Nodes : ToSet(pgnIn[p]) \subseteq ToSet(pgnIn'[p])
    BY <2>1, <2>3, AskedContents
  <2> QED
    BY <1>3, <2>1, <2>2, <2>4
<1>10. ASSUME NEW k \in Nodes, Plays(k) PROVE Pair(n, m, a)'
  <2>1. ~missed
    BY <1>10, Zenon DEF Plays
  <2> QED
    BY <1>1, <1>2, <1>10, <2>1, OwnRound, OtherRound
<1> QED
  BY <1>4, <1>5, <1>6, <1>7, <1>8, <1>9, <1>10, <1>11, Rounds DEF Next, Environment

\* The queues are all empty: nobody is due, so nobody shares an address.
LEMMA QuietPairs ==
  ASSUME TrafficInv, DistinctInv
  PROVE  QuietMeansDistinct
<1>1. BusTypeOK
  <2> SUFFICES ASSUME NEW n \in Nodes
               PROVE /\ node[n] \in Records
                     /\ n \in Choosers =>
                          /\ heard[n] \in [Usable -> Nodes \cup {Nil}]
                          /\ unnamed[n] \subseteq {a \in Usable : heard[n][a] = Nil}
                     /\ node[n].addressState = "Claimed" => node[n].networkAddress \in Usable
                     /\ node[n].addressState \in {"Unclaimed", "Lost"} =>
                          node[n].networkAddress = GlobalAddress
                     /\ node[n] = Off => pgnIn[n] = <<>>
    BY Zenon DEF BusTypeOK, Records
  <2>1. /\ budget.nodes \subseteq Nodes
        /\ Known(heard, unnamed, budget.nodes)
        /\ node[n] \in Records /\ Settled(node[n])
        /\ node[n] = Off => pgnIn[n] = <<>>
    BY DEF TrafficInv
  <2>2. n \in Choosers => /\ heard[n] \in [Usable -> Nodes \cup {Nil}]
                          /\ unnamed[n] \subseteq {a \in Usable : heard[n][a] = Nil}
    BY <2>1 DEF Known
  <2> QED
    BY <2>1, <2>2 DEF Settled
<1>2. ASSUME Quiet, ~missed, NEW n \in Nodes, NEW m \in Nodes, n # m,
             node[n].addressState = "Claimed", node[m].addressState = "Claimed"
      PROVE  node[n].networkAddress # node[m].networkAddress
  <2> SUFFICES ASSUME node[n].networkAddress = node[m].networkAddress
               PROVE  FALSE
    OBVIOUS
  <2> DEFINE a == node[n].networkAddress
  <2>1. a \in Usable
    BY <1>1, <1>2 DEF BusTypeOK
  <2>2. Pair(n, m, a)
    BY <1>2, <2>1, Zenon DEF DistinctInv
  <2>3. ToSet(pgnIn[n]) = {} /\ ToSet(pgnIn[m]) = {}
    BY <1>2 DEF Quiet, ToSet
  <2> QED
    BY <1>2, <2>2, <2>3 DEF Pair, Due, Holds
<1> QED
  BY <1>1, <1>2, Zenon DEF QuietMeansDistinct

\* Once everything sent has been taken, no two nodes hold one address, whatever the
\* order of claims, defences, power cuts, commands and requests: the claims that
\* processIsoAddressClaim answers with, the restart at the top of process and the
\* answers of processIsoRequest reach the other node of a pair before that.
THEOREM AddressesAreDistinct == Spec => []QuietMeansDistinct
<1>1. Init => DistinctInv
  <2> SUFFICES ASSUME Init, NEW n \in Nodes, NEW m \in Nodes, NEW a \in Usable
               PROVE  Pair(n, m, a)
    BY Zenon DEF DistinctInv
  <2>1. node[n].addressState = "Off"
    BY StateFacts DEF Init
  <2> QED
    BY <2>1 DEF Pair, Holds
<1>2. TrafficInv /\ DistinctInv /\ [Next]_vars => DistinctInv'
  BY DistinctStep
<1>3. TrafficInv /\ DistinctInv => QuietMeansDistinct
  BY QuietPairs
<1> QED
  BY <1>1, <1>2, <1>3, TrafficHolds, PTL DEF Spec

-----------------------------------------------------------------------------
(* The lowest NAME.                                                        *)

\* A node holds the address it was last told to take, or was told nothing yet.
Steady(n) ==
  \/ node[n].addressState \in {"Claiming", "Claimed"} /\ node[n].networkAddress = asked
  \/ node[n].addressState \in {"Off", "Unclaimed"}

LowInv == \A n \in Nodes : n = Lowest => Steady(n)

\* The lowest of the NAMEs that take part, which stay the same.
LEMMA LowestFacts ==
  ASSUME TrafficInv
  PROVE  /\ Lowest \in Nodes
         /\ Lowest \in budget.nodes
         /\ \A n \in budget.nodes : Lowest <= n
<1>1. budget.nodes \in SUBSET Nodes /\ budget.nodes # {} /\ Nodes \subseteq Nat
  <2>1. budget.nodes \in (SUBSET Nodes) \ {{}}
    BY DEF TrafficInv
  <2>2. Nodes \subseteq Nat
    BY BusAssumption
  <2> QED
    BY <2>1, <2>2
<1>2. \E n \in budget.nodes : \A m \in budget.nodes : n <= m
  BY <1>1, LeastOne
<1> QED
  BY <1>1, <1>2 DEF Lowest

\* No claim on the bus beats the lowest NAME: Wins looks at nothing but NAMEs.
LEMMA LowestUnbeaten ==
  ASSUME TrafficInv
  PROVE  ~Beaten(Lowest)
<1> SUFFICES ASSUME Beaten(Lowest)
             PROVE  FALSE
  OBVIOUS
<1> DEFINE m == Head(pgnIn[Lowest])
<1>1. pgnIn[Lowest] # <<>> /\ m.type = "claim" /\ ~(Lowest <= m.name)
  BY DEF Beaten, Takes, Wins
<1>2. m.name \in budget.nodes
  BY <1>1, LowestFacts, TakenMessage
<1> QED
  BY <1>1, <1>2, LowestFacts

\* Nobody joins the nodes that take part, or leaves them.
LEMMA SameNodes ==
  ASSUME TrafficInv, [Next]_vars
  PROVE  budget'.nodes = budget.nodes
<1>1. /\ Spend("fault") => budget'.nodes = budget.nodes
      /\ Spend("order") => budget'.nodes = budget.nodes
  BY SpentBudget DEF TrafficInv
<1>2. UNCHANGED budget \/ Spend("fault") \/ Spend("order")
  BY Rounds DEF Next, Environment, Plays, Boot, PowerOff, Miss, CommandAddress, AskClaims, Inform,
                              vars
<1> QED
  BY <1>1, <1>2

\* So the lowest of them is always the same: a NAME is fixed from SetDeviceInfo on.
LEMMA LowestStays ==
  ASSUME TrafficInv, [Next]_vars
  PROVE  Lowest' = Lowest
<1>1. budget'.nodes = budget.nodes
  BY SameNodes
<1> QED
  BY <1>1 DEF Lowest

\* Only ClaimAddress and commands move the lowest NAME.
LEMMA LowStep ==
  ASSUME TrafficInv, LowInv, [Next]_vars
  PROVE  LowInv'
<1> SUFFICES ASSUME NEW n \in Nodes, n = Lowest
             PROVE  Steady(n)'
  BY LowestStays DEF LowInv
<1>0. node \in [Nodes -> Records] /\ node[n] \in Records /\ Steady(n)
  BY DEF TrafficInv, LowInv
<1>1. ASSUME UNCHANGED asked, node'[n] = node[n] PROVE Steady(n)'
  BY <1>0, <1>1 DEF Steady
<1>2. CASE UNCHANGED vars
  BY <1>1, <1>2 DEF vars
<1>3. ASSUME NEW k \in Nodes, Boot(k) PROVE Steady(n)'
  <2>1. node' = [node EXCEPT ![k] = Started] /\ UNCHANGED asked
    BY <1>3 DEF Boot
  <2>2. CASE k = n
    BY <1>0, <2>1, <2>2, StateFacts DEF Steady
  <2>3. CASE k # n
    BY <1>0, <1>1, <2>1, <2>3
  <2> QED
    BY <2>2, <2>3
<1>4. ASSUME NEW k \in Nodes, PowerOff(k) PROVE Steady(n)'
  <2>1. node' = [node EXCEPT ![k] = Off] /\ asked' = IF k = Lowest THEN Nil ELSE asked
    BY <1>4 DEF PowerOff
  <2>2. CASE k = n
    BY <1>0, <2>1, <2>2, StateFacts DEF Steady
  <2>3. CASE k # n
    BY <1>0, <1>1, <2>1, <2>3
  <2> QED
    BY <2>2, <2>3
<1>5. ASSUME NEW k \in Nodes, Miss(k) PROVE Steady(n)'
  BY <1>1, <1>5 DEF Miss
<1>6. ASSUME NEW k \in Nodes, NEW b \in CommandAddresses, CommandAddress(k, b)
      PROVE  Steady(n)'
  BY <1>1, <1>6 DEF CommandAddress
<1>7. CASE AskClaims
  BY <1>1, <1>7 DEF AskClaims
<1>10. ASSUME NEW b \in InfoAddresses, Inform(b) PROVE Steady(n)'
  BY <1>1, <1>10 DEF Inform
<1>8. ASSUME NEW k \in Nodes, k # n, Plays(k) PROVE Steady(n)'
  <2>1. PICK r \in Records : node' = [node EXCEPT ![k] = r]
    BY <1>8, RoundShape
  <2>2. node'[n] = node[n]
    BY <1>0, <1>8, <2>1
  <2>3. UNCHANGED asked
    BY <1>8 DEF Plays
  <2> QED
    BY <1>1, <2>2, <2>3
<1>9. ASSUME Plays(n) PROVE Steady(n)'
  <2>0. ~Beaten(n)
    BY LowestUnbeaten
  <2>1. CASE Keeps(n) /\ (UNCHANGED asked \/ (/\ node[n].addressState = "Claiming"
                                              /\ asked' = node[n].networkAddress))
    BY <1>0, <2>1 DEF Keeps, Steady
  <2>2. CASE Ticks(n) /\ UNCHANGED asked
    <3>1. /\ node[n].addressState = "Claiming"
          /\ node' = [node EXCEPT ![n] = [@ EXCEPT !.addressState = "Claimed"]]
      BY <2>2, Zenon DEF Ticks
    <3>2. node'[n].addressState = "Claimed" /\ node'[n].networkAddress = node[n].networkAddress
      BY <1>0, <3>1 DEF Records
    <3> QED
      BY <1>0, <2>2, <3>1, <3>2 DEF Steady
  <2>3. CASE Defends(n) /\ UNCHANGED asked
    BY <1>1, <2>3 DEF Defends
  <2>4. ASSUME NEW a \in Usable, Moves(n, a), asked' = a PROVE Steady(n)'
    <3>1. node' = [node EXCEPT ![n] = [addressState |-> "Claiming", networkAddress |-> a,
                                       preferredAddress |-> a]]
      BY <2>4, Zenon DEF Moves
    <3>2. node'[n].addressState = "Claiming" /\ node'[n].networkAddress = a
      BY <1>0, <3>1
    <3> QED
      BY <2>4, <3>2 DEF Steady
  <2> QED
    BY <1>9, <2>0, <2>1, <2>2, <2>3, <2>4 DEF Plays, Loses
<1> QED
  BY <1>2, <1>3, <1>4, <1>5, <1>6, <1>7, <1>8, <1>9, <1>10, Rounds DEF Next, Environment

\* The node with the lowest NAME never loses its address and never moves by itself:
\* processIsoAddressClaim yields to lower NAMEs only, and nothing but ClaimAddress
\* and processIsoCommandedAddress sets a preferred address besides.
THEOREM LowestIsSteady == Spec => []LowestNameUndisturbed
<1>1. Init => LowInv
  <2> SUFFICES ASSUME Init, NEW n \in Nodes
               PROVE  Steady(n)
    BY DEF LowInv
  <2> QED
    BY StateFacts DEF Init, Steady
<1>2. TrafficInv /\ LowInv /\ [Next]_vars => LowInv'
  BY LowStep
<1>3. TrafficInv /\ LowInv => LowestNameUndisturbed
  BY LowestFacts DEF LowInv, Steady, LowestNameUndisturbed
<1> QED
  BY <1>1, <1>2, <1>3, TrafficHolds, PTL DEF Spec

-----------------------------------------------------------------------------
(* The indexes.                                                            *)

\* A node knows everybody else at one address at most.
HeardInv ==
  \A n \in Choosers : \A a \in Usable :
    heard[n][a] # Nil => /\ heard[n][a] # n
                         /\ \A b \in Usable : heard[n][b] = heard[n][a] => a = b

\* updateKnownDeviceFromClaim takes a device from its old address.
LEMMA LearnedOnce ==
  ASSUME TrafficInv, HeardInv, NEW n \in Choosers, Takes(n, "claim"), NEW a \in Usable,
         Heard(n, Head(pgnIn[n]))[a] # Nil
  PROVE  /\ Heard(n, Head(pgnIn[n]))[a] # n
         /\ \A b \in Usable :
              Heard(n, Head(pgnIn[n]))[b] = Heard(n, Head(pgnIn[n]))[a] => a = b
<1> DEFINE m == Head(pgnIn[n])
<1>1. n \in Nodes /\ pgnIn[n] # <<>> /\ m.type = "claim"
  BY DEF Takes, Choosers
<1>2. m.name \in budget.nodes /\ m.name # n /\ budget.nodes \subseteq Nodes
  BY <1>1, TakenMessage DEF TrafficInv
<1>3. m.name # Nil
  BY <1>2, BusAssumption
<1>4. \A b \in Usable : Heard(n, m)[b] = IF b = m.src THEN m.name
                                         ELSE IF heard[n][b] = m.name THEN Nil ELSE heard[n][b]
  BY DEF Heard
<1> HIDE DEF m
<1> QED
  BY <1>2, <1>3, <1>4 DEF HeardInv, m

\* A node's index changes with claims and with its power only.
LEMMA HeardStep ==
  ASSUME TrafficInv, HeardInv, [Next]_vars
  PROVE  HeardInv'
<1>1. UNCHANGED heard => HeardInv'
  BY DEF HeardInv
<1>2. ASSUME NEW n \in Nodes, PowerOff(n) PROVE HeardInv'
  <2>1. heard' = [m \in Choosers |-> IF m = n THEN Silence ELSE heard[m]]
    BY <1>2 DEF PowerOff
  <2>2. \A a \in Usable : Silence[a] = Nil
    BY DEF Silence
  <2>3. ASSUME NEW c \in Choosers, NEW a \in Usable, heard'[c][a] # Nil
        PROVE  /\ heard'[c][a] # c
               /\ \A b \in Usable : heard'[c][b] = heard'[c][a] => a = b
    <3>1. heard'[c] = heard[c]
      BY <2>1, <2>2, <2>3
    <3> QED
      BY <2>3, <3>1 DEF HeardInv
  <2> QED
    BY <2>3 DEF HeardInv, Choosers
<1>3. ASSUME NEW n \in Nodes, Plays(n) PROVE HeardInv'
  <2>1. CASE UNCHANGED heard
    BY <1>1, <2>1
  <2>2. CASE /\ Takes(n, "claim")
             /\ heard' = [c \in Choosers |-> IF c = n THEN Heard(n, Head(pgnIn[n])) ELSE heard[c]]
    <3>1. ASSUME NEW c \in Choosers, NEW a \in Usable, heard'[c][a] # Nil
          PROVE  /\ heard'[c][a] # c
                 /\ \A b \in Usable : heard'[c][b] = heard'[c][a] => a = b
      <4>1. CASE c = n
        <5>1. heard'[c] = Heard(n, Head(pgnIn[n]))
          BY <2>2, <4>1
        <5> QED
          BY <2>2, <3>1, <4>1, <5>1, LearnedOnce
      <4>2. CASE c # n
        <5>1. heard'[c] = heard[c]
          BY <2>2, <4>2
        <5> QED
          BY <3>1, <5>1 DEF HeardInv
      <4> QED
        BY <4>1, <4>2
    <3> QED
      BY <3>1 DEF HeardInv, Choosers
  <2> QED
    BY <1>3, <2>1, <2>2 DEF Plays, Learns
<1> QED
  BY <1>1, <1>2, <1>3, Rounds
  DEF Next, Environment, vars, Boot, Miss, CommandAddress, AskClaims, Inform

\* A node that has somebody at every address without an unnamed record has heard of
\* as many others: with the records and the node itself there are more than addresses.
LEMMA FullIndex ==
  ASSUME TrafficInv, HeardInv, NEW n \in Choosers, node[n] # Off, Takes(n, "claim"),
         NEW records \in SUBSET Usable,
         \A b \in Usable : Heard(n, Head(pgnIn[n]))[b] # Nil \/ b \in records
  PROVE  Cardinality(budget.nodes) + Cardinality(records) > LastAddress + 1
<1> DEFINE f == Heard(n, Head(pgnIn[n]))
           others == budget.nodes \ {n}
           named == Usable \ records
           g == [a \in named |-> f[a]]
<1>1. n \in Nodes /\ n \in budget.nodes /\ budget.nodes \subseteq Nodes
  BY DEF TrafficInv, Choosers
<1>2. f \in [Usable -> budget.nodes \cup {Nil}]
  <2>1. heard \in [Choosers -> [Usable -> budget.nodes \cup {Nil}]]
    BY DEF TrafficInv, Known
  <2>2. Head(pgnIn[n]).name \in budget.nodes
    BY <1>1, TakenMessage DEF Takes
  <2> QED
    BY <2>1, <2>2 DEF Heard
<1>3. \A a \in named : /\ f[a] # Nil
                       /\ f[a] # n
                       /\ \A b \in Usable : f[b] = f[a] => a = b
  BY LearnedOnce
<1>4. IsFiniteSet(budget.nodes)
  BY <1>1, BusAssumption, FS_Subset
<1>5. named \subseteq Usable
  OBVIOUS
<1> HIDE DEF f, named
<1>6. g \in Injection(named, others)
  <2>1. g \in [named -> others]
    BY <1>2, <1>3, <1>5
  <2> QED
    BY <1>3, <1>5, <2>1 DEF Injection, IsInjective
<1>7. IsFiniteSet(others) /\ Cardinality(others) = Cardinality(budget.nodes) - 1
  BY <1>1, <1>4, FS_RemoveElement
<1>8. Cardinality(named) <= Cardinality(others)
  <2> HIDE DEF others, g
  <2> QED
    BY <1>6, <1>7, FS_Injection
<1>9. IsFiniteSet(Usable) /\ Cardinality(Usable) = LastAddress + 1
  <2>1. LastAddress \in Nat
    BY BusAssumption
  <2>2. IsFiniteSet(0..LastAddress) /\ Cardinality(0..LastAddress) = LastAddress + 1
    BY <2>1, FS_Interval
  <2> QED
    BY <2>2 DEF Usable
<1>10. /\ IsFiniteSet(records)
       /\ Cardinality(named) = Cardinality(Usable) - Cardinality(Usable \cap records)
       /\ Usable \cap records = records
  BY <1>9, FS_Subset, FS_Difference DEF named
<1>11. /\ Cardinality(budget.nodes) \in Nat /\ LastAddress \in Nat
       /\ Cardinality(records) \in Nat
  BY <1>4, <1>10, FS_CardinalityType, BusAssumption
<1> HIDE DEF others
<1>12. Cardinality(named) = (LastAddress + 1) - Cardinality(records)
  <2>1. Cardinality(Usable \cap records) = Cardinality(records)
    BY <1>10, Zenon
  <2> QED
    BY <1>9, <1>10, <2>1, Zenon
<1> QED
  BY <1>7, <1>8, <1>11, <1>12

\* What node n may lose its address for.
Crowded(n) == Cardinality(budget.nodes) + Cardinality(unnamed'[n]) > LastAddress + 1

\* A node loses its address in a round of its own, and only if it finds no other.
LEMMA KeptStep ==
  ASSUME TrafficInv, HeardInv, [Next]_vars, NEW n \in Choosers,
         node[n].addressState # "Lost"
  PROVE  node'[n].addressState = "Lost" => Crowded(n)
<1>2. n \in Nodes /\ node \in [Nodes -> Records]
  BY DEF TrafficInv, Choosers
<1>3. ASSUME NEW k \in Nodes, Boot(k) \/ PowerOff(k) PROVE node'[n].addressState # "Lost"
  <2>1. node' = [node EXCEPT ![k] = Started] \/ node' = [node EXCEPT ![k] = Off]
    BY <1>3 DEF Boot, PowerOff
  <2> QED
    BY <1>2, <2>1, StateFacts
<1>4. ASSUME NEW k \in Nodes, k # n, Plays(k) PROVE node'[n].addressState # "Lost"
  <2>1. PICK r \in Records : node' = [node EXCEPT ![k] = r]
    BY <1>4, RoundShape
  <2> QED
    BY <1>2, <1>4, <2>1
<1>5. ASSUME Plays(n), node'[n].addressState = "Lost" PROVE Crowded(n)
  <2>1. ~(Keeps(n) \/ Defends(n))
    BY <1>2, <1>5 DEF Keeps, Defends
  <2>2. ASSUME Ticks(n) PROVE FALSE
    <3>1. node' = [node EXCEPT ![n] = [@ EXCEPT !.addressState = "Claimed"]]
      BY <2>2, Zenon DEF Ticks
    <3>2. node'[n].addressState = "Claimed"
      BY <1>2, <3>1 DEF Records
    <3> QED
      BY <1>5, <3>2
  <2>3. ASSUME NEW a \in Usable, Moves(n, a) PROVE FALSE
    <3>1. node' = [node EXCEPT ![n] = [addressState |-> "Claiming", networkAddress |-> a,
                                       preferredAddress |-> a]]
      BY <2>3, Zenon DEF Moves
    <3> QED
      BY <1>2, <1>5, <3>1
  <2>4. Loses(n) /\ node[n] # Off /\ Learns(n)
    BY <1>5, <2>1, <2>2, <2>3 DEF Plays
  <2>5. /\ Takes(n, "claim")
        /\ \A b \in Usable : Heard(n, Head(pgnIn[n]))[b] # Nil \/ b \in unnamed'[n]
    BY <2>4 DEF Loses, Beaten
  <2>6. unnamed'[n] \in SUBSET Usable
    BY <1>2, <2>4, LearnedIndex DEF Known
  <2> QED
    BY <2>4, <2>5, <2>6, FullIndex DEF Crowded
<1>6. UNCHANGED node => node'[n].addressState # "Lost"
  BY <1>2
<1> QED
  BY <1>3, <1>4, <1>5, <1>6, Rounds
  DEF Next, Environment, vars, Miss, CommandAddress, AskClaims, Inform

\* A node that may choose its address goes on claiming while the other nodes and the
\* unnamed records it has leave an address: updateKnownDeviceFromClaim keeps no device
\* at two addresses, so nextAvailableAddressLocked, which tries every address but the
\* lost one, finds one.
THEOREM NobodyLosesNeedlessly == Spec => NobodyLostNeedlessly
<1>1. Init => HeardInv
  BY DEF Init, HeardInv, Silence
<1>2. TrafficInv /\ HeardInv /\ [Next]_vars => HeardInv'
  BY HeardStep
<1>3. TrafficInv /\ HeardInv /\ [Next]_vars =>
        [\A n \in Choosers :
           node[n].addressState # "Lost" /\ node'[n].addressState = "Lost"
             => Cardinality(budget.nodes) + Cardinality(unnamed'[n]) > LastAddress + 1]_vars
  BY KeptStep DEF Crowded
<1> QED
  BY <1>1, <1>2, <1>3, TrafficHolds, PTL DEF Spec, NobodyLostNeedlessly
=============================================================================
