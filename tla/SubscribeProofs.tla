-------------------------- MODULE SubscribeProofs --------------------------
(***************************************************************************)
(* Proofs about the subscription manager, for any packages, names and      *)
(* handlers and however many subscriptions: its lists stay right, and it   *)
(* keeps the promise of PubSub.                                            *)
(***************************************************************************)
EXTENDS SubscribeManager, SequenceTheorems, TLAPS

-----------------------------------------------------------------------------
(* Lemmas about the lists.                                                 *)

\* The two appended slices of Unsubscribe are the list with one place taken out.
LEMMA WithoutProperties ==
  ASSUME NEW S, NEW list \in Seq(S), NEW i \in 1..Len(list)
  PROVE  /\ Without(list, i) \in Seq(S)
         /\ Len(Without(list, i)) = Len(list) - 1
         /\ \A j \in 1..(Len(list) - 1) :
              Without(list, i)[j] = IF j < i THEN list[j] ELSE list[j + 1]
<1> DEFINE front == SubSeq(list, 1, i - 1)
           back  == SubSeq(list, i + 1, Len(list))
<1>0. Len(list) \in Nat /\ \A j \in 1..Len(list) : list[j] \in S
  BY LenProperties, ElementOfSeq
<1>1. /\ front \in Seq(S) /\ Len(front) = i - 1
      /\ \A j \in 1..(i - 1) : front[j] = list[j]
  <2>1. \A j \in 1..(i - 1) : list[j] \in S
    BY <1>0
  <2> QED
    BY <2>1, <1>0, SubSeqProperties
<1>2. /\ back \in Seq(S) /\ Len(back) = Len(list) - i
      /\ \A j \in 1..(Len(list) - i) : back[j] = list[i + j]
  <2>1. \A j \in (i + 1)..Len(list) : list[j] \in S
    BY <1>0
  <2>2. /\ back \in Seq(S)
        /\ Len(back) = IF i + 1 <= Len(list) THEN Len(list) - (i + 1) + 1 ELSE 0
        /\ \A j \in 1..(Len(list) - (i + 1) + 1) : back[j] = list[(i + 1) + j - 1]
    BY <2>1, <1>0, SubSeqProperties
  <2> HIDE DEF back
  <2> QED
    BY <2>2, <1>0
<1>3. /\ front \o back \in Seq(S)
      /\ Len(front \o back) = Len(front) + Len(back)
      /\ \A j \in 1..(Len(front) + Len(back)) :
           (front \o back)[j] = IF j <= Len(front) THEN front[j] ELSE back[j - Len(front)]
  BY <1>1, <1>2, ConcatProperties
<1>4. Without(list, i) = front \o back
  BY DEF Without
<1> HIDE DEF front, back
<1>5. ASSUME NEW j \in 1..(Len(list) - 1)
      PROVE  (front \o back)[j] = IF j < i THEN list[j] ELSE list[j + 1]
  <2>1. CASE j < i
    BY <2>1, <1>0, <1>1, <1>2, <1>3
  <2>2. CASE ~(j < i)
    <3>1. j - (i - 1) \in 1..(Len(list) - i) /\ i + (j - (i - 1)) = j + 1
      BY <2>2, <1>0
    <3>2. (front \o back)[j] = back[j - (i - 1)]
      BY <2>2, <1>0, <1>1, <1>2, <1>3
    <3> QED
      BY <2>2, <3>1, <3>2, <1>2
  <2> QED
    BY <2>1, <2>2
<1>6. Len(front \o back) = Len(list) - 1
  BY <1>0, <1>1, <1>2, <1>3
<1> DEFINE w == front \o back
<1>7. Without(list, i) = w
  BY <1>4
<1> HIDE DEF w
<1>8. w \in Seq(S) /\ Len(w) = Len(list) - 1
  BY <1>3, <1>6 DEF w
<1>9. \A j \in 1..(Len(list) - 1) : w[j] = IF j < i THEN list[j] ELSE list[j + 1]
  BY <1>5 DEF w
<1> QED
  BY <1>7, <1>8, <1>9

\* Cancelling takes exactly the cancelled subscription out of an ordered list, and
\* leaves the rest in order.
LEMMA WithoutIncreasing ==
  ASSUME NEW list \in Seq(Nat), Increasing(list), NEW i \in DOMAIN list
  PROVE  /\ Increasing(Without(list, i))
         /\ Elements(Without(list, i)) = Elements(list) \ {list[i]}
<1> DEFINE w == Without(list, i)
           n == Len(list)
<1>0. n \in Nat /\ DOMAIN list = 1..n /\ i \in 1..n /\ \A j \in 1..n : list[j] \in Nat
  BY LenProperties, ElementOfSeq
<1>1. /\ w \in Seq(Nat) /\ Len(w) = n - 1
      /\ \A j \in 1..(n - 1) : w[j] = IF j < i THEN list[j] ELSE list[j + 1]
  BY <1>0, WithoutProperties
<1>2. DOMAIN w = 1..(n - 1)
  BY <1>1, LenProperties
<1>3. \A j, k \in 1..n : j < k => list[j] < list[k]
  BY <1>0 DEF Increasing
<1> HIDE DEF w, n
<1>4. \A j, k \in 1..(n - 1) : j < k => w[j] < w[k]
  <2> SUFFICES ASSUME NEW j \in 1..(n - 1), NEW k \in 1..(n - 1), j < k
               PROVE  w[j] < w[k]
    OBVIOUS
  <2> DEFINE J == IF j < i THEN j ELSE j + 1
             K == IF k < i THEN k ELSE k + 1
  <2>1. J \in 1..n /\ K \in 1..n /\ J < K
    BY <1>0
  <2>2. w[j] = list[J] /\ w[k] = list[K]
    BY <1>1
  <2> QED
    BY <2>1, <2>2, <1>3
<1>5. ASSUME NEW j \in 1..(n - 1)
      PROVE  \E k \in 1..n : k # i /\ w[j] = list[k]
  <2>1. CASE j < i
    BY <2>1, <1>0, <1>1
  <2>2. CASE ~(j < i)
    <3>1. j + 1 \in 1..n /\ j + 1 # i
      BY <2>2, <1>0
    <3> QED
      BY <3>1, <2>2, <1>1
  <2> QED
    BY <2>1, <2>2
<1>6. ASSUME NEW k \in 1..n, k # i
      PROVE  \E j \in 1..(n - 1) : w[j] = list[k]
  <2>1. CASE k < i
    BY <2>1, <1>0, <1>1
  <2>2. CASE ~(k < i)
    <3>1. k - 1 \in 1..(n - 1) /\ ~(k - 1 < i) /\ (k - 1) + 1 = k
      BY <2>2, <1>0, <1>6
    <3> QED
      BY <3>1, <1>1
  <2> QED
    BY <2>1, <2>2
<1>7. \A k \in 1..n : k # i => list[k] # list[i]
  BY <1>0, <1>3
<1>8. Elements(w) = Elements(list) \ {list[i]}
  <2>1. Elements(w) = {w[j] : j \in 1..(n - 1)} /\ Elements(list) = {list[k] : k \in 1..n}
    BY <1>0, <1>2 DEF Elements
  <2>2. ASSUME NEW x \in Elements(w) PROVE x \in Elements(list) \ {list[i]}
    <3>1. PICK j \in 1..(n - 1) : x = w[j]
      BY <2>1
    <3>2. PICK k \in 1..n : k # i /\ x = list[k]
      BY <3>1, <1>5
    <3> QED
      BY <2>1, <3>2, <1>7
  <2>3. ASSUME NEW x \in Elements(list) \ {list[i]} PROVE x \in Elements(w)
    <3>1. PICK k \in 1..n : k # i /\ x = list[k]
      BY <2>1
    <3> QED
      BY <2>1, <3>1, <1>6
  <2> QED
    BY <2>2, <2>3
<1> QED
  BY <1>2, <1>4, <1>8 DEF Increasing, w

\* A new subscription, with the next id, keeps an ordered list in order.
LEMMA AppendIncreasing ==
  ASSUME NEW list \in Seq(Nat), Increasing(list), NEW id \in Nat,
         \A i \in DOMAIN list : list[i] < id
  PROVE  /\ Increasing(Append(list, id))
         /\ Elements(Append(list, id)) = Elements(list) \cup {id}
<1> DEFINE a == Append(list, id)
           n == Len(list)
<1>1. n \in Nat /\ DOMAIN list = 1..n /\ \A j \in 1..n : list[j] \in Nat
  BY LenProperties, ElementOfSeq
<1>2. /\ a \in Seq(Nat) /\ Len(a) = n + 1
      /\ \A j \in 1..n : a[j] = list[j]
      /\ a[n + 1] = id
  BY AppendProperties
<1>3. DOMAIN a = 1..(n + 1)
  BY <1>2, LenProperties
<1>4. \A j, k \in 1..n : j < k => list[j] < list[k]
  BY <1>1 DEF Increasing
<1> HIDE DEF a, n
<1>5. ASSUME NEW j \in 1..(n + 1), NEW k \in 1..(n + 1), j < k
      PROVE  a[j] < a[k]
  <2>1. j \in 1..n /\ \A m \in 1..n : list[m] < id
    BY <1>1, <1>5
  <2>2. CASE k = n + 1
    BY <2>1, <2>2, <1>2
  <2>3. CASE k # n + 1
    <3>1. k \in 1..n
      BY <2>3, <1>1
    <3> QED
      BY <3>1, <2>1, <1>2, <1>4, <1>5
  <2> QED
    BY <2>2, <2>3
<1>6. Elements(a) = Elements(list) \cup {id}
  <2>1. \A j \in 1..(n + 1) : a[j] \in Elements(list) \cup {id}
    BY <1>1, <1>2 DEF Elements
  <2>2. n + 1 \in 1..(n + 1) /\ \A j \in 1..n : j \in 1..(n + 1)
    BY <1>1
  <2> QED
    BY <1>1, <1>2, <1>3, <2>1, <2>2 DEF Elements
<1> QED
  BY <1>3, <1>5, <1>6 DEF Increasing, a

-----------------------------------------------------------------------------
(* The inductive invariant.  Beside what the lists say of the subscriptions, *)
(* no list names an id that was not given out yet, and what is left of a     *)
(* call list is in the order PubSub delivers in.                             *)

UpTo(list, n) == \A i \in DOMAIN list : list[i] <= n

ListsIssued ==
  /\ UpTo(all, lastSubId)
  /\ \A n \in StructNames : singles[n] # Nil => UpTo(singles[n], lastSubId)

CallInOrder(h) ==
  LET list == calls[h].list
  IN  /\ UpTo(list, lastSubId)
      /\ list # <<>> => calls[h].type \in Types
      /\ \A i, j \in DOMAIN list :
           i < j => Promise!Before(SubscriptionOf(list[i]), SubscriptionOf(list[j]))

CallsInOrder == \A h \in Handlers : CallInOrder(h)

SubscribeInv == ListsMatchSubs /\ ListsIssued /\ CallsInOrder

\* Ids are numbers, and an ordered list of them grows at its end by the next one.
LEMMA ListGrows ==
  ASSUME NEW list \in Seq(SubIds), Increasing(list), lastSubId \in Nat, UpTo(list, lastSubId),
         lastSubId + 1 \in SubIds
  PROVE  /\ Append(list, lastSubId + 1) \in Seq(SubIds) \ {<<>>}
         /\ Increasing(Append(list, lastSubId + 1))
         /\ Elements(Append(list, lastSubId + 1)) = Elements(list) \cup {lastSubId + 1}
<1>1. list \in Seq(Nat)
  <2>1. SubIds \subseteq Nat
    BY SubscribeAssumption DEF SubIds
  <2> QED
    BY <2>1, SeqMonotonic
<1>2. \A i \in DOMAIN list : list[i] < lastSubId + 1
  <2>1. \A i \in DOMAIN list : list[i] \in Nat
    BY <1>1, LenProperties, ElementOfSeq
  <2> QED
    BY <2>1 DEF UpTo
<1>3. Append(list, lastSubId + 1) \in Seq(SubIds) \ {<<>>}
  BY AppendProperties
<1> QED
  BY <1>1, <1>2, <1>3, AppendIncreasing

\* What a list names, by the ids in it.
LEMMA ByElements ==
  ASSUME NEW list
  PROVE  /\ UpTo(list, lastSubId) <=> \A id \in Elements(list) : id <= lastSubId
         /\ \A i \in DOMAIN list : list[i] \in Elements(list)
BY DEF UpTo, Elements

\* The empty lists satisfy the invariant.
LEMMA SubscribeInit == Init => SubscribeInv
<1> SUFFICES ASSUME Init PROVE SubscribeInv
  OBVIOUS
<1>1. TypeOK
  BY SubscribeAssumption DEF Init, TypeOK, SubIds
<1>2. all = <<>> /\ DOMAIN all = {}
  BY DEF Init
<1>3. \A h \in Handlers : calls[h].list = <<>> /\ DOMAIN calls[h].list = {}
  BY DEF Init
<1>4. \A n \in StructNames : singles[n] = Nil
  BY DEF Init
<1> QED
  BY <1>1, <1>2, <1>3, <1>4
  DEF SubscribeInv, ListsMatchSubs, ListsIssued, CallsInOrder, CallInOrder, Increasing, UpTo

\* An earlier subscription keeps its type when another one is made.
LEMMA SubsGrow ==
  ASSUME TypeOK, NEW type \in Types \cup {Nil}, addSubscription(type)
  PROVE  /\ lastSubId + 1 \in SubIds /\ lastSubId' = lastSubId + 1
         /\ subs' \in Seq(Types \cup {Nil}) /\ Len(subs') = lastSubId'
         /\ \A id \in 1..lastSubId : subs'[id] = subs[id]
         /\ subs'[lastSubId + 1] = type
<1>1. lastSubId + 1 \in SubIds
  BY SubscribeAssumption DEF TypeOK, addSubscription, SubIds
<1>2. subs' = Append(subs, type) /\ lastSubId' = lastSubId + 1
  BY DEF addSubscription
<1>3. subs \in Seq(Types \cup {Nil}) /\ Len(subs) = lastSubId
  BY DEF TypeOK
<1> QED
  BY <1>1, <1>2, <1>3, AppendProperties

\* A call list that was in order stays so as long as no subscription changes its type.
LEMMA CallStaysInOrder ==
  ASSUME SubscribeInv, lastSubId' \in Nat, lastSubId <= lastSubId',
         \A id \in 1..lastSubId : subs'[id] = subs[id],
         NEW h \in Handlers, calls'[h] = calls[h]
  PROVE  CallInOrder(h)'
<1>1. PICK list : list = calls[h].list
  OBVIOUS
<1>2. /\ list \in Seq(SubIds) /\ lastSubId \in Nat
      /\ UpTo(list, lastSubId)
      /\ list # <<>> => calls[h].type \in Types
      /\ \A i, j \in DOMAIN list :
           i < j => Promise!Before(SubscriptionOf(list[i]), SubscriptionOf(list[j]))
  BY <1>1, SubscribeAssumption
  DEF SubscribeInv, ListsMatchSubs, TypeOK, CallsInOrder, CallInOrder
<1>3. \A i \in DOMAIN list : list[i] \in 1..lastSubId
  <2>1. \A i \in DOMAIN list : list[i] \in SubIds
    BY <1>2, LenProperties, ElementOfSeq
  <2> QED
    BY <1>2, <2>1, SubscribeAssumption DEF UpTo, SubIds
<1>4. \A i \in DOMAIN list : SubscriptionOf(list[i])' = SubscriptionOf(list[i])
  BY <1>3 DEF SubscriptionOf
<1>5. UpTo(list, lastSubId')
  BY <1>2, <1>3 DEF UpTo
<1> QED
  BY <1>1, <1>2, <1>4, <1>5 DEF CallInOrder

\* Subscribing, to a struct or to all of them, preserves the invariant.
LEMMA SubscribePreservesInv ==
  ASSUME SubscribeInv, NEW type \in Types \cup {Nil}, addSubscription(type)
  PROVE  SubscribeInv'
<1>0. TypeOK
  BY DEF SubscribeInv, ListsMatchSubs
<1> DEFINE new == lastSubId + 1
<1>1. /\ new \in SubIds /\ lastSubId' = new /\ lastSubId \in Nat
      /\ new \in Nat /\ lastSubId <= new
      /\ subs' \in Seq(Types \cup {Nil}) /\ Len(subs') = lastSubId'
      /\ \A id \in 1..lastSubId : subs'[id] = subs[id]
      /\ subs'[new] = type
  <2>1. lastSubId \in Nat
    BY <1>0, SubscribeAssumption DEF TypeOK
  <2> QED
    BY <2>1, <1>0, SubsGrow
<1>2. UNCHANGED <<calls, called>>
  BY DEF addSubscription
<1>3. ASSUME NEW list \in Seq(SubIds), Increasing(list), UpTo(list, lastSubId)
      PROVE  /\ Append(list, new) \in Seq(SubIds) \ {<<>>}
             /\ Increasing(Append(list, new))
             /\ Elements(Append(list, new)) = Elements(list) \cup {new}
             /\ UpTo(Append(list, new), new)
             /\ \A i \in DOMAIN list : list[i] \in 1..lastSubId /\ subs'[list[i]] = subs[list[i]]
  <2>1. \A i \in DOMAIN list : list[i] \in SubIds
    BY <1>3, LenProperties, ElementOfSeq
  <2>2. \A i \in DOMAIN list : list[i] \in 1..lastSubId
    BY <1>1, <1>3, <2>1, SubscribeAssumption DEF UpTo, SubIds
  <2>3. Elements(Append(list, new)) = Elements(list) \cup {new}
    BY <1>1, <1>3, ListGrows
  <2>4. \A id \in Elements(Append(list, new)) : id <= new
    BY <1>1, <2>2, <2>3 DEF Elements
  <2>5. UpTo(Append(list, new), new)
    BY <1>1, <2>4 DEF UpTo, Elements
  <2> QED
    BY <1>1, <1>3, <2>2, <2>3, <2>5, ListGrows
<1>4. /\ all \in Seq(SubIds) /\ Increasing(all) /\ UpTo(all, lastSubId)
      /\ \A i \in DOMAIN all : subs[all[i]] = Nil
  BY DEF SubscribeInv, ListsMatchSubs, ListsIssued, TypeOK
<1>5. \A n \in StructNames : singles[n] # Nil =>
        /\ singles[n] \in Seq(SubIds) \ {<<>>} /\ Increasing(singles[n]) /\ UpTo(singles[n], lastSubId)
        /\ \A i \in DOMAIN singles[n] : LET t == subs[singles[n][i]]
                                        IN  t # Nil /\ Name(t) = n
  BY DEF SubscribeInv, ListsMatchSubs, ListsIssued, TypeOK
<1> HIDE DEF new
<1>6. /\ all' \in Seq(SubIds) /\ Increasing(all') /\ UpTo(all', new)
      /\ \A i \in DOMAIN all' : subs'[all'[i]] = Nil
  <2>1. CASE type = Nil
    <3>1. all' = Append(all, new)
      BY <2>1, <1>1 DEF addSubscription
    <3>2. \A id \in Elements(all') : subs'[id] = Nil
      <4>1. Elements(all') = Elements(all) \cup {new}
        BY <3>1, <1>3, <1>4
      <4>2. \A id \in Elements(all) : subs'[id] = Nil
        BY <1>3, <1>4 DEF Elements
      <4> QED
        BY <4>1, <4>2, <2>1, <1>1
    <3> QED
      BY <3>1, <3>2, <1>3, <1>4 DEF Elements
  <2>2. CASE type # Nil
    <3>1. all' = all
      BY <2>2 DEF addSubscription
    <3>2. UpTo(all', new)
      BY <3>1, <1>1, <1>3, <1>4 DEF UpTo
    <3> QED
      BY <3>1, <3>2, <1>3, <1>4
  <2> QED
    BY <2>1, <2>2
<1>7. ASSUME NEW n \in StructNames
      PROVE  /\ singles'[n] \in (Seq(SubIds) \ {<<>>}) \cup {Nil}
             /\ singles'[n] # Nil =>
                  /\ Increasing(singles'[n]) /\ UpTo(singles'[n], new)
                  /\ \A i \in DOMAIN singles'[n] : LET t == subs'[singles'[n][i]]
                                                   IN  t # Nil /\ Name(t) = n
  <2>1. CASE singles'[n] = singles[n]
    <3>1. singles[n] # Nil => UpTo(singles'[n], new)
      BY <2>1, <1>1, <1>3, <1>5 DEF UpTo
    <3> QED
      BY <2>1, <3>1, <1>3, <1>5, <1>0 DEF TypeOK
  <2>2. CASE singles'[n] # singles[n]
    <3>1. /\ type # Nil /\ n = Name(type)
          /\ singles'[n] = IF singles[n] = Nil THEN <<new>> ELSE Append(singles[n], new)
      BY <2>2, <1>0, <1>1 DEF addSubscription, TypeOK
    <3>2. CASE singles[n] = Nil
      <4>1. singles'[n] = <<new>>
        BY <3>1, <3>2
      <4>2. <<new>> \in Seq(SubIds) \ {<<>>} /\ DOMAIN <<new>> = {1} /\ <<new>>[1] = new
        BY <1>1
      <4>3. UpTo(singles'[n], new)
        BY <4>1, <4>2, <1>1 DEF UpTo
      <4> QED
        BY <4>1, <4>2, <4>3, <3>1, <1>1 DEF Increasing
    <3>3. CASE singles[n] # Nil
      <4>1. singles'[n] = Append(singles[n], new)
        BY <3>1, <3>3
      <4>2. \A id \in Elements(singles'[n]) : subs'[id] # Nil /\ Name(subs'[id]) = n
        <5>1. Elements(singles'[n]) = Elements(singles[n]) \cup {new}
          BY <4>1, <3>3, <1>3, <1>5
        <5>2. \A id \in Elements(singles[n]) : subs'[id] # Nil /\ Name(subs'[id]) = n
          BY <3>3, <1>3, <1>5 DEF Elements
        <5> QED
          BY <5>1, <5>2, <3>1, <1>1
      <4>3. UpTo(singles'[n], new)
        BY <4>1, <3>3, <1>3, <1>5 DEF UpTo
      <4> QED
        BY <4>1, <4>2, <4>3, <3>3, <1>3, <1>5 DEF Elements
    <3> QED
      BY <3>2, <3>3
  <2> QED
    BY <2>1, <2>2
<1>8. TypeOK'
  <2>1. lastSubId' \in 0..MaxSubs
    BY <1>1, SubscribeAssumption DEF SubIds
  <2>2. singles' \in [StructNames -> (Seq(SubIds) \ {<<>>}) \cup {Nil}]
    <3>1. DOMAIN singles' = StructNames /\ singles' = [n \in StructNames |-> singles'[n]]
      BY <1>0 DEF addSubscription, TypeOK
    <3> QED
      BY <3>1, <1>7
  <2> QED
    BY <2>1, <2>2, <1>0, <1>1, <1>2, <1>6 DEF TypeOK
<1>9. CallsInOrder'
  BY <1>1, <1>2, CallStaysInOrder DEF CallsInOrder
<1> QED
  BY <1>1, <1>6, <1>7, <1>8, <1>9 DEF SubscribeInv, ListsMatchSubs, ListsIssued

\* Cancelling preserves the invariant: the one place is gone from the one list, and the
\* name's list with its last subscription.
LEMMA UnsubscribePreservesInv ==
  ASSUME SubscribeInv, NEW id \in SubIds, Unsubscribe(id)
  PROVE  SubscribeInv'
<1>0. TypeOK
  BY DEF SubscribeInv, ListsMatchSubs
<1>1. UNCHANGED <<lastSubId, subs, calls, called>> /\ lastSubId \in Nat
  BY <1>0, SubscribeAssumption DEF Unsubscribe, TypeOK
<1>2. ASSUME NEW list \in Seq(SubIds), Increasing(list), UpTo(list, lastSubId),
             NEW i \in DOMAIN list
      PROVE  /\ Without(list, i) \in Seq(SubIds)
             /\ Len(Without(list, i)) = Len(list) - 1
             /\ Increasing(Without(list, i))
             /\ Elements(Without(list, i)) \subseteq Elements(list)
             /\ UpTo(Without(list, i), lastSubId)
  <2>1. i \in 1..Len(list)
    BY <1>2, LenProperties
  <2>2. list \in Seq(Nat)
    BY <1>2, SeqMonotonic, SubscribeAssumption DEF SubIds
  <2>3. Elements(Without(list, i)) \subseteq Elements(list)
    BY <1>2, <2>2, WithoutIncreasing
  <2>4. UpTo(Without(list, i), lastSubId)
    BY <1>2, <2>3, ByElements DEF UpTo, Elements
  <2> QED
    BY <1>2, <2>1, <2>2, <2>3, <2>4, WithoutProperties, WithoutIncreasing
<1>3. /\ all' \in Seq(SubIds) /\ Increasing(all') /\ UpTo(all', lastSubId)
      /\ \A i \in DOMAIN all' : subs[all'[i]] = Nil
  <2>0. /\ all \in Seq(SubIds) /\ Increasing(all) /\ UpTo(all, lastSubId)
        /\ \A i \in DOMAIN all : subs[all[i]] = Nil
    BY DEF SubscribeInv, ListsMatchSubs, ListsIssued, TypeOK
  <2>1. CASE all' = all
    BY <2>0, <2>1
  <2>2. CASE all' # all
    <3>1. PICK i \in DOMAIN all : all' = Without(all, i)
      BY <2>2 DEF Unsubscribe
    <3>2. \A x \in Elements(all') : subs[x] = Nil
      <4>1. Elements(all') \subseteq Elements(all)
        BY <3>1, <2>0, <1>2
      <4>2. \A x \in Elements(all) : subs[x] = Nil
        BY <2>0 DEF Elements
      <4> QED
        BY <4>1, <4>2
    <3> QED
      BY <3>1, <3>2, <2>0, <1>2 DEF Elements
  <2> QED
    BY <2>1, <2>2
<1>4. ASSUME NEW n \in StructNames
      PROVE  /\ singles'[n] \in (Seq(SubIds) \ {<<>>}) \cup {Nil}
             /\ singles'[n] # Nil =>
                  /\ Increasing(singles'[n]) /\ UpTo(singles'[n], lastSubId)
                  /\ \A i \in DOMAIN singles'[n] : LET t == subs[singles'[n][i]]
                                                   IN  t # Nil /\ Name(t) = n
  <2>0. singles[n] # Nil =>
        /\ singles[n] \in Seq(SubIds) \ {<<>>} /\ Increasing(singles[n])
        /\ UpTo(singles[n], lastSubId)
        /\ \A i \in DOMAIN singles[n] : LET t == subs[singles[n][i]]
                                        IN  t # Nil /\ Name(t) = n
    BY DEF SubscribeInv, ListsMatchSubs, ListsIssued, TypeOK
  <2>1. CASE singles'[n] = singles[n]
    BY <2>0, <2>1, <1>0 DEF TypeOK
  <2>2. CASE singles'[n] # singles[n] /\ singles'[n] # Nil
    <3>1. PICK i \in DOMAIN singles[n] :
            singles[n] # Nil /\ Len(singles[n]) # 1 /\ singles'[n] = Without(singles[n], i)
      BY <2>2, <1>0 DEF Unsubscribe, TypeOK
    <3>2. singles'[n] \in Seq(SubIds) \ {<<>>}
      <4>1. Len(singles[n]) \in Nat /\ singles'[n] \in Seq(SubIds)
            /\ Len(singles'[n]) = Len(singles[n]) - 1
        BY <3>1, <2>0, <1>2, LenProperties
      <4>2. Len(singles'[n]) # 0
        BY <4>1, <3>1
      <4> QED
        BY <4>1, <4>2, EmptySeq
    <3>3. \A x \in Elements(singles'[n]) : subs[x] # Nil /\ Name(subs[x]) = n
      <4>1. Elements(singles'[n]) \subseteq Elements(singles[n])
        BY <3>1, <2>0, <1>2
      <4>2. \A x \in Elements(singles[n]) : subs[x] # Nil /\ Name(subs[x]) = n
        BY <3>1, <2>0 DEF Elements
      <4> QED
        BY <4>1, <4>2
    <3> QED
      BY <3>1, <3>2, <3>3, <2>0, <1>2 DEF Elements
  <2>3. CASE singles'[n] = Nil
    BY <2>3
  <2> QED
    BY <2>1, <2>2, <2>3
<1>5. TypeOK'
  <2>1. singles' = [n \in StructNames |-> singles'[n]]
    BY <1>0 DEF Unsubscribe, TypeOK
  <2>2. singles' \in [StructNames -> (Seq(SubIds) \ {<<>>}) \cup {Nil}]
    BY <2>1, <1>4
  <2> QED
    BY <2>2, <1>0, <1>1, <1>3 DEF TypeOK
<1>6. CallsInOrder'
  BY <1>1, CallStaysInOrder DEF CallsInOrder
<1> QED
  BY <1>1, <1>3, <1>4, <1>5, <1>6 DEF SubscribeInv, ListsMatchSubs, ListsIssued

\* The call list HandleStruct builds: those for the name, then those for everything,
\* each part in subscription order.
LEMMA CallListBuilt ==
  ASSUME SubscribeInv, NEW n \in StructNames,
         NEW named, named = IF singles[n] = Nil THEN <<>> ELSE singles[n]
  PROVE  /\ named \in Seq(SubIds)
         /\ named \o all \in Seq(SubIds)
         /\ UpTo(named \o all, lastSubId)
         /\ \A i, j \in DOMAIN (named \o all) :
              i < j => Promise!Before(SubscriptionOf((named \o all)[i]),
                                      SubscriptionOf((named \o all)[j]))
         /\ Elements(named \o all) = Elements(named) \cup Elements(all)
<1> DEFINE list == named \o all
<1>1. /\ all \in Seq(SubIds) /\ Increasing(all) /\ UpTo(all, lastSubId)
      /\ \A i \in DOMAIN all : subs[all[i]] = Nil
  BY DEF SubscribeInv, ListsMatchSubs, ListsIssued, TypeOK
<1>2. /\ named \in Seq(SubIds) /\ Increasing(named) /\ UpTo(named, lastSubId)
      /\ \A i \in DOMAIN named : subs[named[i]] # Nil
  <2>1. CASE singles[n] = Nil
    BY <2>1 DEF Increasing, UpTo
  <2>2. CASE singles[n] # Nil
    BY <2>2 DEF SubscribeInv, ListsMatchSubs, ListsIssued, TypeOK
  <2> QED
    BY <2>1, <2>2
<1>3. /\ list \in Seq(SubIds)
      /\ Len(list) = Len(named) + Len(all)
      /\ \A i \in 1..(Len(named) + Len(all)) :
           list[i] = IF i <= Len(named) THEN named[i] ELSE all[i - Len(named)]
  BY <1>1, <1>2, ConcatProperties
<1>4. /\ Len(named) \in Nat /\ Len(all) \in Nat
      /\ DOMAIN named = 1..Len(named) /\ DOMAIN all = 1..Len(all)
      /\ DOMAIN list = 1..(Len(named) + Len(all))
  BY <1>1, <1>2, <1>3, LenProperties
<1> HIDE DEF list
<1>5. \A i \in DOMAIN list : \/ i \in DOMAIN named /\ list[i] = named[i]
                             \/ /\ i - Len(named) \in DOMAIN all
                                /\ i > Len(named)
                                /\ list[i] = all[i - Len(named)]
  <2> SUFFICES ASSUME NEW i \in 1..(Len(named) + Len(all))
               PROVE  \/ i \in 1..Len(named) /\ list[i] = named[i]
                      \/ /\ i - Len(named) \in 1..Len(all)
                         /\ i > Len(named)
                         /\ list[i] = all[i - Len(named)]
    BY <1>4
  <2>1. CASE i <= Len(named)
    <3>1. i \in 1..Len(named)
      BY <2>1, <1>4
    <3> QED
      BY <3>1, <2>1, <1>3
  <2>2. CASE ~(i <= Len(named))
    <3>1. i - Len(named) \in 1..Len(all) /\ i > Len(named)
      BY <2>2, <1>4
    <3> QED
      BY <3>1, <2>2, <1>3
  <2> QED
    BY <2>1, <2>2
<1>6. UpTo(list, lastSubId)
  BY <1>1, <1>2, <1>5 DEF UpTo
<1>7. ASSUME NEW i \in DOMAIN list, NEW j \in DOMAIN list, i < j
      PROVE  Promise!Before(SubscriptionOf(list[i]), SubscriptionOf(list[j]))
  <2>0. i \in Nat /\ j \in Nat
    BY <1>4
  <2>1. CASE i \in DOMAIN named /\ list[i] = named[i] /\ j \in DOMAIN named /\ list[j] = named[j]
    <3>1. named[i] < named[j] /\ subs[named[i]] # Nil /\ subs[named[j]] # Nil
      BY <2>1, <1>2, <1>7 DEF Increasing
    <3> QED
      BY <2>1, <3>1 DEF Promise!Before, SubscriptionOf
  <2>2. CASE /\ i - Len(named) \in DOMAIN all /\ list[i] = all[i - Len(named)]
             /\ j - Len(named) \in DOMAIN all /\ list[j] = all[j - Len(named)]
    <3>1. i - Len(named) < j - Len(named)
      BY <1>4, <1>7, <2>0
    <3>2. all[i - Len(named)] < all[j - Len(named)]
      BY <2>2, <3>1, <1>1 DEF Increasing
    <3> QED
      BY <2>2, <3>2, <1>1 DEF Promise!Before, SubscriptionOf
  <2>3. CASE /\ i \in DOMAIN named /\ list[i] = named[i]
             /\ j - Len(named) \in DOMAIN all /\ list[j] = all[j - Len(named)]
    BY <2>3, <1>1, <1>2 DEF Promise!Before, SubscriptionOf
  <2>4. ~(i > Len(named) /\ j \in DOMAIN named)
    BY <1>4, <1>7, <2>0
  <2> QED
    BY <1>5, <2>1, <2>2, <2>3, <2>4
<1>8. Elements(list) = Elements(named) \cup Elements(all)
  <2>1. Elements(list) \subseteq Elements(named) \cup Elements(all)
    BY <1>5 DEF Elements
  <2>2. ASSUME NEW i \in DOMAIN named
        PROVE  i \in DOMAIN list /\ list[i] = named[i]
    <3>1. i \in 1..(Len(named) + Len(all)) /\ i <= Len(named)
      BY <1>4
    <3> QED
      BY <3>1, <1>3, <1>4
  <2>3. ASSUME NEW k \in DOMAIN all
        PROVE  k + Len(named) \in DOMAIN list /\ list[k + Len(named)] = all[k]
    <3>1. /\ k + Len(named) \in 1..(Len(named) + Len(all))
          /\ ~(k + Len(named) <= Len(named))
          /\ k + Len(named) - Len(named) = k
      BY <1>4
    <3>2. list[k + Len(named)] = all[k + Len(named) - Len(named)]
      BY <3>1, <1>3
    <3> QED
      BY <3>1, <3>2, <1>4
  <2> QED
    BY <2>1, <2>2, <2>3 DEF Elements
<1> QED
  BY <1>2, <1>3, <1>6, <1>7, <1>8 DEF list

\* Building a call list preserves the invariant.
LEMMA HandleStructPreservesInv ==
  ASSUME SubscribeInv, NEW h \in Handlers, NEW type \in Types, HandleStruct(h, type)
  PROVE  SubscribeInv'
<1>0. TypeOK
  BY DEF SubscribeInv, ListsMatchSubs
<1>1. UNCHANGED <<lastSubId, subs, singles, all>> /\ lastSubId \in Nat
  BY <1>0, SubscribeAssumption DEF HandleStruct, TypeOK
<1>2. PICK named : named = IF singles[Name(type)] = Nil THEN <<>> ELSE singles[Name(type)]
  OBVIOUS
<1>3. PICK list : list = named \o all
  OBVIOUS
<1>4. Name(type) \in StructNames
  BY DEF Types, Name
<1>5. /\ list \in Seq(SubIds) /\ UpTo(list, lastSubId)
      /\ \A i, j \in DOMAIN list :
           i < j => Promise!Before(SubscriptionOf(list[i]), SubscriptionOf(list[j]))
  BY <1>2, <1>3, <1>4, CallListBuilt
<1>6. calls' = [calls EXCEPT ![h] = [type |-> type, list |-> list]]
  BY <1>2, <1>3 DEF HandleStruct
<1>7. TypeOK'
  <2>1. called' \in [Handlers -> Seq(SubIds)]
    BY <1>0 DEF HandleStruct, TypeOK
  <2> QED
    BY <1>0, <1>1, <1>5, <1>6, <2>1 DEF TypeOK
<1>8. CallsInOrder'
  <2> SUFFICES ASSUME NEW g \in Handlers PROVE CallInOrder(g)'
    BY DEF CallsInOrder
  <2>1. CASE g = h
    <3>1. calls'[g] = [type |-> type, list |-> list]
      BY <2>1, <1>0, <1>6 DEF TypeOK
    <3>2. \A i \in DOMAIN list : SubscriptionOf(list[i])' = SubscriptionOf(list[i])
      BY <1>1 DEF SubscriptionOf
    <3>3. calls'[g].list = list /\ calls'[g].type = type
      BY <3>1
    <3> QED
      BY <3>2, <3>3, <1>1, <1>5 DEF CallInOrder
  <2>2. CASE g # h
    <3>1. calls'[g] = calls[g]
      BY <2>2, <1>0, <1>6 DEF TypeOK
    <3> QED
      BY <3>1, <1>1, CallStaysInOrder
  <2> QED
    BY <2>1, <2>2
<1> QED
  BY <1>1, <1>7, <1>8 DEF SubscribeInv, ListsMatchSubs, ListsIssued

\* Calling the next callback preserves the invariant.
LEMMA CallNextPreservesInv ==
  ASSUME SubscribeInv, NEW h \in Handlers, CallNext(h)
  PROVE  SubscribeInv'
<1>0. TypeOK
  BY DEF SubscribeInv, ListsMatchSubs
<1>1. UNCHANGED <<lastSubId, subs, singles, all>> /\ lastSubId \in Nat
  BY <1>0, SubscribeAssumption DEF CallNext, TypeOK
<1>2. PICK list : list = calls[h].list
  OBVIOUS
<1>3. PICK rest : rest = Tail(list)
  OBVIOUS
<1>4. /\ list \in Seq(SubIds) /\ list # <<>>
      /\ calls[h].type \in Types
      /\ UpTo(list, lastSubId)
      /\ \A i, j \in DOMAIN list :
           i < j => Promise!Before(SubscriptionOf(list[i]), SubscriptionOf(list[j]))
  BY <1>0, <1>2 DEF SubscribeInv, CallsInOrder, CallInOrder, CallNext, TypeOK
<1>5. calls' = [calls EXCEPT ![h] = [type |-> calls[h].type, list |-> rest]]
  <2>1. calls[h] \in [type : Types \cup {Nil}, list : Seq(SubIds)]
    BY <1>0 DEF TypeOK
  <2>2. [calls[h] EXCEPT !.list = rest] = [type |-> calls[h].type, list |-> rest]
    BY <2>1
  <2>3. calls' = [calls EXCEPT ![h] = [calls[h] EXCEPT !.list = rest]]
    BY <1>2, <1>3 DEF CallNext
  <2> QED
    BY <2>2, <2>3
<1>6. /\ rest \in Seq(SubIds)
      /\ \A i \in DOMAIN rest : i \in Nat /\ i + 1 \in DOMAIN list /\ rest[i] = list[i + 1]
  BY <1>3, <1>4, HeadTailProperties, LenProperties
<1>7. TypeOK'
  <2>1. Head(list) \in SubIds
    BY <1>4, HeadTailProperties
  <2>2. Append(called[h], Head(list)) \in Seq(SubIds)
    BY <1>0, <2>1, AppendProperties DEF TypeOK
  <2>3. called' \in [Handlers -> Seq(SubIds)]
    BY <1>0, <1>2, <2>2 DEF CallNext, TypeOK
  <2> QED
    BY <1>0, <1>1, <1>4, <1>5, <1>6, <2>3 DEF TypeOK
<1>8. CallsInOrder'
  <2> SUFFICES ASSUME NEW g \in Handlers PROVE CallInOrder(g)'
    BY DEF CallsInOrder
  <2>1. CASE g = h
    <3>1. calls'[g].list = rest /\ calls'[g].type = calls[h].type
      BY <2>1, <1>0, <1>5 DEF TypeOK
    <3>2. \A i \in DOMAIN rest : SubscriptionOf(rest[i])' = SubscriptionOf(rest[i])
      BY <1>1 DEF SubscriptionOf
    <3>3. \A i, j \in DOMAIN rest :
            i < j => Promise!Before(SubscriptionOf(rest[i]), SubscriptionOf(rest[j]))
      BY <1>4, <1>6
    <3>4. UpTo(rest, lastSubId')
      BY <1>1, <1>4, <1>6 DEF UpTo
    <3> QED
      BY <3>1, <3>2, <3>3, <3>4, <1>1, <1>4 DEF CallInOrder
  <2>2. CASE g # h
    <3>1. calls'[g] = calls[g]
      BY <2>2, <1>0, <1>5 DEF TypeOK
    <3> QED
      BY <3>1, <1>1, CallStaysInOrder
  <2> QED
    BY <2>1, <2>2
<1> QED
  BY <1>1, <1>7, <1>8 DEF SubscribeInv, ListsMatchSubs, ListsIssued

\* Every step preserves the invariant.
LEMMA SubscribeStep == SubscribeInv /\ [Next]_vars => SubscribeInv'
<1> SUFFICES ASSUME SubscribeInv, [Next]_vars PROVE SubscribeInv'
  OBVIOUS
<1>1. CASE \E t \in Types : SubscribeToStruct(t)
  BY <1>1, SubscribePreservesInv DEF SubscribeToStruct
<1>2. CASE SubscribeToAllStructs
  BY <1>2, SubscribePreservesInv DEF SubscribeToAllStructs
<1>3. CASE \E id \in SubIds : Unsubscribe(id)
  BY <1>3, UnsubscribePreservesInv
<1>4. CASE \E h \in Handlers : CallNext(h)
  BY <1>4, CallNextPreservesInv
<1>5. CASE \E h \in Handlers : \E t \in Types : HandleStruct(h, t)
  BY <1>5, HandleStructPreservesInv
<1>6. CASE UNCHANGED vars
  <2>1. UNCHANGED <<lastSubId, subs, singles, all, calls, called>>
    BY <1>6 DEF vars
  <2> QED
    BY <2>1 DEF SubscribeInv, ListsMatchSubs, TypeOK, ListsIssued, CallsInOrder, CallInOrder,
                SubscriptionOf
<1> QED
  BY <1>1, <1>2, <1>3, <1>4, <1>5, <1>6 DEF Next

\* However subscriptions are made and cancelled, and whatever is published meanwhile:
\* no list names a subscription twice or one it does not belong to, and each stays in
\* the order the subscriptions were made.
THEOREM ListsAlwaysMatchSubs == Spec => []ListsMatchSubs
<1>1. SubscribeInv => ListsMatchSubs
  BY DEF SubscribeInv
<1> QED
  BY <1>1, SubscribeInit, SubscribeStep, PTL DEF Spec

-----------------------------------------------------------------------------
(* The refinement.  Each step of the manager is a step of PubSub, or, when  *)
(* a callback for another type of the same name is skipped, none.           *)

\* The subscriptions in place are those some list names.
Placed == Elements(all) \cup UNION {Elements(singles[n]) : n \in {m \in StructNames : singles[m] # Nil}}

\* Every subscription in place was made.
LEMMA PlacedAreIssued == SubscribeInv => Placed \subseteq 1..lastSubId
<1> SUFFICES ASSUME SubscribeInv PROVE Placed \subseteq 1..lastSubId
  OBVIOUS
<1>0. lastSubId \in Nat
  BY SubscribeAssumption DEF SubscribeInv, ListsMatchSubs, TypeOK
<1>1. ASSUME NEW list \in Seq(SubIds), UpTo(list, lastSubId)
      PROVE  Elements(list) \subseteq 1..lastSubId
  <2>1. \A i \in DOMAIN list : list[i] \in SubIds
    BY <1>1, LenProperties, ElementOfSeq
  <2> QED
    BY <1>0, <1>1, <2>1, SubscribeAssumption DEF UpTo, Elements, SubIds
<1>2. Elements(all) \subseteq 1..lastSubId
  BY <1>1 DEF SubscribeInv, ListsMatchSubs, ListsIssued, TypeOK
<1>3. \A n \in StructNames : singles[n] # Nil => Elements(singles[n]) \subseteq 1..lastSubId
  BY <1>1 DEF SubscribeInv, ListsMatchSubs, ListsIssued, TypeOK
<1> QED
  BY <1>2, <1>3 DEF Placed

\* What is left for a handler to deliver does not change unless its call list does.
LEMMA DueStays ==
  ASSUME SubscribeInv, lastSubId' \in Nat, lastSubId <= lastSubId',
         \A id \in 1..lastSubId : subs'[id] = subs[id],
         NEW h \in Handlers, calls'[h] = calls[h]
  PROVE  dueBar'[h] = dueBar[h]
<1>1. PICK list, type : list = calls[h].list /\ type = calls[h].type
  OBVIOUS
<1>2. list \in Seq(SubIds) /\ UpTo(list, lastSubId) /\ lastSubId \in Nat
  BY <1>1, SubscribeAssumption
  DEF SubscribeInv, ListsMatchSubs, TypeOK, CallsInOrder, CallInOrder
<1>3. \A id \in Elements(list) : id \in 1..lastSubId
  <2>1. \A i \in DOMAIN list : list[i] \in SubIds
    BY <1>2, LenProperties, ElementOfSeq
  <2> QED
    BY <1>2, <2>1, SubscribeAssumption DEF UpTo, Elements, SubIds
<1>4. \A id \in Elements(list) : /\ SubscriptionOf(id)' = SubscriptionOf(id)
                                 /\ Wants(id, type)' <=> Wants(id, type)
  BY <1>3 DEF SubscriptionOf, Wants
<1>5. dueBar[h] = {SubscriptionOf(id) : id \in {i \in Elements(list) : Wants(i, type)}}
  BY <1>1 DEF dueBar
<1>6. dueBar'[h] = {SubscriptionOf(id)' : id \in {i \in Elements(list) : Wants(i, type)'}}
  BY <1>1 DEF dueBar
<1> QED
  BY <1>4, <1>5, <1>6

\* SubscribeToStruct and SubscribeToAllStructs put one subscription in place.
LEMMA SubscribeRefines ==
  ASSUME SubscribeInv, NEW type \in Types \cup {Nil}, addSubscription(type)
  PROVE  Promise!Subscribe(type)
<1>0. TypeOK
  BY DEF SubscribeInv, ListsMatchSubs
<1>1. PICK new : new = lastSubId + 1
  OBVIOUS
<1>2. /\ lastSubId' = new /\ lastSubId \in Nat /\ new \in Nat /\ new \in SubIds
      /\ lastSubId <= new
      /\ \A id \in 1..lastSubId : subs'[id] = subs[id]
      /\ subs'[new] = type
      /\ UNCHANGED <<calls, called>>
  BY <1>0, <1>1, SubsGrow, SubscribeAssumption DEF TypeOK, SubIds, addSubscription
<1>3. ASSUME NEW list \in Seq(SubIds), Increasing(list), UpTo(list, lastSubId)
      PROVE  Elements(Append(list, new)) = Elements(list) \cup {new}
  BY <1>1, <1>2, <1>3, ListGrows
<1>4. Placed' = Placed \cup {new}
  <2>1. CASE type = Nil
    <3>1. all' = Append(all, new) /\ singles' = singles
      BY <2>1, <1>2 DEF addSubscription
    <3>2. Elements(all') = Elements(all) \cup {new}
      BY <3>1, <1>3 DEF SubscribeInv, ListsMatchSubs, ListsIssued, TypeOK
    <3> QED
      BY <3>1, <3>2 DEF Placed
  <2>2. CASE type # Nil
    <3>1. PICK n : n = Name(type)
      OBVIOUS
    <3>2. n \in StructNames
      BY <3>1, <2>2 DEF Types, Name
    <3>3. /\ all' = all
          /\ singles' = [singles EXCEPT ![n] =
                           IF singles[n] = Nil THEN <<new>> ELSE Append(singles[n], new)]
      BY <2>2, <3>1, <1>2 DEF addSubscription
    <3>4. \A m \in StructNames : m # n => singles'[m] = singles[m]
      BY <3>3, <1>0 DEF TypeOK
    <3>5. /\ singles'[n] # Nil
          /\ Elements(singles'[n]) =
               {new} \cup (IF singles[n] = Nil THEN {} ELSE Elements(singles[n]))
      <4>1. CASE singles[n] = Nil
        <5>1. singles'[n] = <<new>>
          BY <4>1, <3>2, <3>3, <1>0 DEF TypeOK
        <5>2. <<new>> \in Seq(Nat) /\ Elements(<<new>>) = {new}
          BY <1>2 DEF Elements
        <5> QED
          BY <4>1, <5>1, <5>2, SubscribeAssumption
      <4>2. CASE singles[n] # Nil
        <5>1. singles'[n] = Append(singles[n], new)
          BY <4>2, <3>2, <3>3, <1>0 DEF TypeOK
        <5>2. singles[n] \in Seq(SubIds) /\ Increasing(singles[n]) /\ UpTo(singles[n], lastSubId)
          BY <4>2, <3>2 DEF SubscribeInv, ListsMatchSubs, ListsIssued, TypeOK
        <5>3. Append(singles[n], new) \in Seq(Nat)
          <6>1. singles[n] \in Seq(Nat)
            BY <5>2, SeqMonotonic, SubscribeAssumption DEF SubIds
          <6> QED
            BY <6>1, <1>2, AppendProperties
        <5> QED
          BY <4>2, <5>1, <5>2, <5>3, <1>3, SubscribeAssumption
      <4> QED
        BY <4>1, <4>2
    <3> QED
      BY <3>2, <3>3, <3>4, <3>5 DEF Placed
  <2> QED
    BY <2>1, <2>2
<1>5. liveBar' = liveBar \cup {[id |-> lastSubId', type |-> type]}
  <2>1. \A id \in Placed : SubscriptionOf(id)' = SubscriptionOf(id)
    BY <1>2, PlacedAreIssued DEF SubscriptionOf
  <2>2. SubscriptionOf(new)' = [id |-> lastSubId', type |-> type]
    BY <1>2 DEF SubscriptionOf
  <2>3. liveBar = {SubscriptionOf(id) : id \in Placed}
    BY DEF liveBar, Placed
  <2>4. liveBar' = {SubscriptionOf(id)' : id \in Placed'}
    BY DEF liveBar, Placed
  <2> QED
    BY <1>4, <2>1, <2>2, <2>3, <2>4
<1>6. dueBar' = dueBar
  <2>1. \A h \in Handlers : dueBar'[h] = dueBar[h]
    BY <1>2, DueStays
  <2> QED
    BY <2>1 DEF dueBar
<1> QED
  BY <1>1, <1>2, <1>5, <1>6 DEF Promise!Subscribe

\* Cancelling takes the subscription out of the one list it is in.
LEMMA CancelUnplaces ==
  ASSUME SubscribeInv, NEW id \in SubIds, Unsubscribe(id)
  PROVE  id \in Placed /\ Placed' = Placed \ {id}
<1>0. TypeOK
  BY DEF SubscribeInv, ListsMatchSubs
<1>1. /\ \A x \in Elements(all) : subs[x] = Nil
      /\ \A n \in StructNames : singles[n] # Nil =>
           \A x \in Elements(singles[n]) : subs[x] # Nil /\ Name(subs[x]) = n
  BY DEF SubscribeInv, ListsMatchSubs, Elements
<1>2. ASSUME NEW list \in Seq(SubIds), Increasing(list), NEW i \in DOMAIN list
      PROVE  /\ list[i] \in Elements(list)
             /\ Elements(Without(list, i)) = Elements(list) \ {list[i]}
  <2>1. list \in Seq(Nat)
    BY <1>2, SeqMonotonic, SubscribeAssumption DEF SubIds
  <2> QED
    BY <1>2, <2>1, WithoutIncreasing, ByElements
<1>3. CASE subs[id] = Nil
  <2>1. PICK i \in DOMAIN all : all[i] = id /\ all' = Without(all, i) /\ singles' = singles
    BY <1>3 DEF Unsubscribe
  <2>2. id \in Elements(all) /\ Elements(all') = Elements(all) \ {id}
    BY <2>1, <1>2 DEF SubscribeInv, ListsMatchSubs, TypeOK
  <2>3. \A n \in StructNames : singles[n] # Nil => id \notin Elements(singles[n])
    BY <1>1, <1>3
  <2> QED
    BY <2>1, <2>2, <2>3 DEF Placed
<1>4. CASE subs[id] # Nil
  <2>1. PICK n : n = Name(subs[id])
    OBVIOUS
  <2>2. n \in StructNames
    <3>1. id \in 1..Len(subs) /\ subs \in Seq(Types \cup {Nil})
      BY <1>0, SubscribeAssumption DEF Unsubscribe, TypeOK, SubIds
    <3>2. subs[id] \in Types
      BY <3>1, <1>4, ElementOfSeq
    <3> QED
      BY <2>1, <3>2 DEF Types, Name
  <2>3. PICK i \in DOMAIN singles[n] :
          /\ singles[n] # Nil /\ singles[n][i] = id /\ all' = all
          /\ singles' = [singles EXCEPT ![n] = IF Len(singles[n]) = 1 THEN Nil
                                               ELSE Without(singles[n], i)]
    BY <1>4, <2>1 DEF Unsubscribe
  <2>4. singles[n] \in Seq(SubIds) /\ Increasing(singles[n])
    BY <2>2, <2>3 DEF SubscribeInv, ListsMatchSubs, TypeOK
  <2>5. id \in Elements(singles[n]) /\ Elements(Without(singles[n], i)) = Elements(singles[n]) \ {id}
    BY <2>3, <2>4, <1>2
  <2>6. \A m \in StructNames : m # n => singles'[m] = singles[m]
    BY <2>3, <1>0 DEF TypeOK
  <2>7. (IF singles'[n] = Nil THEN {} ELSE Elements(singles'[n])) = Elements(singles[n]) \ {id}
    <3>1. CASE Len(singles[n]) = 1
      <4>1. singles'[n] = Nil
        BY <3>1, <2>2, <2>3, <1>0 DEF TypeOK
      <4>2. DOMAIN singles[n] = {1}
        BY <3>1, <2>4, LenProperties
      <4>3. Elements(singles[n]) = {id}
        BY <4>2, <2>3 DEF Elements
      <4> QED
        BY <4>1, <4>3
    <3>2. CASE Len(singles[n]) # 1
      <4>1. singles'[n] = Without(singles[n], i)
        BY <3>2, <2>2, <2>3, <1>0 DEF TypeOK
      <4>2. Without(singles[n], i) \in Seq(Nat)
        <5>1. i \in 1..Len(singles[n]) /\ singles[n] \in Seq(Nat)
          BY <2>4, LenProperties, SeqMonotonic, SubscribeAssumption DEF SubIds
        <5> QED
          BY <5>1, WithoutProperties
      <4> QED
        BY <4>1, <4>2, <2>5, SubscribeAssumption
    <3> QED
      BY <3>1, <3>2
  <2>8. /\ id \notin Elements(all)
        /\ \A m \in StructNames : m # n /\ singles[m] # Nil => id \notin Elements(singles[m])
    BY <1>1, <1>4, <2>1
  <2>9. id \in Placed
    BY <2>2, <2>3, <2>5 DEF Placed
  <2>10. ASSUME NEW x
         PROVE  x \in Placed' <=> x \in Placed \ {id}
    BY <2>2, <2>3, <2>6, <2>7, <2>8 DEF Placed
  <2> QED
    BY <2>9, <2>10
<1> QED
  BY <1>3, <1>4

\* Unsubscribe cancels one subscription.
LEMMA CancelRefines ==
  ASSUME SubscribeInv, NEW id \in SubIds, Unsubscribe(id)
  PROVE  \E s \in liveBar : Promise!Cancel(s)
<1>0. lastSubId \in Nat
  BY SubscribeAssumption DEF SubscribeInv, ListsMatchSubs, TypeOK
<1>1. UNCHANGED <<lastSubId, subs, calls, called>>
  BY DEF Unsubscribe
<1>2. id \in Placed /\ Placed' = Placed \ {id}
  BY CancelUnplaces
<1>3. liveBar = {SubscriptionOf(x) : x \in Placed}
  BY DEF liveBar, Placed
<1>4. liveBar' = {SubscriptionOf(x)' : x \in Placed'}
  BY DEF liveBar, Placed
<1>5. \A x : SubscriptionOf(x)' = SubscriptionOf(x) /\ SubscriptionOf(x).id = x
  BY <1>1 DEF SubscriptionOf
<1>6. \A x, y : SubscriptionOf(x) = SubscriptionOf(y) => x = y
  BY DEF SubscriptionOf
<1>7. liveBar' = liveBar \ {SubscriptionOf(id)}
  BY <1>2, <1>3, <1>4, <1>5, <1>6
<1>8. dueBar' = dueBar
  <2>1. \A h \in Handlers : dueBar'[h] = dueBar[h]
    BY <1>0, <1>1, DueStays
  <2> QED
    BY <2>1 DEF dueBar
<1>9. SubscriptionOf(id) \in liveBar
  BY <1>2, <1>3
<1> QED
  BY <1>1, <1>7, <1>8, <1>9 DEF Promise!Cancel

\* HandleStruct publishes to the subscriptions in place that want the struct.
LEMMA HandleStructRefines ==
  ASSUME SubscribeInv, NEW h \in Handlers, NEW type \in Types, HandleStruct(h, type)
  PROVE  Promise!Publish(h, type)
<1>0. TypeOK /\ lastSubId \in Nat
  BY SubscribeAssumption DEF SubscribeInv, ListsMatchSubs, TypeOK
<1>1. UNCHANGED <<lastSubId, subs, singles, all>>
  BY DEF HandleStruct
<1>2. PICK n : n = Name(type)
  OBVIOUS
<1>3. PICK named : named = IF singles[n] = Nil THEN <<>> ELSE singles[n]
  OBVIOUS
<1>4. PICK list : list = named \o all
  OBVIOUS
<1>5. n \in StructNames
  BY <1>2 DEF Types, Name
<1>6. Elements(list) = Elements(named) \cup Elements(all)
  BY <1>3, <1>4, <1>5, CallListBuilt
<1>7. calls' = [calls EXCEPT ![h] = [type |-> type, list |-> list]]
  BY <1>2, <1>3, <1>4 DEF HandleStruct
<1>8. \A x : SubscriptionOf(x)' = SubscriptionOf(x) /\ (Wants(x, type)' <=> Wants(x, type))
  BY <1>1 DEF SubscriptionOf, Wants
<1>9. dueBar[h] = {}
  <2>1. calls[h].list = <<>>
    BY DEF HandleStruct
  <2>2. Elements(<<>>) = {}
    BY DEF Elements
  <2> QED
    BY <2>1, <2>2 DEF dueBar
<1>10. {x \in Placed : Wants(x, type)} = {x \in Elements(list) : Wants(x, type)}
  <2>1. Elements(<<>>) = {}
    BY DEF Elements
  <2>2. ASSUME NEW m \in StructNames, singles[m] # Nil, m # n, NEW x \in Elements(singles[m])
        PROVE  ~Wants(x, type)
    <3>1. subs[x] # Nil /\ Name(subs[x]) = m
      BY <2>2 DEF SubscribeInv, ListsMatchSubs, Elements
    <3> QED
      BY <3>1, <2>2, <1>2 DEF Wants
  <2> QED
    BY <2>1, <2>2, <1>3, <1>5, <1>6 DEF Placed
<1>11. dueBar'[h] = {s \in liveBar : s.type \in {type, Nil}}
  <2>1. dueBar'[h] = {SubscriptionOf(x) : x \in {i \in Elements(list) : Wants(i, type)}}
    <3>1. calls'[h] = [type |-> type, list |-> list]
      BY <1>0, <1>7 DEF TypeOK
    <3>2. calls'[h].list = list /\ calls'[h].type = type
      BY <3>1
    <3>3. dueBar'[h] = {SubscriptionOf(x)' : x \in {i \in Elements(list) : Wants(i, type)'}}
      BY <3>2 DEF dueBar
    <3> QED
      BY <3>3, <1>8
  <2>2. liveBar = {SubscriptionOf(x) : x \in Placed}
    BY DEF liveBar, Placed
  <2>3. \A x : SubscriptionOf(x).type \in {type, Nil} <=> Wants(x, type)
    BY DEF SubscriptionOf, Wants
  <2> QED
    BY <1>10, <2>1, <2>2, <2>3
<1>12. \A g \in Handlers : g # h => dueBar'[g] = dueBar[g]
  <2>1. \A g \in Handlers : g # h => calls'[g] = calls[g]
    BY <1>0, <1>7 DEF TypeOK
  <2> QED
    BY <1>0, <1>1, <2>1, DueStays
<1>13. dueBar' = [dueBar EXCEPT ![h] = {s \in liveBar : s.type \in {type, Nil}}]
  BY <1>11, <1>12 DEF dueBar
<1>14. liveBar' = liveBar
  BY <1>1 DEF liveBar, SubscriptionOf
<1> QED
  BY <1>1, <1>9, <1>13, <1>14 DEF Promise!Publish, HandleStruct

\* Calling a callback delivers to the first subscription due, and skipping one that is
\* for another type of the same name delivers nothing.
LEMMA CallNextRefines ==
  ASSUME SubscribeInv, NEW h \in Handlers, CallNext(h)
  PROVE  \/ \E s \in dueBar[h] : Promise!Deliver(h, s)
         \/ UNCHANGED <<lastSubId, liveBar, dueBar, called>>
<1>0. TypeOK /\ lastSubId \in Nat
  BY SubscribeAssumption DEF SubscribeInv, ListsMatchSubs, TypeOK
<1>1. UNCHANGED <<lastSubId, subs, singles, all>>
  BY DEF CallNext
<1>2. PICK list, type : list = calls[h].list /\ type = calls[h].type
  OBVIOUS
<1>3. PICK id, rest : id = Head(list) /\ rest = Tail(list)
  OBVIOUS
<1>4. /\ list \in Seq(SubIds) /\ list # <<>>
      /\ \A i, j \in DOMAIN list :
           i < j => Promise!Before(SubscriptionOf(list[i]), SubscriptionOf(list[j]))
  BY <1>0, <1>2 DEF SubscribeInv, CallsInOrder, CallInOrder, CallNext, TypeOK
<1>5. /\ rest \in Seq(SubIds) /\ Len(list) \in Nat \ {0} /\ Len(rest) = Len(list) - 1
      /\ \A i \in 1..Len(rest) : rest[i] = list[i + 1]
      /\ DOMAIN list = 1..Len(list) /\ DOMAIN rest = 1..Len(rest)
      /\ id = list[1]
  BY <1>3, <1>4, HeadTailProperties, LenProperties, EmptySeq
<1>6. id \in Nat /\ id \in Elements(list)
  <2>1. 1 \in 1..Len(list)
    BY <1>5
  <2>2. id \in SubIds
    BY <2>1, <1>4, <1>5, ElementOfSeq
  <2>3. id \in Nat
    BY <2>2, SubscribeAssumption DEF SubIds
  <2> QED
    BY <2>1, <2>3, <1>5 DEF Elements
<1>7. \A x \in Elements(rest) : Promise!Before(SubscriptionOf(id), SubscriptionOf(x))
  <2> SUFFICES ASSUME NEW i \in 1..Len(rest)
               PROVE  Promise!Before(SubscriptionOf(id), SubscriptionOf(rest[i]))
    BY <1>5 DEF Elements
  <2>1. 1 \in DOMAIN list /\ i + 1 \in DOMAIN list /\ 1 < i + 1
    BY <1>5
  <2> QED
    BY <2>1, <1>4, <1>5
<1>8. Elements(list) = {id} \cup Elements(rest)
  <2>1. ASSUME NEW i \in 1..Len(list)
        PROVE  list[i] \in {id} \cup Elements(rest)
    <3>1. CASE i = 1
      BY <3>1, <1>5
    <3>2. CASE i # 1
      <4>1. i - 1 \in 1..Len(rest) /\ (i - 1) + 1 = i
        BY <3>2, <1>5
      <4> QED
        BY <4>1, <1>5 DEF Elements
    <3> QED
      BY <3>1, <3>2
  <2>2. ASSUME NEW i \in 1..Len(rest)
        PROVE  rest[i] \in Elements(list)
    <3>1. i + 1 \in 1..Len(list)
      BY <1>5
    <3> QED
      BY <3>1, <1>5 DEF Elements
  <2> QED
    BY <2>1, <2>2, <1>5, <1>6 DEF Elements
<1>9. ~Promise!Before(SubscriptionOf(id), SubscriptionOf(id))
  BY <1>6 DEF Promise!Before, SubscriptionOf
<1>10. calls'[h].list = rest /\ calls'[h].type = type
       /\ \A g \in Handlers : g # h => calls'[g] = calls[g]
  <2>1. calls[h] \in [type : Types \cup {Nil}, list : Seq(SubIds)]
    BY <1>0 DEF TypeOK
  <2>2. calls' = [calls EXCEPT ![h] = [calls[h] EXCEPT !.list = rest]]
    BY <1>2, <1>3 DEF CallNext
  <2>3. \A g \in Handlers : calls'[g] = IF g = h THEN [calls[h] EXCEPT !.list = rest] ELSE calls[g]
    BY <2>2, <1>0 DEF TypeOK
  <2> QED
    BY <2>1, <2>3, <1>2
<1>11. \A x : SubscriptionOf(x)' = SubscriptionOf(x) /\ (Wants(x, type)' <=> Wants(x, type))
  BY <1>1 DEF SubscriptionOf, Wants
<1>12. dueBar[h] = {SubscriptionOf(x) : x \in {i \in Elements(list) : Wants(i, type)}}
  BY <1>2 DEF dueBar
<1>13. dueBar'[h] = {SubscriptionOf(x) : x \in {i \in Elements(rest) : Wants(i, type)}}
  <2>1. dueBar'[h] = {SubscriptionOf(x)' : x \in {i \in Elements(rest) : Wants(i, type)'}}
    BY <1>10 DEF dueBar
  <2> QED
    BY <2>1, <1>11
<1>14. \A g \in Handlers : g # h => dueBar'[g] = dueBar[g]
  BY <1>0, <1>1, <1>10, DueStays
<1>15. liveBar' = liveBar
  BY <1>1 DEF liveBar, SubscriptionOf
<1>16. CASE Wants(id, type)
  <2>1. SubscriptionOf(id) \in dueBar[h]
    BY <1>6, <1>12, <1>16
  <2>2. dueBar'[h] = dueBar[h] \ {SubscriptionOf(id)}
    BY <1>7, <1>8, <1>9, <1>12, <1>13
  <2>3. \A t \in dueBar[h] \ {SubscriptionOf(id)} : Promise!Before(SubscriptionOf(id), t)
    BY <1>7, <1>13, <2>2
  <2>4. dueBar' = [dueBar EXCEPT ![h] = dueBar[h] \ {SubscriptionOf(id)}]
    BY <1>14, <2>2 DEF dueBar
  <2>5. called' = [called EXCEPT ![h] = Append(called[h], SubscriptionOf(id).id)]
    BY <1>2, <1>3, <1>16 DEF CallNext, SubscriptionOf
  <2> QED
    BY <1>1, <1>15, <2>1, <2>3, <2>4, <2>5 DEF Promise!Deliver
<1>17. CASE ~Wants(id, type)
  <2>1. dueBar'[h] = dueBar[h]
    BY <1>8, <1>12, <1>13, <1>17
  <2>2. dueBar' = dueBar
    BY <1>14, <2>1 DEF dueBar
  <2>3. called' = [called EXCEPT ![h] = called[h]]
    BY <1>2, <1>3, <1>17 DEF CallNext
  <2> QED
    BY <1>0, <1>1, <1>15, <2>2, <2>3 DEF TypeOK
<1> QED
  BY <1>16, <1>17

\* The empty lists are PubSub's initial state.
LEMMA RefinementInit == Init => Promise!Init
<1> SUFFICES ASSUME Init PROVE Promise!Init
  OBVIOUS
<1>1. Elements(<<>>) = {}
  BY DEF Elements
<1>2. liveBar = {}
  BY <1>1 DEF Init, liveBar
<1>3. dueBar = [h \in Handlers |-> {}]
  BY <1>1 DEF Init, dueBar
<1> QED
  BY <1>2, <1>3 DEF Init, Promise!Init

\* The manager keeps PubSub's promise: a struct reaches each subscription that was in
\* place when HandleStruct built its call list exactly once and in order, whoever
\* subscribes or cancels while the callbacks run without the lock.
THEOREM ManagerImplementsPubSub == Spec => ImplementsPubSub
<1>1. ASSUME SubscribeInv, [Next]_vars
      PROVE  [Promise!Next]_<<lastSubId, liveBar, dueBar, called>>
  <2>1. ASSUME NEW t \in Types, SubscribeToStruct(t) PROVE Promise!Next
    BY <1>1, <2>1, SubscribeRefines DEF SubscribeToStruct, Promise!Next
  <2>2. ASSUME SubscribeToAllStructs PROVE Promise!Next
    BY <1>1, <2>2, SubscribeRefines DEF SubscribeToAllStructs, Promise!Next
  <2>3. ASSUME NEW id \in SubIds, Unsubscribe(id) PROVE Promise!Next
    BY <1>1, <2>3, CancelRefines DEF Promise!Next
  <2>4. ASSUME NEW h \in Handlers, CallNext(h)
        PROVE  Promise!Next \/ UNCHANGED <<lastSubId, liveBar, dueBar, called>>
    BY <1>1, <2>4, CallNextRefines DEF Promise!Next
  <2>5. ASSUME NEW h \in Handlers, NEW t \in Types, HandleStruct(h, t) PROVE Promise!Next
    BY <1>1, <2>5, HandleStructRefines DEF Promise!Next
  <2>6. CASE UNCHANGED vars
    BY <2>6 DEF vars, liveBar, dueBar, SubscriptionOf, Wants
  <2> QED
    BY <1>1, <2>1, <2>2, <2>3, <2>4, <2>5, <2>6 DEF Next
<1> QED
  BY <1>1, SubscribeInit, SubscribeStep, RefinementInit, PTL
  DEF Spec, ImplementsPubSub, Promise!Spec, Promise!vars
=============================================================================
