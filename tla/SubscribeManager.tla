-------------------------- MODULE SubscribeManager --------------------------
(***************************************************************************)
(* The subscription manager (internal/subscribe/subscribe.go).             *)
(*                                                                         *)
(* Subscribing, cancelling and the first part of HandleStruct are one lock *)
(* region each; HandleStruct then calls the callbacks without the lock, so *)
(* that anyone, the callbacks included, may subscribe and cancel           *)
(* meanwhile.  A struct type is a pair of a package and a name: the lists  *)
(* are keyed by the name alone.  Calls that are refused change nothing and *)
(* have no step.                                                           *)
(***************************************************************************)
EXTENDS Naturals, Sequences

CONSTANTS Packages, StructNames,
          Handlers,  \* the goroutines that call HandleStruct
          MaxSubs,   \* bound for TLC: subscriptions ever made
          Nil

Types   == Packages \X StructNames
Name(t) == t[2]
SubIds  == 1..MaxSubs

ASSUME SubscribeAssumption == MaxSubs \in Nat /\ Nil \notin Types /\ Nil \notin Seq(Nat)

VARIABLES lastSubId,
          subs,     \* the type of each subscription, Nil for all structs
          singles,  \* the subscriptions for each struct name, in order; Nil when none
          all,      \* the subscriptions for all structs, in order
          calls,    \* what each handler is publishing, and the call list left
          called    \* history: the callbacks its struct has reached

vars == <<lastSubId, subs, singles, all, calls, called>>

Init ==
  /\ lastSubId = 0
  /\ subs = <<>>
  /\ singles = [n \in StructNames |-> Nil]
  /\ all = <<>>
  /\ calls = [h \in Handlers |-> [type |-> Nil, list |-> <<>>]]
  /\ called = [h \in Handlers |-> <<>>]

-----------------------------------------------------------------------------

addSubscription(type) ==
  /\ lastSubId < MaxSubs
  /\ lastSubId' = lastSubId + 1
  /\ subs' = Append(subs, type)
  /\ \/ /\ type = Nil
        /\ all' = Append(all, lastSubId')
        /\ UNCHANGED singles
     \/ /\ type # Nil
        /\ singles' = [singles EXCEPT ![Name(type)] =
                         IF @ = Nil THEN <<lastSubId'>> ELSE Append(@, lastSubId')]
        /\ UNCHANGED all
  /\ UNCHANGED <<calls, called>>

SubscribeToStruct(type) == type \in Types /\ addSubscription(type)

SubscribeToAllStructs == addSubscription(Nil)

\* Mutant: the last element takes the place of the removed one.
WithoutSwap(list, i) == SubSeq([list EXCEPT ![i] = list[Len(list)]], 1, Len(list) - 1)

Without(list, i) == SubSeq(list, 1, i - 1) \o SubSeq(list, i + 1, Len(list))

\* The entry of subs stays: cancelling twice fails because the list no longer has
\* the subscription.
Unsubscribe(id) ==
  /\ id <= lastSubId
  /\ \/ /\ subs[id] = Nil
        /\ \E i \in DOMAIN all : all[i] = id /\ all' = Without(all, i)
        /\ UNCHANGED singles
     \/ /\ subs[id] # Nil
        /\ singles[Name(subs[id])] # Nil
        /\ LET list == singles[Name(subs[id])]
           IN  \E i \in DOMAIN list :
                 /\ list[i] = id
                 /\ singles' = [singles EXCEPT ![Name(subs[id])] =
                                  IF Len(list) = 1 THEN Nil ELSE Without(list, i)]
        /\ UNCHANGED all
  /\ UNCHANGED <<lastSubId, subs, calls, called>>

\* Mutant: subscribers to everything only hear what nobody asked for by name.
HandleStructEither(h, type) ==
  /\ calls[h].list = <<>>
  /\ calls' = [calls EXCEPT ![h] =
                 [type |-> type,
                  list |-> IF singles[Name(type)] = Nil THEN all ELSE singles[Name(type)]]]
  /\ called' = [called EXCEPT ![h] = <<>>]
  /\ UNCHANGED <<lastSubId, subs, singles, all>>

\* The call list is built, by value, under the lock.
HandleStruct(h, type) ==
  /\ calls[h].list = <<>>
  /\ calls' = [calls EXCEPT ![h] =
                 [type |-> type,
                  list |-> (IF singles[Name(type)] = Nil THEN <<>> ELSE singles[Name(type)])
                             \o all]]
  /\ called' = [called EXCEPT ![h] = <<>>]
  /\ UNCHANGED <<lastSubId, subs, singles, all>>

\* A callback for another type of the same name is skipped.
Wants(id, type) == subs[id] \in {type, Nil}

CallNext(h) ==
  /\ calls[h].list # <<>>
  /\ LET id == Head(calls[h].list)
     IN  called' = [called EXCEPT ![h] = IF Wants(id, calls[h].type) THEN Append(@, id) ELSE @]
  /\ calls' = [calls EXCEPT ![h].list = Tail(@)]
  /\ UNCHANGED <<lastSubId, subs, singles, all>>

Next ==
  \/ \E t \in Types : SubscribeToStruct(t)
  \/ SubscribeToAllStructs
  \/ \E id \in SubIds : Unsubscribe(id)
  \/ \E h \in Handlers : CallNext(h) \/ \E t \in Types : HandleStruct(h, t)

Spec == Init /\ [][Next]_vars

-----------------------------------------------------------------------------
(* Properties.                                                             *)

Increasing(list) == \A i, j \in DOMAIN list : i < j => list[i] < list[j]

\* The maps and lists have their types, and a struct name has a list only while
\* somebody is subscribed to it.
TypeOK ==
  /\ lastSubId \in 0..MaxSubs
  /\ subs \in Seq(Types \cup {Nil}) /\ Len(subs) = lastSubId
  /\ singles \in [StructNames -> (Seq(SubIds) \ {<<>>}) \cup {Nil}]
  /\ all \in Seq(SubIds)
  /\ calls \in [Handlers -> [type : Types \cup {Nil}, list : Seq(SubIds)]]
  /\ called \in [Handlers -> Seq(SubIds)]

\* Beside the types: a subscription is never in a list it does not belong to, nor twice in its own,
\* and the lists stay in subscription order through every cancellation.
ListsMatchSubs ==
  /\ TypeOK
  /\ Increasing(all)
  /\ \A i \in DOMAIN all : subs[all[i]] = Nil
  /\ \A n \in StructNames : singles[n] # Nil =>
       /\ Increasing(singles[n])
       /\ \A i \in DOMAIN singles[n] : LET t == subs[singles[n][i]]
                                       IN  t # Nil /\ Name(t) = n

SubscriptionOf(id) == [id |-> id, type |-> subs[id]]
Elements(list) == {list[i] : i \in DOMAIN list}

liveBar == {SubscriptionOf(id) :
              id \in Elements(all) \cup
                     UNION {Elements(singles[n]) : n \in {m \in StructNames : singles[m] # Nil}}}
dueBar  == [h \in Handlers |-> {SubscriptionOf(id) :
              id \in {i \in Elements(calls[h].list) : Wants(i, calls[h].type)}}]

Promise == INSTANCE PubSub WITH Publishers <- Handlers, last <- lastSubId,
                                live <- liveBar, due <- dueBar, got <- called

\* A struct reaches each subscription that was in place when HandleStruct built its
\* call list exactly once and in order, whoever subscribes or cancels meanwhile; a type
\* that only shares its name is left alone.
ImplementsPubSub == Promise!Spec
=============================================================================
