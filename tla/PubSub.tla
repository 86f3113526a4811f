------------------------------- MODULE PubSub -------------------------------
(***************************************************************************)
(* What a subscription manager promises.  A struct that is published goes  *)
(* to every subscription that was in place at that moment, once, to those  *)
(* for its type before those for everything, in the order of subscription; *)
(* what is subscribed or cancelled while it is on its way makes no         *)
(* difference.                                                             *)
(***************************************************************************)
EXTENDS Naturals, Sequences

CONSTANTS Types,       \* the struct types
          Publishers,  \* goroutines that publish
          Nil          \* the type of a subscription for everything

VARIABLES last,  \* the last subscription id
          live,  \* the subscriptions in place
          due,   \* what each publisher still has to deliver to
          got    \* the subscriptions its struct has reached, in order

vars == <<last, live, due, got>>

Subscriptions == [id : Nat, type : Types \cup {Nil}]

Init == /\ last = 0
        /\ live = {}
        /\ due = [p \in Publishers |-> {}]
        /\ got = [p \in Publishers |-> <<>>]

Subscribe(type) ==
  /\ last' = last + 1
  /\ live' = live \cup {[id |-> last', type |-> type]}
  /\ UNCHANGED <<due, got>>

Cancel(s) ==
  /\ live' = live \ {s}
  /\ UNCHANGED <<last, due, got>>

Publish(p, type) ==
  /\ due[p] = {}
  /\ due' = [due EXCEPT ![p] = {s \in live : s.type \in {type, Nil}}]
  /\ got' = [got EXCEPT ![p] = <<>>]
  /\ UNCHANGED <<last, live>>

Before(s, t) == IF (s.type = Nil) = (t.type = Nil) THEN s.id < t.id ELSE t.type = Nil

Deliver(p, s) ==
  /\ \A t \in due[p] \ {s} : Before(s, t)
  /\ due' = [due EXCEPT ![p] = @ \ {s}]
  /\ got' = [got EXCEPT ![p] = Append(@, s.id)]
  /\ UNCHANGED <<last, live>>

Next ==
  \/ \E t \in Types \cup {Nil} : Subscribe(t)
  \/ \E s \in live : Cancel(s)
  \/ \E p \in Publishers : \/ \E t \in Types : Publish(p, t)
                           \/ \E s \in due[p] : Deliver(p, s)

Spec == Init /\ [][Next]_vars
=============================================================================
