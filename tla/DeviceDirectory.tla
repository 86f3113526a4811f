--------------------------- MODULE DeviceDirectory ---------------------------
(***************************************************************************)
(* What the known-device registry promises its readers, stated without the *)
(* address index: every NAME is at the usable address it claimed last,     *)
(* unless another NAME claimed that address later; what a device says      *)
(* about itself is credited to the NAME at its address, or kept aside      *)
(* until the owner of the address is known.  NAME 0 is nobody's: what the  *)
(* device that claims with it says is kept aside too, the latest only.     *)
(***************************************************************************)
CONSTANTS Usable,    \* the claimable addresses
          Elsewhere, \* the source addresses that place a device nowhere
          Names, Kinds, Values,
          ListKinds, \* the kinds that are lists
          EmptyList, \* the value that is a list with no entry
          Nil

VARIABLES at,     \* where each NAME is: an address, or Nil
          says,   \* what each NAME has said about itself
          aside   \* what was said from an address nobody has claimed

NothingSaid == [k \in Kinds |-> Nil]

Init == /\ at = [n \in Names |-> Nil]
        /\ says = [n \in Names |-> NothingSaid]
        /\ aside = [a \in Usable |-> NothingSaid]

\* What was kept aside is credited to the claimant, an empty list as nothing.
Credited(info) ==
  [k \in Kinds |-> IF k \in ListKinds /\ info[k] = EmptyList THEN Nil ELSE info[k]]

\* n announces address a.  Whoever was there is nowhere now.
Claim(n, a) ==
  /\ at' = [m \in Names |-> IF m = n THEN a
                            ELSE IF at[m] = a THEN Nil ELSE at[m]]
  /\ says' = [says EXCEPT ![n] =
                [k \in Kinds |-> IF says[n][k] = Nil THEN Credited(aside[a])[k]
                                                     ELSE says[n][k]]]
  /\ aside' = [aside EXCEPT ![a] = NothingSaid]

\* n announces that it has no usable address.
Withdraw(n) ==
  /\ at' = [at EXCEPT ![n] = Nil]
  /\ UNCHANGED <<says, aside>>

\* The device at address a says v about itself.
Say(a, k, v) ==
  \/ \E n \in Names \ {0} : /\ at[n] = a
                            /\ says' = [says EXCEPT ![n] = [@ EXCEPT ![k] = v]]
                            /\ UNCHANGED <<at, aside>>
  \/ /\ 0 \in Names /\ at[0] = a
     /\ aside' = [aside EXCEPT ![a] = [says[0] EXCEPT ![k] = v]]
     /\ UNCHANGED <<at, says>>
  \/ /\ \A n \in Names : at[n] # a
     /\ aside' = [aside EXCEPT ![a] = [@ EXCEPT ![k] = v]]
     /\ UNCHANGED <<at, says>>

Next ==
  \/ \E n \in Names, a \in Usable : Claim(n, a)
  \/ Elsewhere # {} /\ \E n \in Names : Withdraw(n)
  \/ \E a \in Usable, k \in Kinds, v \in Values : Say(a, k, v)

Spec == Init /\ [][Next]_<<at, says, aside>>
=============================================================================
