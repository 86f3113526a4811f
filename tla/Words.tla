------------------------------- MODULE Words -------------------------------
(***************************************************************************)
(* Machine words and bytes as the sets of their bits that are one: or,     *)
(* and, and shifts are union, intersection and translation.                *)
(***************************************************************************)
EXTENDS Integers, FiniteSetsExt

CONSTANT Nil   \* a value that is not there

Bits(number) == {i \in 0..30 : (number \div 2^i) % 2 = 1}
Number(bits) == MapThenSumSet(LAMBDA i : 2^i, bits)

Low(n)           == 0..(n - 1)
Zero             == {}
Ones             == Low(64)
Up(bits, n)      == {i + n : i \in bits}
Down(bits, n)    == {i - n : i \in {j \in bits : j >= n}}
=============================================================================
