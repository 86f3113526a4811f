---------------------------- MODULE MCAddressBus ----------------------------
EXTENDS AddressBus

\* Two nodes with every fault and order, three nodes by themselves, and two
\* that may not choose.
MCBounds == {[nodes |-> {9, 10}, fault |-> 1, order |-> 2],
             [nodes |-> {1, 9, 10}, fault |-> 0, order |-> 0],
             [nodes |-> {1, 2}, fault |-> 1, order |-> 0]}
=============================================================================
