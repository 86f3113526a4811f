------------------------------- MODULE CanId -------------------------------
(***************************************************************************)
(* The 29-bit CAN identifier (internal/converter/converter.go), as a word: *)
(* source in bits 0 to 7, PGN from bit 8, priority from bit 26, and bit 31 *)
(* for the extended format.  A PGN below 240 in its second byte (PDU1) is  *)
(* addressed: its low byte carries the destination.                        *)
(***************************************************************************)
EXTENDS Words

PduFormat(pgn) == Down(pgn \cap 8..15, 8)

\* The second byte is below 240 when one of its four high bits is zero.
Addressed(pgn) == ~(4..7 \subseteq PduFormat(pgn))

CanIDFromData(pgn, sourceID, priority, destination) ==
  LET placed == IF Addressed(pgn) THEN (pgn \cap 8..19) \cup destination ELSE pgn
  IN sourceID \cup Up(placed, 8) \cup Up(priority, 26) \cup {31}

DecodeCanID(id) ==
  LET pgn == Down(id \cap 8..25, 8)
  IN [SourceId |-> id \cap Low(8),
      Priority |-> Down(id \cap 26..28, 26),
      PGN      |-> IF Addressed(pgn) THEN pgn \cap 8..19 ELSE pgn,
      TargetId |-> IF Addressed(pgn) THEN pgn \cap Low(8) ELSE Low(8)]
=============================================================================
