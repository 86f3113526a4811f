----------------------------- MODULE FastPacket -----------------------------
(***************************************************************************)
(* Fast packets (internal/adapter/canadapter): sendFast cuts a payload     *)
(* into frames, the bus carries them, and at the receiver MultiBuilder and *)
(* sequence put them together again.                                       *)
(*                                                                         *)
(* A stream is one source and PGN.  The bytes of a frame are represented   *)
(* by the number of the message they were cut from; how many there are is  *)
(* kept.  The bus may lose, repeat and reorder frames, within a budget.    *)
(***************************************************************************)
EXTENDS Naturals, Sequences

CONSTANTS Streams,      \* the source and PGN pairs of the fast PGNs in use
          Lengths,      \* the payload lengths the application writes
          Writers,      \* the goroutines calling WritePgn
          SeqModulus,   \* sequence ids in use: 7 in the code
          MaxFrameNum,  \* the highest frame number: 31 in the code
          WireSize, MaxMessages, MaxFaults,  \* bounds for TLC
          Nil

FrameNums == 0..MaxFrameNum
SeqIds    == 0..(SeqModulus - 1)

\* What a writer is in the middle of: a message, its sequence id, and the number of the
\* next frame, or Nil before the id after it is stored.
Jobs == [msg : Nat, seq : SeqIds, next : FrameNums \cup {Nil}]

\* A sequence: the frames collected, and the bytes expected and received.
Partials == [zero : BOOLEAN, expected : Nat, received : Nat,
             contents : [FrameNums -> Nat \cup {Nil}]]

ASSUME FastPacketAssumption ==
  /\ Lengths \subseteq Nat
  /\ SeqModulus \in Nat \ {0}
  /\ MaxFrameNum \in Nat
  /\ {WireSize, MaxMessages, MaxFaults} \subseteq Nat
  /\ Nil \notin Nat \cup Jobs \cup Partials

VARIABLES seqIDMap,   \* stream -> the next sequence id; not guarded by a lock
          writing,    \* what each writer is in the middle of, or Nil
          wire,       \* the frames on their way
          sequences,  \* stream -> sequence id -> partial message, or Nil
          sent,       \* history: the messages accepted by sendFast, with their ids
          damaged,    \* history: the messages the bus lost or repeated a frame of
          headless,   \* history: the messages the bus lost frame 0 of
          delivered,  \* history: the packets handed to the packet handler
          faults      \* what is left of the fault budget

vars == <<seqIDMap, writing, wire, sequences, sent, damaged, headless, delivered, faults>>

Init == /\ seqIDMap = [s \in Streams |-> 0]
        /\ writing = [w \in Writers |-> Nil]
        /\ wire = <<>>
        /\ sequences = [s \in Streams |-> [i \in SeqIds |-> Nil]]
        /\ sent = <<>>
        /\ damaged = {}
        /\ headless = {}
        /\ delivered = {}
        /\ faults = MaxFaults

-----------------------------------------------------------------------------
(* The sender.                                                             *)

\* The continuation frames a payload needs: six bytes go into frame 0, seven
\* into each of the others.
calcFramesRequired(length) ==
  IF length <= 6 THEN 0
  ELSE (length - 6) \div 7 + (IF (length - 6) % 7 > 0 THEN 1 ELSE 0)

\* A payload that needs more frames than there are frame numbers is refused.
\* The sequence id is read from the map and the next one stored without a lock.
sendFast(w, s, length) ==
  /\ writing[w] = Nil
  /\ Len(sent) < MaxMessages
  /\ calcFramesRequired(length) <= MaxFrameNum
  /\ sent' = Append(sent, [stream |-> s, length |-> length, seq |-> seqIDMap[s]])
  /\ writing' = [writing EXCEPT ![w] =
                   [msg |-> Len(sent) + 1, seq |-> seqIDMap[s], next |-> Nil]]
  /\ UNCHANGED <<seqIDMap, wire, sequences, damaged, headless, delivered, faults>>

storeNextID(w) ==
  /\ writing[w] # Nil
  /\ writing[w].next = Nil
  /\ seqIDMap' = [seqIDMap EXCEPT ![sent[writing[w].msg].stream] =
                    (writing[w].seq + 1) % SeqModulus]
  /\ writing' = [writing EXCEPT ![w].next = 0]
  /\ UNCHANGED <<wire, sequences, sent, damaged, headless, delivered, faults>>

\* One round of sendFast's loop: WriteFrame of the next frame.
writeFrame(w) ==
  /\ writing[w] # Nil
  /\ writing[w].next # Nil
  /\ Len(wire) < WireSize
  /\ LET job == writing[w]
         m   == sent[job.msg]
     IN  /\ wire' = Append(wire, [stream |-> m.stream, seq |-> job.seq, num |-> job.next,
                                  total |-> IF job.next = 0 THEN m.length ELSE Nil,
                                  msg |-> job.msg])
         /\ writing' = [writing EXCEPT ![w] =
                          IF job.next < calcFramesRequired(m.length)
                          THEN [job EXCEPT !.next = @ + 1] ELSE Nil]
  /\ UNCHANGED <<seqIDMap, sequences, sent, damaged, headless, delivered, faults>>

-----------------------------------------------------------------------------
(* The receiver.                                                           *)

\* A new sequence, and what reset leaves.
emptySequence == [zero |-> FALSE, expected |-> 0, received |-> 0,
                  contents |-> [n \in FrameNums |-> Nil]]

SeqFor(f) == IF sequences[f.stream][f.seq] = Nil
             THEN emptySequence ELSE sequences[f.stream][f.seq]

\* Mutant: a second frame 0 does not reset the sequence.
addNoReset(q, f) ==
  IF f.num = 0
  THEN [q EXCEPT !.zero = TRUE, !.expected = f.total,
                 !.received = @ + 6, !.contents[0] = f.msg]
  ELSE IF ~q.zero \/ q.contents[f.num] # Nil
  THEN emptySequence
  ELSE [q EXCEPT !.received = @ + 7, !.contents[f.num] = f.msg]

\* Mutant: a second frame 0 is ignored.
addFirstZeroWins(q, f) ==
  IF f.num = 0
  THEN IF q.zero THEN q
       ELSE [q EXCEPT !.zero = TRUE, !.expected = f.total,
                      !.received = @ + 6, !.contents[0] = f.msg]
  ELSE IF ~q.zero \/ q.contents[f.num] # Nil
  THEN emptySequence
  ELSE [q EXCEPT !.received = @ + 7, !.contents[f.num] = f.msg]

\* sequence.add: frame 0 starts afresh, a frame before frame 0 or a repeated one
\* throws the partial message away.
add(q, f) ==
  IF f.num = 0
  THEN LET base == IF q.zero THEN emptySequence ELSE q
       IN  [base EXCEPT !.zero = TRUE, !.expected = f.total,
                        !.received = @ + 6, !.contents[0] = f.msg]
  ELSE IF ~q.zero \/ q.contents[f.num] # Nil
  THEN emptySequence
  ELSE [q EXCEPT !.received = @ + 7, !.contents[f.num] = f.msg]

\* sequence.complete collects contents from frame 0 on until it has enough bytes;
\* a gap on the way gives up the message without delivering it.
enough(q) == q.zero /\ q.received >= q.expected
collected(q) == {n \in FrameNums : n = 0 \/ 6 + 7 * (n - 1) < q.expected}
sparse(q) == \E n \in collected(q) : q.contents[n] = Nil

packet(s, q) == [stream |-> s, length |-> q.expected,
                 parts |-> [n \in collected(q) |-> q.contents[n]]]

\* HandleMessage and MultiBuilder.Add, for one frame of a fast PGN.
HandleMessage(f) ==
  LET q == add(SeqFor(f), f)
  IN  /\ sequences' = [sequences EXCEPT ![f.stream][f.seq] =
                         IF enough(q) THEN Nil ELSE q]
      /\ delivered' = IF enough(q) /\ ~sparse(q)
                      THEN delivered \cup {packet(f.stream, q)} ELSE delivered

-----------------------------------------------------------------------------
(* The bus.                                                                *)

Without(seq, i) == SubSeq(seq, 1, i - 1) \o SubSeq(seq, i + 1, Len(seq))

Deliver ==
  /\ wire # <<>>
  /\ HandleMessage(Head(wire))
  /\ wire' = Tail(wire)
  /\ UNCHANGED <<seqIDMap, writing, sent, damaged, headless, faults>>

Fault == faults > 0 /\ faults' = faults - 1

Lose ==
  /\ wire # <<>>
  /\ Fault
  /\ wire' = Tail(wire)
  /\ damaged' = damaged \cup {Head(wire).msg}
  /\ headless' = IF Head(wire).num = 0 THEN headless \cup {Head(wire).msg} ELSE headless
  /\ UNCHANGED <<seqIDMap, writing, sequences, sent, delivered>>

\* The frame is delivered and stays.
Repeat ==
  /\ wire # <<>>
  /\ Fault
  /\ HandleMessage(Head(wire))
  /\ damaged' = damaged \cup {Head(wire).msg}
  /\ UNCHANGED <<seqIDMap, writing, wire, sent, headless>>

\* A frame overtakes the one before it; no frame overtakes a frame 0, and frame 0
\* overtakes none.
Overtake ==
  /\ Len(wire) > 1
  /\ wire[1].num > 0 /\ wire[2].num > 0
  /\ Fault
  /\ HandleMessage(wire[2])
  /\ wire' = Without(wire, 2)
  /\ UNCHANGED <<seqIDMap, writing, sent, damaged, headless>>

-----------------------------------------------------------------------------

Next ==
  \/ \E w \in Writers : \/ \E s \in Streams, n \in Lengths : sendFast(w, s, n)
                        \/ storeNextID(w)
                        \/ writeFrame(w)
  \/ Deliver
  \/ Lose
  \/ Repeat
  \/ Overtake

Spec == Init /\ [][Next]_vars

-----------------------------------------------------------------------------
(* Properties.                                                             *)

Frames == [stream : Streams, seq : SeqIds, num : FrameNums,
           total : Nat \cup {Nil}, msg : Nat]

PartialMessage(q) == q \in Partials /\ (q.zero \/ q = emptySequence)

\* Types; and a sequence without its frame 0 holds nothing, so that a late frame
\* of an older message cannot be waiting for it.
TypeOK ==
  /\ seqIDMap \in [Streams -> SeqIds]
  /\ writing \in [Writers -> Jobs \cup {Nil}]
  /\ \A w \in Writers : writing[w] # Nil => writing[w].msg \in DOMAIN sent
  /\ wire \in Seq(Frames)
  /\ \A s \in Streams, i \in SeqIds :
       sequences[s][i] # Nil => PartialMessage(sequences[s][i])
  /\ headless \subseteq damaged
  /\ damaged \subseteq DOMAIN sent
  /\ faults \in 0..MaxFaults

\* The packet that carries message m whole.
PacketOf(m) ==
  LET n == calcFramesRequired(sent[m].length)
  IN  [stream |-> sent[m].stream, length |-> sent[m].length,
       parts |-> [i \in 0..n |-> m]]

\* Every frame of m has been written and has left the wire.
Through(m) == /\ \A w \in Writers : writing[w] # Nil => writing[w].msg # m
              /\ \A i \in DOMAIN wire : wire[i].msg # m

\* Beside the types: what the receiver hands on is a message somebody sent, whole, though sequence
\* ids are reused and partial messages are kept without a time limit.  The one way
\* it joins frames of two messages is that frame 0 of one of them was lost: its
\* other frames may then fill the gaps of an older partial message.
DeliveredIsSent ==
  /\ TypeOK
  /\ \A d \in delivered :
       \/ \E m \in DOMAIN sent : d = PacketOf(m)
       \/ \E n \in DOMAIN d.parts : d.parts[n] \in headless

\* A message none of whose frames was lost or repeated is delivered, whatever
\* earlier messages left behind under its sequence id.
IntactIsDelivered ==
  \A m \in DOMAIN sent : Through(m) /\ m \notin damaged => PacketOf(m) \in delivered
=============================================================================
