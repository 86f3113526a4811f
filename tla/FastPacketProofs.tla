-------------------------- MODULE FastPacketProofs --------------------------
(***************************************************************************)
(* Theorems about module FastPacket with one writer, for any number of     *)
(* messages, streams and faults, any lengths and any sequence ids: what    *)
(* the receiver hands on was sent, and what the bus left intact it hands   *)
(* on.  And about the identifier the frames carry (module CanId).          *)
(***************************************************************************)
EXTENDS FastPacket, FiniteSetTheorems, SequenceTheorems, TLAPS

\* sendFast is called by one goroutine at a time: the ids are not guarded by a lock.
OneWriter == \A v, w \in Writers : v = w

Last(m) == calcFramesRequired(sent[m].length)

-----------------------------------------------------------------------------
(* The inductive invariant.                                                *)

\* The frames of message m that the receiver has yet to get: on the wire, or not
\* written yet.
OnWire(m)    == {wire[i].num : i \in {j \in DOMAIN wire : wire[j].msg = m}}
Unwritten(m) == {n \in 0..Last(m) : \E w \in Writers :
                    /\ writing[w] # Nil
                    /\ writing[w].msg = m
                    /\ writing[w].next = Nil \/ writing[w].next <= n}
Pending(m)   == OnWire(m) \cup Unwritten(m)

Messages == [stream : Streams, length : Lengths, seq : SeqIds]

\* A frame was cut from a message.
Cut(f) == /\ f.msg \in DOMAIN sent
          /\ f.stream = sent[f.msg].stream
          /\ f.seq = sent[f.msg].seq
          /\ f.num \in 0..Last(f.msg)
          /\ f.num = 0 => f.total = sent[f.msg].length

\* The one writer is busy with the message sent last.
WritesLast(j) ==
  /\ j.msg = Len(sent)
  /\ sent # <<>>
  /\ j.seq = sent[j.msg].seq
  /\ j.next # Nil => j.next \in 0..Last(j.msg)

SenderOK ==
  /\ seqIDMap \in [Streams -> SeqIds]
  /\ sent \in Seq(Messages)
  /\ \A m \in DOMAIN sent : Last(m) <= MaxFrameNum
  /\ writing \in [Writers -> Jobs \cup {Nil}]
  /\ \A w \in Writers : writing[w] # Nil => WritesLast(writing[w])

WireOK ==
  /\ wire \in Seq(Frames)
  /\ \A i \in DOMAIN wire : Cut(wire[i])
  /\ faults \in 0..MaxFaults
  /\ headless \subseteq damaged
  /\ damaged \subseteq DOMAIN sent

ReceiverOK ==
  /\ sequences \in [Streams -> [SeqIds -> Partials \cup {Nil}]]
  /\ \A s \in Streams, i \in SeqIds :
       sequences[s][i] # Nil => PartialMessage(sequences[s][i])

\* The wire carries the frames in the order in which they were written, and what is not
\* written yet comes after them.
Ordered ==
  /\ \A i, j \in DOMAIN wire : i < j =>
       \/ wire[i].msg < wire[j].msg
       \/ wire[i].msg = wire[j].msg /\ wire[i].num < wire[j].num
  /\ \A i \in DOMAIN wire : \A n \in Unwritten(wire[i].msg) : wire[i].num < n

\* Once frame 0 of a message has passed, everything sent earlier has.
Earlier ==
  \A m, k \in DOMAIN sent : k < m /\ 0 \notin Pending(m) => Pending(k) = {}

OrderInv == SenderOK /\ WireOK /\ ReceiverOK /\ Ordered /\ Earlier

\* What a partial message holds was cut from the message its frame 0 was cut from, or
\* from one whose own frame 0 was lost.
Sound(s, q) ==
  LET m == q.contents[0]
  IN  /\ m \in DOMAIN sent
      /\ sent[m].stream = s
      /\ sent[m].length = q.expected
      /\ \A n \in FrameNums : q.contents[n] \in {Nil, m} \cup headless

\* The frames that follow frame 0 of message m do not meet another message's.
Own(m) ==
  LET q == sequences[sent[m].stream][sent[m].seq]
  IN  q # Nil /\ q.zero => q.contents[0] = m

Genuine(d) == \/ \E m \in DOMAIN sent : d = PacketOf(m)
              \/ \E n \in DOMAIN d.parts : d.parts[n] \in headless

SoundInv ==
  /\ \A s \in Streams, i \in SeqIds :
       sequences[s][i] # Nil /\ sequences[s][i].zero => Sound(s, sequences[s][i])
  /\ \A m \in DOMAIN sent : Pending(m) # {} /\ 0 \notin Pending(m) /\ m \notin headless => Own(m)
  /\ \A d \in delivered : Genuine(d)

\* The partial message after the frames `have` of message m, frame 0 among them.
Building(m, have) ==
  [zero |-> TRUE, expected |-> sent[m].length,
   received |-> 6 + 7 * Cardinality(have \ {0}),
   contents |-> [n \in FrameNums |-> IF n \in have THEN m ELSE Nil]]

\* An undamaged message is on its way whole, half received, or delivered.
Intact(m) ==
  \/ Pending(m) = 0..Last(m)
  \/ /\ Pending(m) # {}
     /\ 0 \notin Pending(m)
     /\ sequences[sent[m].stream][sent[m].seq] = Building(m, 0..Last(m) \ Pending(m))
  \/ Pending(m) = {} /\ PacketOf(m) \in delivered

IntactInv == \A m \in DOMAIN sent : m \notin damaged => Intact(m)

-----------------------------------------------------------------------------
(* What the operators of the sender and the receiver compute.              *)

\* The frames calcFramesRequired counts are those that carry a byte of the payload, and
\* fewer of them carry fewer bytes.
LEMMA FrameCount ==
  ASSUME NEW length \in Nat
  PROVE  /\ calcFramesRequired(length) \in Nat
         /\ \A n \in Nat : (n = 0 \/ 6 + 7 * (n - 1) < length) <=> n <= calcFramesRequired(length)
         /\ \A k \in Nat : 6 + 7 * k >= length <=> k >= calcFramesRequired(length)
<1>1. CASE length <= 6
  BY <1>1 DEF calcFramesRequired
<1>2. CASE length > 6
  <2> DEFINE rest == length - 6
             d    == rest \div 7
             c    == IF rest % 7 > 0 THEN d + 1 ELSE d
  <2>1. rest \in Nat /\ rest > 0
    BY <1>2
  <2>2. d \in Nat /\ 7 * d <= rest /\ rest < 7 * d + 7 /\ (rest % 7 = 0 <=> rest = 7 * d)
    BY <2>1
  <2>3. rest % 7 \in Nat
    BY <2>1
  <2>4. calcFramesRequired(length) = c
    BY <1>2, <2>2 DEF calcFramesRequired
  <2> HIDE DEF d
  <2>5. c \in Nat /\ 7 * c >= rest /\ 7 * c < rest + 7
    BY <2>1, <2>2, <2>3
  <2> HIDE DEF c
  <2> QED
    BY <1>2, <2>1, <2>4, <2>5
<1> QED
  BY <1>1, <1>2

\* The lengths of the messages sent are lengths, and their frames have frame numbers.
LEMMA MessageFacts ==
  ASSUME SenderOK, NEW m \in DOMAIN sent
  PROVE  /\ sent[m] \in Messages
         /\ sent[m].stream \in Streams /\ sent[m].seq \in SeqIds
         /\ sent[m].length \in Nat
         /\ Last(m) \in Nat
         /\ 0..Last(m) \subseteq FrameNums
         /\ m \in Nat /\ m # Nil
<1>1. sent[m] \in Messages /\ m \in Nat
  BY DEF SenderOK
<1>2. sent[m].length \in Nat
  BY <1>1, FastPacketAssumption DEF Messages
<1>3. Last(m) \in Nat
  BY <1>2, FrameCount DEF Last
<1>4. Last(m) <= MaxFrameNum
  BY DEF SenderOK
<1> QED
  BY <1>1, <1>2, <1>3, <1>4, FastPacketAssumption DEF Messages, FrameNums

\* sequence.complete collects the frames a message of the expected length has.
LEMMA Collects ==
  ASSUME SenderOK, NEW m \in DOMAIN sent, NEW q, q.expected = sent[m].length
  PROVE  collected(q) = 0..Last(m)
<1>1. \A n \in FrameNums : n \in Nat
  BY DEF FrameNums
<1> QED
  BY <1>1, MessageFacts, FrameCount DEF collected, Last

LEMMA EmptySequence ==
  /\ emptySequence \in Partials /\ PartialMessage(emptySequence) /\ ~emptySequence.zero
  /\ \A n \in FrameNums : emptySequence.contents[n] = Nil
BY DEF emptySequence, Partials, PartialMessage

\* The partial message a frame meets.
LEMMA Meets ==
  ASSUME ReceiverOK, NEW f, f.stream \in Streams, f.seq \in SeqIds
  PROVE  SeqFor(f) \in Partials /\ PartialMessage(SeqFor(f))
<1>1. sequences[f.stream][f.seq] \in Partials \cup {Nil}
  BY DEF ReceiverOK
<1>2. sequences[f.stream][f.seq] # Nil => PartialMessage(sequences[f.stream][f.seq])
  BY DEF ReceiverOK
<1> QED
  BY <1>1, <1>2, EmptySequence DEF SeqFor

\* sequence.add: what frame 0 leaves, and what another frame leaves.
LEMMA Adds ==
  ASSUME NEW q \in Partials, PartialMessage(q), NEW f \in Frames, f.num = 0 => f.total \in Nat
  PROVE  /\ add(q, f) \in Partials
         /\ PartialMessage(add(q, f))
         /\ f.num = 0 =>
              /\ add(q, f).zero
              /\ add(q, f).expected = f.total
              /\ add(q, f).received = 6
              /\ add(q, f).contents = [n \in FrameNums |-> IF n = 0 THEN f.msg ELSE Nil]
         /\ f.num > 0 =>
              \/ add(q, f) = emptySequence /\ (~q.zero \/ q.contents[f.num] # Nil)
              \/ /\ q.zero /\ q.contents[f.num] = Nil
                 /\ add(q, f).zero
                 /\ add(q, f).expected = q.expected
                 /\ add(q, f).received = q.received + 7
                 /\ add(q, f).contents = [q.contents EXCEPT ![f.num] = f.msg]
<1>0. f.num \in FrameNums /\ f.msg \in Nat /\ f.num \in Nat
  BY DEF Frames, FrameNums
<1>1. CASE f.num = 0
  <2>1. 0 \in FrameNums
    BY FastPacketAssumption DEF FrameNums
  <2> DEFINE base == IF q.zero THEN emptySequence ELSE q
             e0 == emptySequence
             e1 == [e0 EXCEPT !.zero = TRUE]
             e2 == [e1 EXCEPT !.expected = f.total]
             e3 == [e2 EXCEPT !.received = 6]
             e4 == [e3 EXCEPT !.contents[0] = f.msg]
  <2>2. base = emptySequence
    BY DEF PartialMessage
  <2>3. add(q, f) = [emptySequence EXCEPT !.zero = TRUE, !.expected = f.total,
                                          !.received = @ + 6, !.contents[0] = f.msg]
    BY <1>1, <2>2 DEF add
  <2>4. e0 \in Partials /\ e0.received = 0 /\ e0.contents = [n \in FrameNums |-> Nil]
    BY DEF emptySequence, Partials
  <2>5. add(q, f) = e4
    <3> HIDE DEF e0
    <3>1. add(q, f) = [e0 EXCEPT !.zero = TRUE, !.expected = f.total,
                                 !.received = e0.received + 6, !.contents[0] = f.msg]
      BY <2>3 DEF e0
    <3>2. e0.received + 6 = 6
      BY <2>4
    <3> QED
      BY <3>1, <3>2
  <2>6. e1 \in Partials /\ e1.zero /\ e1.contents = e0.contents
    <3> HIDE DEF e0
    <3> QED
      BY <2>4 DEF Partials
  <2>7. e2 \in Partials /\ e2.zero /\ e2.expected = f.total /\ e2.contents = e0.contents
    <3> HIDE DEF e1
    <3> QED
      BY <1>1, <2>6 DEF Partials
  <2>8. /\ e3 \in Partials /\ e3.zero /\ e3.expected = f.total /\ e3.received = 6
        /\ e3.contents = e0.contents
    <3> HIDE DEF e2
    <3> QED
      BY <2>7 DEF Partials
  <2>9. /\ e4 \in Partials /\ e4.zero /\ e4.expected = f.total /\ e4.received = 6
        /\ e4.contents = [e0.contents EXCEPT ![0] = f.msg]
    <3> HIDE DEF e3
    <3> QED
      BY <1>0, <2>1, <2>8 DEF Partials
  <2>10. [e0.contents EXCEPT ![0] = f.msg]
           = [n \in FrameNums |-> IF n = 0 THEN f.msg ELSE Nil]
    BY <2>1, <2>4
  <2> HIDE DEF e4
  <2>11. PartialMessage(e4)
    BY <2>9 DEF Partials, PartialMessage
  <2> QED
    BY <1>1, <2>5, <2>9, <2>10, <2>11
<1>2. CASE f.num > 0 /\ (~q.zero \/ q.contents[f.num] # Nil)
  BY <1>0, <1>2, EmptySequence DEF add
<1>3. CASE f.num > 0 /\ q.zero /\ q.contents[f.num] = Nil
  <2> DEFINE r1 == [q EXCEPT !.received = q.received + 7]
             r2 == [r1 EXCEPT !.contents[f.num] = f.msg]
  <2>1. add(q, f) = [q EXCEPT !.received = @ + 7, !.contents[f.num] = f.msg]
    BY <1>0, <1>3 DEF add
  <2>2. add(q, f) = r2
    BY <2>1
  <2>3. /\ r1 \in Partials /\ r1.zero /\ r1.expected = q.expected
        /\ r1.received = q.received + 7 /\ r1.contents = q.contents
    BY <1>3 DEF Partials
  <2>4. /\ r2 \in Partials /\ r2.zero /\ r2.expected = q.expected
        /\ r2.received = q.received + 7 /\ r2.contents = [q.contents EXCEPT ![f.num] = f.msg]
    <3> HIDE DEF r1
    <3> QED
      BY <1>0, <2>3 DEF Partials
  <2> HIDE DEF r2
  <2>5. PartialMessage(r2)
    BY <2>4 DEF Partials, PartialMessage
  <2> QED
    BY <1>0, <1>3, <2>2, <2>4, <2>5
<1> QED
  BY <1>0, <1>1, <1>2, <1>3

-----------------------------------------------------------------------------
(* The steps of the sender.                                                *)

\* A step of the sender leaves what was pending pending, and a message it begins is pending
\* as a whole.
SenderMoves ==
  /\ UNCHANGED <<sequences, damaged, headless, delivered>>
  /\ DOMAIN sent \subseteq DOMAIN sent'
  /\ \A m \in DOMAIN sent : /\ sent'[m] = sent[m]
                            /\ Last(m)' = Last(m)
                            /\ Pending(m)' = Pending(m)
  /\ \A m \in DOMAIN sent' \ DOMAIN sent : Pending(m)' = 0..Last(m)'

\* With one writer, what is unwritten is that writer's.
LEMMA OneWriterWrites ==
  ASSUME OneWriter, NEW w \in Writers, NEW m
  PROVE  Unwritten(m) = {n \in 0..Last(m) : /\ writing[w] # Nil
                                            /\ writing[w].msg = m
                                            /\ writing[w].next = Nil \/ writing[w].next <= n}
<1>1. \A v \in Writers : v = w
  BY DEF OneWriter
<1> QED
  BY <1>1 DEF Unwritten

LEMMA SendMoves ==
  ASSUME OneWriter, OrderInv, NEW w \in Writers, NEW s \in Streams, NEW length \in Lengths,
         sendFast(w, s, length)
  PROVE  SenderMoves /\ OrderInv'
<1>0. PICK new \in Nat : new = Len(sent) + 1
  BY DEF OrderInv, SenderOK
<1>00. PICK id \in SeqIds : id = seqIDMap[s]
  BY DEF OrderInv, SenderOK
<1> DEFINE m0 == [stream |-> s, length |-> length, seq |-> id]
           j  == [msg |-> new, seq |-> id, next |-> Nil]
<1>1. sent \in Seq(Messages) /\ m0 \in Messages /\ Len(sent) \in Nat
  BY DEF OrderInv, SenderOK, Messages
<1>2. /\ sent' = Append(sent, m0)
      /\ writing' = [writing EXCEPT ![w] = j]
      /\ UNCHANGED <<seqIDMap, wire, sequences, damaged, headless, delivered, faults>>
  BY <1>0, <1>00 DEF sendFast
<1>3. /\ sent' \in Seq(Messages) /\ Len(sent') = new
      /\ DOMAIN sent = 1..Len(sent) /\ DOMAIN sent' = 1..new
      /\ \A m \in DOMAIN sent : sent'[m] = sent[m]
      /\ sent'[new] = m0
  BY <1>0, <1>1, <1>2
<1>4. \A m \in DOMAIN sent : Last(m)' = Last(m)
  BY <1>3 DEF Last
<1>5. Last(new)' = calcFramesRequired(length) /\ Last(new)' <= MaxFrameNum
  BY <1>3 DEF Last, sendFast
<1>6. \A v \in Writers : v = w
  BY DEF OneWriter
<1>7. Last(new)' \in Nat
  BY <1>5, FrameCount, FastPacketAssumption
<1>8. writing \in [Writers -> Jobs \cup {Nil}]
  BY DEF OrderInv, SenderOK
<1>9. j \in Jobs
  BY <1>1 DEF OrderInv, SenderOK, Jobs
<1>10. j # Nil
  BY <1>9, FastPacketAssumption
<1>11. writing'[w] = j /\ writing[w] = Nil
  BY <1>2, <1>8 DEF sendFast
<1>12. SenderOK'
  <2>1. \A m \in DOMAIN sent' : Last(m)' <= MaxFrameNum
    BY <1>0, <1>3, <1>4, <1>5 DEF OrderInv, SenderOK
  <2>2. writing' \in [Writers -> Jobs \cup {Nil}]
    BY <1>2, <1>8, <1>9
  <2>3. WritesLast(j)'
    BY <1>0, <1>1, <1>3 DEF WritesLast
  <2>4. \A v \in Writers : writing'[v] # Nil => WritesLast(writing[v])'
    BY <1>6, <1>11, <2>3, Zenon DEF WritesLast
  <2> QED
    BY <1>2, <1>3, <2>1, <2>2, <2>4 DEF OrderInv, SenderOK
<1>13. WireOK'
  <2>1. \A i \in DOMAIN wire : Cut(wire[i])'
    BY <1>2, <1>3, <1>4 DEF OrderInv, WireOK, Cut
  <2> QED
    BY <1>2, <1>3, <2>1 DEF OrderInv, WireOK
<1>14. ReceiverOK'
  BY <1>2 DEF OrderInv, ReceiverOK
<1>15. \A m : OnWire(m)' = OnWire(m)
  BY <1>2 DEF OnWire
<1>16. OnWire(new) = {}
  BY <1>0, <1>1, <1>3 DEF OnWire, OrderInv, WireOK, Cut
<1>17. \A m : Unwritten(m) = {}
  BY <1>6, <1>11 DEF Unwritten
<1>18. \A m \in DOMAIN sent : Unwritten(m)' = {}
  BY <1>0, <1>1, <1>3, <1>6, <1>11 DEF Unwritten
<1>19. Unwritten(new)' = 0..Last(new)'
  BY <1>6, <1>10, <1>11 DEF Unwritten
<1>20. SenderMoves
  <2>1. \A m \in DOMAIN sent : Pending(m)' = Pending(m)
    BY <1>15, <1>17, <1>18 DEF Pending
  <2>2. Pending(new)' = 0..Last(new)'
    BY <1>15, <1>16, <1>19 DEF Pending
  <2>3. \A m \in DOMAIN sent' \ DOMAIN sent : m = new
    BY <1>0, <1>1, <1>3
  <2>4. DOMAIN sent \subseteq DOMAIN sent'
    BY <1>0, <1>1, <1>3
  <2> QED
    BY <1>2, <1>3, <1>4, <2>1, <2>2, <2>3, <2>4 DEF SenderMoves
<1>21. Ordered'
  BY <1>2, <1>18 DEF OrderInv, Ordered, WireOK, Cut
<1>22. Earlier'
  <2> SUFFICES ASSUME NEW m \in DOMAIN sent', NEW k \in DOMAIN sent', k < m,
                      0 \notin Pending(m)'
               PROVE  Pending(k)' = {}
    BY DEF Earlier
  <2>1. m # new
    BY <1>7, <1>19 DEF Pending
  <2>2. m \in DOMAIN sent /\ k \in DOMAIN sent
    BY <1>0, <1>1, <1>3, <2>1
  <2> QED
    BY <1>20, <2>2 DEF SenderMoves, OrderInv, Earlier
<1> QED
  BY <1>12, <1>13, <1>14, <1>20, <1>21, <1>22 DEF OrderInv

LEMMA StoreMoves ==
  ASSUME OneWriter, OrderInv, NEW w \in Writers, storeNextID(w)
  PROVE  SenderMoves /\ OrderInv'
<1>1. PICK j \in Jobs : j = writing[w] /\ j # Nil
  BY DEF OrderInv, SenderOK, storeNextID
<1> DEFINE i == [j EXCEPT !.next = 0]
<1>2. /\ i \in Jobs /\ i.msg = j.msg /\ i.seq = j.seq /\ i.next = 0 /\ j.next = Nil
  BY <1>1, FastPacketAssumption DEF storeNextID, Jobs, FrameNums
<1>3. i # Nil /\ 0 # Nil
  BY <1>2, FastPacketAssumption
<1>4. /\ writing' = [writing EXCEPT ![w] = i]
      /\ UNCHANGED <<wire, sequences, sent, damaged, headless, delivered, faults>>
  BY <1>1 DEF storeNextID
<1>5. WritesLast(j)
  BY <1>1 DEF OrderInv, SenderOK
<1>6. j.msg \in DOMAIN sent
  BY <1>5 DEF WritesLast, OrderInv, SenderOK
<1>7. seqIDMap' \in [Streams -> SeqIds]
  <2>1. (j.seq + 1) % SeqModulus \in SeqIds
    BY <1>1, FastPacketAssumption DEF Jobs, SeqIds
  <2> QED
    BY <1>1, <2>1 DEF storeNextID, OrderInv, SenderOK
<1>8. \A v \in Writers : v = w
  BY DEF OneWriter
<1>9. writing' \in [Writers -> Jobs \cup {Nil}] /\ writing'[w] = i
  BY <1>2, <1>4 DEF OrderInv, SenderOK
<1>10. WritesLast(i)'
  <2>1. 0 \in 0..Last(j.msg)
    BY <1>6, MessageFacts DEF OrderInv
  <2> QED
    BY <1>2, <1>4, <1>5, <2>1 DEF WritesLast, Last
<1>11. \A m : Last(m)' = Last(m)
  BY <1>4 DEF Last
<1>12. SenderOK'
  <2>1. \A v \in Writers : writing'[v] # Nil => WritesLast(writing[v])'
    BY <1>8, <1>9, <1>10, Zenon DEF WritesLast
  <2> QED
    BY <1>4, <1>7, <1>9, <1>11, <2>1 DEF OrderInv, SenderOK
<1>13. WireOK' /\ ReceiverOK'
  BY <1>4, <1>11 DEF OrderInv, WireOK, Cut, ReceiverOK
<1>14. \A m \in DOMAIN sent : Unwritten(m)' = Unwritten(m)
  <2> SUFFICES ASSUME NEW m \in DOMAIN sent PROVE Unwritten(m)' = Unwritten(m)
    OBVIOUS
  <2>1. \A n \in 0..Last(m) : 0 <= n
    BY MessageFacts DEF OrderInv
  <2>2. Unwritten(m) = {n \in 0..Last(m) : j.msg = m}
    BY <1>1, <1>2, <1>8 DEF Unwritten
  <2>3. Unwritten(m)' = {n \in 0..Last(m) : j.msg = m}
    <3> HIDE DEF i
    <3> QED
      BY <1>2, <1>3, <1>8, <1>9, <1>11, <2>1 DEF Unwritten
  <2> QED
    BY <2>2, <2>3
<1>15. \A m \in DOMAIN sent : Pending(m)' = Pending(m)
  BY <1>4, <1>14 DEF Pending, OnWire
<1>16. SenderMoves
  BY <1>4, <1>11, <1>15 DEF SenderMoves
<1>17. Ordered'
  BY <1>4, <1>14 DEF OrderInv, Ordered, WireOK, Cut
<1>18. Earlier'
  BY <1>4, <1>15 DEF OrderInv, Earlier
<1> QED
  BY <1>12, <1>13, <1>16, <1>17, <1>18 DEF OrderInv

LEMMA WriteMoves ==
  ASSUME OneWriter, OrderInv, NEW w \in Writers, writeFrame(w)
  PROVE  SenderMoves /\ OrderInv'
<1>1. PICK j \in Jobs : j = writing[w] /\ j # Nil
  BY DEF OrderInv, SenderOK, writeFrame
<1>2. WritesLast(j) /\ j.next # Nil
  BY <1>1 DEF OrderInv, SenderOK, writeFrame
<1>3. PICK m \in DOMAIN sent, n \in Nat : m = j.msg /\ n = j.next /\ n \in 0..Last(m)
  BY <1>2 DEF WritesLast, OrderInv, SenderOK
<1>4. /\ m = Len(sent) /\ j.seq = sent[m].seq /\ m \in Nat /\ n \in Nat /\ n \in FrameNums
      /\ Last(m) \in Nat /\ 0..Last(m) \subseteq FrameNums
  BY <1>2, <1>3, MessageFacts DEF WritesLast, OrderInv
<1> DEFINE total == IF n = 0 THEN sent[m].length ELSE Nil
           f == [stream |-> sent[m].stream, seq |-> j.seq, num |-> n, total |-> total, msg |-> m]
           i == IF n < Last(m) THEN [j EXCEPT !.next = n + 1] ELSE Nil
<1>5. /\ wire' = Append(wire, f)
      /\ writing' = [writing EXCEPT ![w] = i]
      /\ UNCHANGED <<seqIDMap, sequences, sent, damaged, headless, delivered, faults>>
  BY <1>1, <1>3 DEF writeFrame, Last
<1>6. \A v \in Writers : v = w
  BY DEF OneWriter
<1>7. \A k : Last(k)' = Last(k)
  BY <1>5 DEF Last
<1>8. f \in Frames /\ Cut(f)'
  <2>1. f \in Frames
    BY <1>3, <1>4, MessageFacts DEF Frames, OrderInv
  <2>2. Cut(f)
    BY <1>3, <1>4 DEF Cut
  <2> QED
    BY <1>5, <2>1, <2>2 DEF Cut, Last
<1>9. i # Nil => /\ n < Last(m) /\ i \in Jobs /\ i.msg = m /\ i.seq = j.seq
                 /\ i.next = n + 1 /\ i.next # Nil
  <2> SUFFICES ASSUME i # Nil
               PROVE  /\ n < Last(m) /\ i \in Jobs /\ i.msg = m /\ i.seq = j.seq
                      /\ i.next = n + 1 /\ i.next # Nil
    BY Zenon
  <2>1. n < Last(m) /\ i = [j EXCEPT !.next = n + 1]
    OBVIOUS
  <2>2. n + 1 \in FrameNums /\ n + 1 \in Nat
    BY <1>4, <2>1
  <2> DEFINE k == n + 1
  <2>3. i = [j EXCEPT !.next = k] /\ k \in FrameNums /\ k # Nil
    BY <2>1, <2>2, FastPacketAssumption
  <2> HIDE DEF i, k
  <2>4. i \in Jobs /\ i.msg = j.msg /\ i.seq = j.seq /\ i.next = k
    BY <2>3 DEF Jobs
  <2> QED
    BY <1>3, <2>1, <2>3, <2>4 DEF k
<1>10. writing' \in [Writers -> Jobs \cup {Nil}] /\ writing'[w] = i
  BY <1>5, <1>9 DEF OrderInv, SenderOK
<1>11. n < Last(m) <=> i # Nil
  <2>1. [j EXCEPT !.next = n + 1] \in Jobs \/ ~(n < Last(m))
    BY <1>4 DEF Jobs
  <2> QED
    BY <2>1, FastPacketAssumption
<1>12. SenderOK'
  <2> HIDE DEF i
  <2>1. \A v \in Writers : writing'[v] # Nil => WritesLast(writing[v])'
    <3> SUFFICES ASSUME NEW v \in Writers, writing'[v] # Nil PROVE WritesLast(writing[v])'
      OBVIOUS
    <3>1. writing'[v] = i
      BY <1>6, <1>10
    <3>2. i.next \in 0..Last(m)
      BY <1>4, <1>9, <3>1
    <3> QED
      BY <1>2, <1>4, <1>5, <1>7, <1>9, <3>1, <3>2 DEF WritesLast
  <2> QED
    BY <1>5, <1>7, <1>10, <2>1 DEF OrderInv, SenderOK
<1>13. /\ wire' \in Seq(Frames) /\ Len(wire') = Len(wire) + 1 /\ Len(wire) \in Nat
       /\ DOMAIN wire = 1..Len(wire) /\ DOMAIN wire' = 1..(Len(wire) + 1)
       /\ \A k \in DOMAIN wire : wire'[k] = wire[k]
       /\ wire'[Len(wire) + 1] = f
  <2> HIDE DEF f
  <2>1. wire \in Seq(Frames)
    BY DEF OrderInv, WireOK
  <2> QED
    BY <1>5, <1>8, <2>1
<1>14. WireOK'
  <2>1. ASSUME NEW k \in DOMAIN wire' PROVE Cut(wire[k])'
    <3>1. CASE k \in DOMAIN wire
      <4>1. Cut(wire[k])
        BY <3>1 DEF OrderInv, WireOK
      <4> QED
        BY <1>5, <1>7, <1>13, <3>1, <4>1 DEF Cut
    <3>2. CASE k = Len(wire) + 1
      BY <1>5, <1>7, <1>8, <1>13, <3>2 DEF Cut
    <3> QED
      BY <1>13, <3>1, <3>2
  <2> QED
    BY <1>5, <1>13, <2>1 DEF OrderInv, WireOK
<1>15. ReceiverOK'
  BY <1>5 DEF OrderInv, ReceiverOK
<1>16. \A k : k # m => Unwritten(k)' = {} /\ Unwritten(k) = {}
  BY <1>1, <1>3, <1>6, <1>9, <1>10 DEF Unwritten
<1>17. Unwritten(m) = {k \in 0..Last(m) : n <= k}
  BY <1>1, <1>2, <1>3, <1>6 DEF Unwritten
<1>18. Unwritten(m)' = {k \in 0..Last(m) : n + 1 <= k}
  <2> HIDE DEF i
  <2>1. CASE i # Nil
    BY <1>6, <1>7, <1>9, <1>10, <2>1 DEF Unwritten
  <2>2. CASE i = Nil
    <3>1. Unwritten(m)' = {}
      BY <1>6, <1>10, <2>2 DEF Unwritten
    <3> QED
      BY <1>4, <1>11, <2>2, <3>1
  <2> QED
    BY <2>1, <2>2
<1>19. \A k : OnWire(k)' = OnWire(k) \cup (IF k = m THEN {n} ELSE {})
  BY <1>13 DEF OnWire
<1>20. \A k \in DOMAIN sent : Pending(k)' = Pending(k)
  BY <1>3, <1>4, <1>16, <1>17, <1>18, <1>19 DEF Pending
<1>21. SenderMoves
  BY <1>5, <1>7, <1>20 DEF SenderMoves
<1>22. Ordered'
  <2>1. ASSUME NEW k \in DOMAIN wire
        PROVE  wire[k].msg < m \/ (wire[k].msg = m /\ wire[k].num < n)
    <3>1. wire[k].msg \in DOMAIN sent
      BY DEF OrderInv, WireOK, Cut
    <3>2. wire[k].msg <= m /\ wire[k].msg \in Nat
      BY <1>4, <3>1 DEF OrderInv, SenderOK
    <3>3. n \in Unwritten(m)
      BY <1>3, <1>4, <1>17
    <3>4. wire[k].msg = m => wire[k].num < n
      BY <3>3 DEF OrderInv, Ordered
    <3>5. wire[k].msg = m \/ wire[k].msg < m
      BY <1>4, <3>2
    <3> QED
      BY <3>4, <3>5, Zenon
  <2>2. ASSUME NEW a \in DOMAIN wire', NEW b \in DOMAIN wire', a < b
        PROVE  \/ wire'[a].msg < wire'[b].msg
               \/ wire'[a].msg = wire'[b].msg /\ wire'[a].num < wire'[b].num
    <3>1. a \in DOMAIN wire /\ wire'[a] = wire[a]
      BY <1>13, <2>2
    <3>2. CASE b \in DOMAIN wire
      BY <1>13, <2>2, <3>1, <3>2 DEF OrderInv, Ordered
    <3>3. CASE b = Len(wire) + 1
      BY <1>13, <2>1, <3>1, <3>3
    <3> QED
      BY <1>13, <3>2, <3>3
  <2>3. ASSUME NEW a \in DOMAIN wire', NEW k \in Unwritten(wire[a].msg)'
        PROVE  wire'[a].num < k
    <3>1. wire'[a].msg = m
      BY <1>16, <2>3, Zenon DEF Unwritten
    <3>2. k \in Nat /\ n + 1 <= k /\ k \in Unwritten(m)
      BY <1>4, <1>17, <1>18, <2>3, <3>1
    <3> QED
      BY <1>4, <1>13, <3>1, <3>2 DEF OrderInv, Ordered
  <2> QED
    BY <2>2, <2>3 DEF Ordered
<1>23. Earlier'
  BY <1>5, <1>20 DEF OrderInv, Earlier
<1> QED
  BY <1>12, <1>14, <1>15, <1>21, <1>22, <1>23 DEF OrderInv

-----------------------------------------------------------------------------
(* The steps of the bus.                                                   *)

\* Deliver, Lose and Repeat take the first frame, Overtake takes the second.
Takes(p) == /\ p \in DOMAIN wire
            /\ p = 1 \/ (p = 2 /\ wire[1].num > 0 /\ wire[2].num > 0)

\* The frame taken is pending; nothing sent earlier is, and its own frame 0 is not if
\* it is another.
LEMMA TakenInOrder ==
  ASSUME OrderInv, NEW p, Takes(p)
  PROVE  LET f == wire[p]
         IN  /\ f \in Frames /\ Cut(f)
             /\ f.num \in Pending(f.msg)
             /\ \A k \in DOMAIN sent : k < f.msg => Pending(k) = {}
             /\ f.num # 0 => 0 \notin Pending(f.msg)
<1> DEFINE f == wire[p]
           first == wire[1]
<1>1. /\ wire \in Seq(Frames) /\ p \in DOMAIN wire /\ DOMAIN wire = 1..Len(wire)
      /\ Len(wire) \in Nat /\ 1 \in DOMAIN wire
  BY DEF OrderInv, WireOK, Takes
<1>2. /\ f \in Frames /\ Cut(f) /\ first \in Frames /\ Cut(first)
  BY <1>1 DEF OrderInv, WireOK
<1>3. \A i \in DOMAIN wire : wire[i].num \in Nat /\ wire[i].msg \in Nat
  <2>1. \A g \in Frames : g.num \in Nat /\ g.msg \in Nat
    BY FastPacketAssumption DEF Frames, FrameNums
  <2> QED
    BY <1>1, <2>1
<1>4. f.num \in OnWire(f.msg) /\ first.num \in OnWire(first.msg)
  BY <1>1 DEF OnWire
<1>5. \A k \in DOMAIN sent : k < first.msg => Pending(k) = {}
  <2> SUFFICES ASSUME NEW k \in DOMAIN sent, k < first.msg PROVE Pending(k) = {}
    OBVIOUS
  <2>1. OnWire(k) = {}
    <3> SUFFICES ASSUME NEW i \in DOMAIN wire, wire[i].msg = k PROVE FALSE
      BY DEF OnWire
    <3>1. i > 1 => first.msg <= wire[i].msg
      BY <1>1, <1>3 DEF OrderInv, Ordered
    <3> QED
      BY <1>1, <1>3, <3>1
  <2>2. Unwritten(k) = {}
    <3> SUFFICES ASSUME NEW w \in Writers, writing[w] # Nil, writing[w].msg = k PROVE FALSE
      BY DEF Unwritten
    <3>1. k = Len(sent)
      BY DEF OrderInv, SenderOK, WritesLast
    <3>2. first.msg <= Len(sent)
      BY <1>2 DEF Cut, OrderInv, SenderOK
    <3> QED
      BY <1>1, <1>3, <3>1, <3>2, MessageFacts DEF OrderInv
  <2> QED
    BY <2>1, <2>2 DEF Pending
<1>6. first.num # 0 => 0 \notin Pending(first.msg)
  <2> SUFFICES ASSUME first.num # 0, 0 \in Pending(first.msg) PROVE FALSE
    OBVIOUS
  <2>1. CASE 0 \in OnWire(first.msg)
    <3>1. PICK i \in DOMAIN wire : wire[i].msg = first.msg /\ wire[i].num = 0
      BY <2>1 DEF OnWire
    <3>2. i > 1
      BY <1>1, <3>1
    <3>3. first.num < 0
      BY <1>1, <1>3, <3>1, <3>2 DEF OrderInv, Ordered
    <3> QED
      BY <1>1, <1>3, <3>3
  <2>2. CASE 0 \in Unwritten(first.msg)
    <3>1. first.num < 0
      BY <1>1, <2>2 DEF OrderInv, Ordered
    <3> QED
      BY <1>1, <1>3, <3>1
  <2> QED
    BY <2>1, <2>2 DEF Pending
<1>7. f.msg = first.msg
  <2>1. CASE p = 1
    BY <2>1
  <2>2. CASE p = 2 /\ f.msg # first.msg
    <3>1. f.num > 0 /\ first.num > 0
      BY <2>2 DEF Takes
    <3>2. first.msg < f.msg
      BY <1>1, <2>2 DEF OrderInv, Ordered
    <3>3. Pending(first.msg) # {}
      BY <1>4 DEF Pending
    <3>4. 0 \in Pending(f.msg)
      BY <1>2, <3>2, <3>3 DEF OrderInv, Earlier, Cut
    <3>5. CASE 0 \in OnWire(f.msg)
      <4>1. PICK i \in DOMAIN wire : wire[i].msg = f.msg /\ wire[i].num = 0
        BY <3>5 DEF OnWire
      <4>2. i > 2
        BY <1>1, <1>3, <2>2, <3>1, <3>2, <4>1
      <4>3. f.num < 0
        BY <1>1, <1>3, <2>2, <4>1, <4>2 DEF OrderInv, Ordered
      <4> QED
        BY <1>1, <1>3, <4>3
    <3>6. CASE 0 \in Unwritten(f.msg)
      <4>1. f.num < 0
        BY <1>1, <3>6 DEF OrderInv, Ordered
      <4> QED
        BY <1>1, <1>3, <4>1
    <3> QED
      BY <3>4, <3>5, <3>6 DEF Pending
  <2> QED
    BY <2>1, <2>2 DEF Takes
<1>8. f.num # 0 => 0 \notin Pending(f.msg)
  <2>1. f.num # 0 => first.num # 0
    BY <1>3, <1>1 DEF Takes
  <2> QED
    BY <1>6, <1>7, <2>1
<1> QED
  BY <1>2, <1>4, <1>5, <1>7, <1>8 DEF Pending

\* The wire without frame p.
Passes(p) ==
  /\ wire' \in Seq(Frames)
  /\ Len(wire') = Len(wire) - 1
  /\ \A i \in DOMAIN wire' : wire'[i] = wire[IF i < p THEN i ELSE i + 1]

LEMMA HeadPasses ==
  ASSUME OrderInv, wire # <<>>, wire' = Tail(wire)
  PROVE  Takes(1) /\ Passes(1) /\ Head(wire) = wire[1]
<1>1. wire \in Seq(Frames)
  BY DEF OrderInv, WireOK
<1>2. wire' \in Seq(Frames) /\ Len(wire') = Len(wire) - 1
      /\ \A i \in DOMAIN wire' : i \in Nat /\ i >= 1 /\ wire'[i] = wire[i + 1]
  BY <1>1
<1>3. 1 \in DOMAIN wire /\ Head(wire) = wire[1]
  BY <1>1
<1> QED
  BY <1>2, <1>3 DEF Takes, Passes

\* A sequence without its second element.
LEMMA WithoutSecond ==
  ASSUME NEW S, NEW q \in Seq(S), NEW n \in Nat, Len(q) = n, n >= 2
  PROVE  /\ Without(q, 2) \in Seq(S)
         /\ Len(Without(q, 2)) = n - 1
         /\ \A i \in 1..(n - 1) : Without(q, 2)[i] = q[IF i < 2 THEN i ELSE i + 1]
<1> DEFINE l == SubSeq(q, 1, 1)
           r == SubSeq(q, 3, n)
<1>1. \A i \in 1..n : q[i] \in S
  OBVIOUS
<1>2. l \in Seq(S) /\ Len(l) = 1 /\ l[1] = q[1]
  BY <1>1
<1>3. r \in Seq(S) /\ Len(r) = n - 2 /\ \A i \in 1..(n - 2) : r[i] = q[i + 2]
  <2>1. CASE n = 2
    <3>1. r = <<>>
      BY <2>1
    <3> QED
      BY <2>1, <3>1
  <2>2. CASE n > 2
    <3>1. /\ r \in Seq(S)
          /\ Len(r) = n - 3 + 1
          /\ \A i \in 1..(n - 3 + 1) : r[i] = q[3 + i - 1]
      BY <1>1, <2>2
    <3> HIDE DEF r
    <3> QED
      BY <2>2, <3>1
  <2> QED
    BY <2>1, <2>2
<1>4. Without(q, 2) = l \o r
  BY DEF Without
<1> HIDE DEF l, r
<1>5. PICK k \in Nat : k = n - 1 /\ k >= 1 /\ n - 2 = k - 1
  OBVIOUS
<1>6. /\ l \o r \in Seq(S)
      /\ Len(l \o r) = Len(l) + Len(r)
      /\ \A i \in 1..(Len(l) + Len(r)) :
           (l \o r)[i] = IF i <= Len(l) THEN l[i] ELSE r[i - Len(l)]
  BY <1>2, <1>3, ConcatProperties
<1>7. Len(l) + Len(r) = k
  BY <1>2, <1>3, <1>5
<1>8. ASSUME NEW i \in 1..k PROVE Without(q, 2)[i] = q[IF i < 2 THEN i ELSE i + 1]
  <2>1. CASE i = 1
    BY <1>2, <1>4, <1>6, <1>7, <2>1
  <2>2. CASE i > 1
    <3>1. i - 1 \in 1..(n - 2) /\ (i - 1) + 2 = i + 1
      BY <1>5, <2>2
    <3>2. r[i - 1] = q[i + 1]
      BY <1>3, <3>1
    <3>3. (l \o r)[i] = r[i - 1]
      BY <1>2, <1>6, <1>7, <2>2
    <3>4. Without(q, 2)[i] = q[i + 1]
      BY <1>4, <3>2, <3>3, Zenon
    <3> QED
      BY <2>2, <3>4
  <2>3. i = 1 \/ i > 1
    OBVIOUS
  <2> QED
    BY <2>1, <2>2, <2>3, Zenon
<1>9. Without(q, 2) \in Seq(S) /\ Len(Without(q, 2)) = k
  BY <1>4, <1>6, <1>7
<1> QED
  BY <1>5, <1>8, <1>9

LEMMA SecondPasses ==
  ASSUME OrderInv, Len(wire) > 1, wire[1].num > 0, wire[2].num > 0, wire' = Without(wire, 2)
  PROVE  Takes(2) /\ Passes(2)
<1>1. wire \in Seq(Frames)
  BY DEF OrderInv, WireOK
<1>2. PICK n \in Nat : n = Len(wire) /\ n >= 2
  BY <1>1
<1>3. /\ wire' \in Seq(Frames)
      /\ Len(wire') = n - 1
      /\ \A i \in 1..(n - 1) : wire'[i] = wire[IF i < 2 THEN i ELSE i + 1]
  BY <1>1, <1>2, WithoutSecond, Zenon
<1>4. DOMAIN wire' = 1..(n - 1)
  BY <1>3
<1>5. 2 \in DOMAIN wire
  BY <1>1, <1>2
<1> QED
  BY <1>2, <1>3, <1>4, <1>5 DEF Takes, Passes

\* When a frame leaves the wire it is no longer pending, and the order stays.
LEMMA PassOrder ==
  ASSUME OrderInv, NEW p, Takes(p), Passes(p), UNCHANGED <<seqIDMap, writing, sent>>,
         ReceiverOK', faults' \in 0..MaxFaults,
         headless' \subseteq damaged', damaged' \subseteq DOMAIN sent
  PROVE  /\ OrderInv'
         /\ \A m : Last(m)' = Last(m)
         /\ \A m : Pending(m)' = IF m = wire[p].msg THEN Pending(m) \ {wire[p].num}
                                                    ELSE Pending(m)
<1>1. PICK f \in Frames : f = wire[p] /\ Cut(f)
  BY TakenInOrder
<1>2. PICK n \in Nat : /\ n = Len(wire) /\ p \in 1..n /\ n >= 1 /\ p \in Nat
                       /\ DOMAIN wire = 1..n /\ DOMAIN wire' = 1..(n - 1)
  BY DEF OrderInv, WireOK, Takes, Passes
<1>3. ASSUME NEW i \in 1..(n - 1)
      PROVE  \E j \in 1..n : j # p /\ wire'[i] = wire[j] /\ j = IF i < p THEN i ELSE i + 1
  <2>1. wire'[i] = wire[IF i < p THEN i ELSE i + 1]
    BY <1>2 DEF Passes
  <2>2. CASE i < p
    BY <1>2, <2>1, <2>2
  <2>3. CASE ~(i < p)
    BY <1>2, <2>1, <2>3
  <2> QED
    BY <2>2, <2>3
<1>4. ASSUME NEW j \in 1..n, j # p PROVE \E i \in 1..(n - 1) : wire'[i] = wire[j]
  <2>1. CASE j < p
    BY <1>2, <2>1 DEF Passes
  <2>2. CASE j > p
    <3>1. j - 1 \in 1..(n - 1) /\ ~(j - 1 < p) /\ (j - 1) + 1 = j
      BY <1>2, <2>2
    <3> QED
      BY <1>2, <3>1 DEF Passes
  <2> QED
    BY <1>2, <1>4, <2>1, <2>2
<1>5. \A m : Last(m)' = Last(m)
  BY DEF Last
<1>6. \A m : Unwritten(m)' = Unwritten(m)
  BY <1>5 DEF Unwritten
<1>7. \A i \in 1..n : wire[i].num \in Nat /\ wire[i].msg \in Nat
  <2>1. \A g \in Frames : g.num \in Nat /\ g.msg \in Nat
    BY FastPacketAssumption DEF Frames, FrameNums
  <2> QED
    BY <1>2, <2>1 DEF OrderInv, WireOK
<1>8. \A j \in 1..n : j # p => wire[j].msg # f.msg \/ wire[j].num # f.num
  <2> SUFFICES ASSUME NEW j \in 1..n, j # p, wire[j].msg = f.msg, wire[j].num = f.num
               PROVE  FALSE
    OBVIOUS
  <2>1. CASE j < p
    BY <1>1, <1>2, <1>7, <2>1 DEF OrderInv, Ordered
  <2>2. CASE j > p
    <3>1. wire[p].msg < wire[j].msg \/ wire[p].num < wire[j].num
      BY <1>2, <2>2 DEF OrderInv, Ordered
    <3> QED
      BY <1>1, <1>2, <1>7, <3>1
  <2> QED
    BY <1>2, <2>1, <2>2
<1>9. \A m : OnWire(m)' = OnWire(m) \ (IF m = f.msg THEN {f.num} ELSE {})
  <2> SUFFICES ASSUME NEW m
               PROVE  OnWire(m)' = OnWire(m) \ (IF m = f.msg THEN {f.num} ELSE {})
    OBVIOUS
  <2>1. OnWire(m)' = {wire'[i].num : i \in {j \in 1..(n - 1) : wire'[j].msg = m}}
    BY <1>2 DEF OnWire
  <2>2. OnWire(m) = {wire[i].num : i \in {j \in 1..n : wire[j].msg = m}}
    BY <1>2 DEF OnWire
  <2>3. ASSUME NEW i \in 1..(n - 1), wire'[i].msg = m
        PROVE  wire'[i].num \in OnWire(m) \ (IF m = f.msg THEN {f.num} ELSE {})
    <3>1. PICK j \in 1..n : j # p /\ wire'[i] = wire[j]
      BY <1>3
    <3> QED
      BY <1>8, <2>2, <2>3, <3>1
  <2>4. ASSUME NEW j \in 1..n, wire[j].msg = m, m # f.msg \/ wire[j].num # f.num
        PROVE  wire[j].num \in OnWire(m)'
    <3>1. j # p
      BY <1>1, <2>4
    <3>2. PICK i \in 1..(n - 1) : wire'[i] = wire[j]
      BY <1>4, <3>1
    <3> QED
      BY <2>1, <2>4, <3>2
  <2> QED
    BY <2>1, <2>2, <2>3, <2>4
<1>10. f.num \notin Unwritten(f.msg)
  <2>1. f.num \in Unwritten(f.msg) => f.num < f.num
    BY <1>1, <1>2 DEF OrderInv, Ordered
  <2> QED
    BY <1>1, <1>2, <1>7, <2>1
<1>11. \A m : Pending(m)' = IF m = f.msg THEN Pending(m) \ {f.num} ELSE Pending(m)
  <2> SUFFICES ASSUME NEW m
               PROVE  Pending(m)' = IF m = f.msg THEN Pending(m) \ {f.num} ELSE Pending(m)
    OBVIOUS
  <2>1. Pending(m)' = OnWire(m)' \cup Unwritten(m)
    BY <1>6 DEF Pending
  <2>2. OnWire(m)' = OnWire(m) \ (IF m = f.msg THEN {f.num} ELSE {})
    BY <1>9
  <2> QED
    BY <1>10, <2>1, <2>2 DEF Pending
<1>12. SenderOK'
  BY <1>5 DEF OrderInv, SenderOK, WritesLast
<1>13. WireOK'
  <2>1. ASSUME NEW i \in DOMAIN wire' PROVE Cut(wire[i])'
    <3>1. PICK j \in 1..n : wire'[i] = wire[j]
      BY <1>2, <1>3
    <3>2. Cut(wire[j])
      BY <1>2 DEF OrderInv, WireOK
    <3> QED
      BY <1>5, <3>1, <3>2 DEF Cut
  <2> QED
    BY <2>1 DEF Passes, WireOK
<1>14. Ordered'
  <2>1. ASSUME NEW a \in 1..(n - 1), NEW b \in 1..(n - 1), a < b
        PROVE  \/ wire'[a].msg < wire'[b].msg
               \/ wire'[a].msg = wire'[b].msg /\ wire'[a].num < wire'[b].num
    <3>1. PICK i \in 1..n : wire'[a] = wire[i] /\ i = IF a < p THEN a ELSE a + 1
      BY <1>3
    <3>2. PICK j \in 1..n : wire'[b] = wire[j] /\ j = IF b < p THEN b ELSE b + 1
      BY <1>3
    <3>3. i < j
      BY <1>2, <2>1, <3>1, <3>2
    <3> QED
      BY <1>2, <3>1, <3>2, <3>3 DEF OrderInv, Ordered
  <2>2. ASSUME NEW a \in 1..(n - 1), NEW k \in Unwritten(wire[a].msg)'
        PROVE  wire'[a].num < k
    <3>1. PICK i \in 1..n : wire'[a] = wire[i]
      BY <1>3
    <3>2. k \in Unwritten(wire[i].msg)
      BY <1>5, <2>2, <3>1 DEF Unwritten
    <3> QED
      BY <1>2, <3>1, <3>2 DEF OrderInv, Ordered
  <2> QED
    BY <1>2, <2>1, <2>2 DEF Ordered
<1>15. Earlier'
  <2> SUFFICES ASSUME NEW m \in DOMAIN sent, NEW k \in DOMAIN sent, k < m,
                      0 \notin Pending(m)'
               PROVE  Pending(k)' = {}
    BY DEF Earlier
  <2>1. CASE 0 \notin Pending(m)
    BY <1>11, <2>1 DEF OrderInv, Earlier
  <2>2. CASE m = f.msg
    BY <1>1, <1>11, <2>2, TakenInOrder
  <2> QED
    BY <1>11, <2>1, <2>2
<1> QED
  BY <1>1, <1>5, <1>11, <1>12, <1>13, <1>14, <1>15 DEF OrderInv

\* Every other message is all through, or has its frame 0 to come.
LEMMA OthersWait ==
  ASSUME OrderInv, NEW p, Takes(p), NEW m \in DOMAIN sent, m # wire[p].msg
  PROVE  Pending(m) = {} \/ 0 \in Pending(m)
<1>1. PICK f \in Frames : /\ f = wire[p] /\ Cut(f) /\ f.num \in Pending(f.msg)
                          /\ \A k \in DOMAIN sent : k < f.msg => Pending(k) = {}
  BY TakenInOrder
<1>2. f.msg \in DOMAIN sent /\ f.msg \in Nat /\ m \in Nat
  BY <1>1, MessageFacts DEF OrderInv, Cut
<1>3. CASE m < f.msg
  BY <1>1, <1>3
<1>4. CASE f.msg < m
  BY <1>1, <1>2, <1>4 DEF OrderInv, Earlier
<1> QED
  BY <1>1, <1>2, <1>3, <1>4

\* HandleMessage: what add returns, and where it goes.
LEMMA Handles ==
  ASSUME OrderInv, NEW f \in Frames, Cut(f), HandleMessage(f)
  PROVE  LET q == SeqFor(f)
             a == add(q, f)
         IN  /\ q \in Partials /\ PartialMessage(q)
             /\ f.num = 0 => f.total \in Nat
             /\ a \in Partials /\ PartialMessage(a) /\ a # Nil
             /\ \A s \in Streams, i \in SeqIds :
                  sequences'[s][i] = IF s = f.stream /\ i = f.seq
                                     THEN IF enough(a) THEN Nil ELSE a
                                     ELSE sequences[s][i]
             /\ delivered' = IF enough(a) /\ ~sparse(a)
                             THEN delivered \cup {packet(f.stream, a)} ELSE delivered
             /\ ReceiverOK'
<1> DEFINE q == SeqFor(f)
           a == add(q, f)
           v == IF enough(a) THEN Nil ELSE a
<1>1. f.stream \in Streams /\ f.seq \in SeqIds
  BY DEF Frames
<1>2. q \in Partials /\ PartialMessage(q)
  BY <1>1, Meets DEF OrderInv
<1>3. f.num = 0 => f.total \in Nat
  BY MessageFacts DEF OrderInv, Cut
<1>4. a \in Partials /\ PartialMessage(a)
  <2> HIDE DEF q
  <2> QED
    BY <1>2, <1>3, Adds
<1>5. a # Nil
  BY <1>4, FastPacketAssumption
<1>6. /\ sequences' = [sequences EXCEPT ![f.stream][f.seq] = v]
      /\ delivered' = IF enough(a) /\ ~sparse(a)
                      THEN delivered \cup {packet(f.stream, a)} ELSE delivered
  BY DEF HandleMessage
<1>7. v \in Partials \cup {Nil} /\ (v # Nil => PartialMessage(v))
  BY <1>4
<1> HIDE DEF v
<1>8. sequences \in [Streams -> [SeqIds -> Partials \cup {Nil}]]
  BY DEF OrderInv, ReceiverOK
<1>9. \A s \in Streams, i \in SeqIds :
        sequences'[s][i] = IF s = f.stream /\ i = f.seq THEN v ELSE sequences[s][i]
  BY <1>1, <1>6, <1>8
<1>10. ReceiverOK'
  <2>1. sequences' \in [Streams -> [SeqIds -> Partials \cup {Nil}]]
    BY <1>1, <1>6, <1>7, <1>8
  <2>2. \A s \in Streams, i \in SeqIds :
          sequences'[s][i] # Nil => PartialMessage(sequences'[s][i])
    BY <1>7, <1>9 DEF OrderInv, ReceiverOK
  <2> QED
    BY <2>1, <2>2 DEF ReceiverOK, PartialMessage
<1> QED
  BY <1>2, <1>3, <1>4, <1>5, <1>6, <1>9, <1>10 DEF v

-----------------------------------------------------------------------------
(* What is delivered was sent.                                             *)

\* A frame that is handled leaves every partial message sound, keeps the messages on
\* their way out of each other's sequences, and delivers what was sent.
LEMMA HandlesSound ==
  ASSUME OrderInv, SoundInv, NEW p, Takes(p), NEW f, f = wire[p], HandleMessage(f),
         UNCHANGED <<sent, headless>>,
         \A m \in DOMAIN sent :
           Pending(m)' \in {Pending(m), Pending(m) \ (IF m = f.msg THEN {f.num} ELSE {})}
  PROVE  SoundInv'
<1>1. /\ f \in Frames /\ Cut(f) /\ f.num \in Pending(f.msg)
      /\ f.num # 0 => 0 \notin Pending(f.msg)
  BY TakenInOrder
<1> DEFINE q == SeqFor(f)
           a == add(q, f)
           m0 == f.msg
<1>2. /\ q \in Partials /\ PartialMessage(q)
      /\ f.num = 0 => f.total \in Nat
      /\ a \in Partials /\ PartialMessage(a) /\ a # Nil
      /\ \A s \in Streams, i \in SeqIds :
           sequences'[s][i] = IF s = f.stream /\ i = f.seq
                              THEN IF enough(a) THEN Nil ELSE a
                              ELSE sequences[s][i]
      /\ delivered' = IF enough(a) /\ ~sparse(a)
                      THEN delivered \cup {packet(f.stream, a)} ELSE delivered
  BY <1>1, Handles
<1>3. /\ f.stream \in Streams /\ f.seq \in SeqIds /\ f.num \in FrameNums /\ f.num \in Nat
      /\ m0 \in DOMAIN sent /\ sent[m0].stream = f.stream /\ sent[m0].seq = f.seq
      /\ f.num = 0 => f.total = sent[m0].length
      /\ 0 \in FrameNums
  BY <1>1, FastPacketAssumption DEF Frames, Cut, FrameNums
<1>4. q.zero => sequences[f.stream][f.seq] # Nil /\ q = sequences[f.stream][f.seq]
  BY EmptySequence DEF SeqFor
<1>5. q.zero => Sound(f.stream, q)
  BY <1>3, <1>4 DEF SoundInv
<1>6. f.num # 0 /\ f.msg \notin headless /\ q.zero => q.contents[0] = m0
  <2>1. Pending(m0) # {} /\ (f.num # 0 => 0 \notin Pending(m0))
    BY <1>1
  <2>2. f.num # 0 /\ m0 \notin headless => Own(m0)
    BY <1>3, <2>1 DEF SoundInv
  <2>3. q.zero => sequences[f.stream][f.seq] # Nil /\ sequences[f.stream][f.seq].zero
    BY <1>4
  <2> QED
    BY <1>3, <1>4, <2>2, <2>3 DEF Own
<1>7. /\ f.num = 0 =>
           /\ a.zero
           /\ a.expected = f.total
           /\ a.contents = [n \in FrameNums |-> IF n = 0 THEN m0 ELSE Nil]
      /\ f.num > 0 =>
           \/ a = emptySequence
           \/ /\ q.zero
              /\ a.expected = q.expected
              /\ a.contents = [q.contents EXCEPT ![f.num] = m0]
  <2> HIDE DEF q
  <2>1. q \in Partials /\ PartialMessage(q) /\ f \in Frames /\ (f.num = 0 => f.total \in Nat)
    BY <1>1, <1>2
  <2> QED
    BY <2>1, Adds
<1> HIDE DEF a, q
<1>12. q \in Partials => q.contents \in [FrameNums -> Nat \cup {Nil}]
  BY DEF Partials
<1>8. a.zero => Sound(f.stream, a) /\ a.contents[0] \in Nat
  <2>1. CASE f.num = 0
    BY <1>3, <1>7, <2>1, MessageFacts DEF Sound, OrderInv
  <2>2. CASE f.num > 0 /\ a # emptySequence
    <3>1. /\ q.zero /\ a.expected = q.expected
          /\ q.contents \in [FrameNums -> Nat \cup {Nil}]
          /\ a.contents = [q.contents EXCEPT ![f.num] = m0]
      BY <1>2, <1>7, <1>12, <2>2
    <3>2. a.contents[0] = q.contents[0]
      BY <1>3, <2>2, <3>1
    <3>3. \A n \in FrameNums : a.contents[n] = IF n = f.num THEN m0 ELSE q.contents[n]
      BY <1>3, <3>1
    <3>4. m0 \in {q.contents[0]} \cup headless
      BY <1>6, <2>2, <3>1
    <3> QED
      BY <1>5, <3>1, <3>2, <3>3, <3>4, MessageFacts DEF Sound, OrderInv
  <2> QED
    BY <1>3, <2>1, <2>2, EmptySequence
<1>9. \A s \in Streams, i \in SeqIds :
        sequences'[s][i] # Nil /\ sequences'[s][i].zero => Sound(s, sequences[s][i])'
  <2> SUFFICES ASSUME NEW s \in Streams, NEW i \in SeqIds,
                      sequences'[s][i] # Nil, sequences'[s][i].zero
               PROVE  Sound(s, sequences[s][i])'
    OBVIOUS
  <2>1. Sound(s, sequences'[s][i])
    BY <1>2, <1>8 DEF SoundInv
  <2> QED
    BY <2>1 DEF Sound
<1>10. \A m \in DOMAIN sent' :
         Pending(m)' # {} /\ 0 \notin Pending(m)' /\ m \notin headless' => Own(m)'
  <2> SUFFICES ASSUME NEW m \in DOMAIN sent,
                      Pending(m)' # {}, 0 \notin Pending(m)', m \notin headless
               PROVE  Own(m)'
    OBVIOUS
  <2>1. Pending(m)' \in {Pending(m), Pending(m) \ (IF m = f.msg THEN {f.num} ELSE {})}
    OBVIOUS
  <2>2. m = f.msg
    BY <2>1, OthersWait
  <2>3. Own(m)' <=> LET r == sequences'[f.stream][f.seq]
                    IN  r # Nil /\ r.zero => r.contents[0] = m
    BY <1>3, <2>2 DEF Own
  <2>4. a.zero => a.contents[0] = m
    <3>1. CASE f.num = 0
      BY <1>3, <1>7, <2>2, <3>1
    <3>2. CASE f.num > 0 /\ a # emptySequence
      <4>1. /\ q.zero /\ q.contents \in [FrameNums -> Nat \cup {Nil}]
            /\ a.contents = [q.contents EXCEPT ![f.num] = m0]
        BY <1>2, <1>7, <1>12, <3>2
      <4> QED
        BY <1>3, <1>6, <2>2, <3>2, <4>1
    <3> QED
      BY <1>3, <3>1, <3>2, EmptySequence
  <2> QED
    BY <1>2, <1>3, <2>3, <2>4
<1>11. \A d \in delivered' : Genuine(d)'
  <2>1. \A d : Genuine(d)' <=> Genuine(d)
    BY DEF Genuine, PacketOf
  <2>2. ASSUME enough(a), ~sparse(a) PROVE Genuine(packet(f.stream, a))
    <3>1. PICK m \in Nat : m = a.contents[0] /\ a.zero
      BY <1>8, <2>2 DEF enough
    <3>2. /\ m \in DOMAIN sent /\ sent[m].stream = f.stream /\ sent[m].length = a.expected
          /\ \A n \in FrameNums : a.contents[n] \in {Nil, m} \cup headless
      BY <1>8, <3>1 DEF Sound
    <3>3. collected(a) = 0..Last(m) /\ 0..Last(m) \subseteq FrameNums
      BY <3>2, Collects, MessageFacts DEF OrderInv
    <3>4. \A n \in 0..Last(m) : a.contents[n] # Nil
      BY <2>2, <3>3 DEF sparse
    <3>5. packet(f.stream, a) = [stream |-> f.stream, length |-> sent[m].length,
                                 parts |-> [n \in 0..Last(m) |-> a.contents[n]]]
      BY <3>2, <3>3 DEF packet
    <3>6. CASE \A n \in 0..Last(m) : a.contents[n] = m
      <4>1. [n \in 0..Last(m) |-> a.contents[n]] = [n \in 0..Last(m) |-> m]
        BY <3>6
      <4>2. packet(f.stream, a) = PacketOf(m)
        BY <3>2, <3>5, <4>1 DEF PacketOf, Last
      <4> QED
        BY <3>2, <4>2 DEF Genuine
    <3>7. CASE \E n \in 0..Last(m) : a.contents[n] # m
      <4>1. PICK n \in 0..Last(m) : a.contents[n] \in headless
        BY <3>2, <3>3, <3>4, <3>7
      <4>2. /\ packet(f.stream, a).parts = [k \in 0..Last(m) |-> a.contents[k]]
        BY <3>5
      <4> QED
        BY <4>1, <4>2 DEF Genuine
    <3> QED
      BY <3>6, <3>7
  <2> QED
    BY <1>2, <2>1, <2>2 DEF SoundInv
<1> QED
  BY <1>9, <1>10, <1>11 DEF SoundInv

\* A frame 0 that is lost makes its message headless; losing another changes nothing here.
LEMMA LosesSound ==
  ASSUME OrderInv, SoundInv, NEW p, Takes(p), NEW f, f = wire[p],
         UNCHANGED <<sent, sequences, delivered>>,
         headless' = IF f.num = 0 THEN headless \cup {f.msg} ELSE headless,
         \A m \in DOMAIN sent :
           Pending(m)' = IF m = f.msg THEN Pending(m) \ {f.num} ELSE Pending(m)
  PROVE  SoundInv'
<1>1. \A s \in Streams, i \in SeqIds :
        sequences'[s][i] # Nil /\ sequences'[s][i].zero => Sound(s, sequences[s][i])'
  <2> SUFFICES ASSUME NEW s \in Streams, NEW i \in SeqIds,
                      sequences[s][i] # Nil, sequences[s][i].zero
               PROVE  Sound(s, sequences[s][i])'
    OBVIOUS
  <2>1. Sound(s, sequences[s][i])
    BY DEF SoundInv
  <2> QED
    BY <2>1 DEF Sound
<1>2. \A m \in DOMAIN sent' :
        Pending(m)' # {} /\ 0 \notin Pending(m)' /\ m \notin headless' => Own(m)'
  <2> SUFFICES ASSUME NEW m \in DOMAIN sent,
                      Pending(m)' # {}, 0 \notin Pending(m)', m \notin headless'
               PROVE  Own(m)'
    OBVIOUS
  <2>1. Pending(m) # {} /\ 0 \notin Pending(m) /\ m \notin headless
    OBVIOUS
  <2>2. Own(m)
    BY <2>1 DEF SoundInv
  <2> QED
    BY <2>2 DEF Own
<1>3. \A d \in delivered' : Genuine(d)'
  <2> SUFFICES ASSUME NEW d \in delivered PROVE Genuine(d)'
    OBVIOUS
  <2>1. Genuine(d)
    BY DEF SoundInv
  <2> QED
    BY <2>1 DEF Genuine, PacketOf
<1> QED
  BY <1>1, <1>2, <1>3 DEF SoundInv

\* The packet of a message already sent does not change, and a new message has its frame 0
\* to come.
LEMMA SendsSound ==
  ASSUME SenderOK', SoundInv, SenderMoves
  PROVE  SoundInv'
<1>0. UNCHANGED <<sequences, headless, delivered>>
  BY DEF SenderMoves
<1>1. \A s \in Streams, i \in SeqIds :
        sequences'[s][i] # Nil /\ sequences'[s][i].zero => Sound(s, sequences[s][i])'
  <2> SUFFICES ASSUME NEW s \in Streams, NEW i \in SeqIds,
                      sequences[s][i] # Nil, sequences[s][i].zero
               PROVE  Sound(s, sequences[s][i])'
    BY <1>0
  <2>1. Sound(s, sequences[s][i])
    BY DEF SoundInv
  <2> QED
    BY <1>0, <2>1 DEF Sound, SenderMoves
<1>2. \A m \in DOMAIN sent' :
        Pending(m)' # {} /\ 0 \notin Pending(m)' /\ m \notin headless' => Own(m)'
  <2> SUFFICES ASSUME NEW m \in DOMAIN sent',
                      Pending(m)' # {}, 0 \notin Pending(m)', m \notin headless
               PROVE  Own(m)'
    BY <1>0
  <2>1. CASE m \in DOMAIN sent
    <3>1. Own(m)
      BY <2>1 DEF SoundInv, SenderMoves
    <3> QED
      BY <1>0, <2>1, <3>1 DEF Own, SenderMoves
  <2>2. CASE m \notin DOMAIN sent
    <3>1. sent'[m].length \in Nat
      <4>1. sent' \in Seq(Messages)
        BY DEF SenderOK
      <4>2. sent'[m] \in Messages
        BY <4>1
      <4> QED
        BY <4>2, FastPacketAssumption DEF Messages
    <3>2. Last(m)' \in Nat
      BY <3>1, FrameCount DEF Last
    <3>3. Pending(m)' = 0..Last(m)'
      BY <2>2 DEF SenderMoves
    <3> QED
      BY <3>2, <3>3
  <2> QED
    BY <2>1, <2>2
<1>3. \A d \in delivered' : Genuine(d)'
  <2> SUFFICES ASSUME NEW d \in delivered PROVE Genuine(d)'
    BY <1>0
  <2>1. Genuine(d)
    BY DEF SoundInv
  <2>2. \A m \in DOMAIN sent : m \in DOMAIN sent' /\ PacketOf(m)' = PacketOf(m)
    BY DEF SenderMoves, PacketOf
  <2> QED
    BY <1>0, <2>1, <2>2, Zenon DEF Genuine
<1> QED
  BY <1>1, <1>2, <1>3 DEF SoundInv

-----------------------------------------------------------------------------
(* What is intact is delivered.                                            *)

\* A partial message with some frames of m has enough bytes when it has them all, and then
\* it is the packet.
LEMMA BuildingEnough ==
  ASSUME SenderOK, NEW m \in DOMAIN sent, NEW R \in SUBSET (0..Last(m)), 0 \in R
  PROVE  /\ Cardinality(R \ {0}) \in Nat
         /\ enough(Building(m, R)) <=> R = 0..Last(m)
         /\ R = 0..Last(m) => /\ ~sparse(Building(m, R))
                              /\ packet(sent[m].stream, Building(m, R)) = PacketOf(m)
<1> DEFINE b == Building(m, R)
<1>1. /\ sent[m].length \in Nat /\ Last(m) \in Nat /\ 0..Last(m) \subseteq FrameNums
      /\ m # Nil
  BY MessageFacts
<1>2. IsFiniteSet(1..Last(m)) /\ Cardinality(1..Last(m)) = Last(m)
  BY <1>1, FS_Interval
<1>3. R \ {0} \subseteq 1..Last(m)
  BY <1>1
<1>4. /\ IsFiniteSet(R \ {0})
      /\ Cardinality(R \ {0}) \in Nat
      /\ Cardinality(R \ {0}) <= Last(m)
      /\ Cardinality(R \ {0}) = Last(m) => R \ {0} = 1..Last(m)
  <2>1. /\ IsFiniteSet(R \ {0})
        /\ Cardinality(R \ {0}) <= Cardinality(1..Last(m))
        /\ Cardinality(R \ {0}) = Cardinality(1..Last(m)) => R \ {0} = 1..Last(m)
    BY <1>2, <1>3, FS_Subset, Zenon
  <2>2. Cardinality(R \ {0}) \in Nat
    BY <2>1, FS_CardinalityType
  <2> QED
    BY <1>2, <2>1, <2>2
<1>5. Cardinality(R \ {0}) >= Last(m) <=> R = 0..Last(m)
  <2>1. R = 0..Last(m) => R \ {0} = 1..Last(m)
    BY <1>1
  <2>2. \A n \in 0..Last(m) : n = 0 \/ n \in 1..Last(m)
    BY <1>1
  <2>3. R \ {0} = 1..Last(m) => R = 0..Last(m)
    BY <2>2
  <2>4. Cardinality(R \ {0}) >= Last(m) <=> Cardinality(R \ {0}) = Last(m)
    BY <1>1, <1>4
  <2> QED
    BY <1>2, <1>4, <2>1, <2>3, <2>4
<1>6. /\ b.zero
      /\ b.expected = sent[m].length
      /\ b.received = 6 + 7 * Cardinality(R \ {0})
      /\ b.contents = [n \in FrameNums |-> IF n \in R THEN m ELSE Nil]
  BY DEF Building
<1> HIDE DEF b
<1>7. enough(b) <=> R = 0..Last(m)
  <2> DEFINE c == Cardinality(R \ {0})
  <2>1. c \in Nat /\ b.received = 6 + 7 * c
    BY <1>4, <1>6
  <2>2. c >= Last(m) <=> R = 0..Last(m)
    BY <1>5
  <2> HIDE DEF c
  <2>3. 6 + 7 * c >= sent[m].length <=> c >= Last(m)
    BY <1>1, <2>1, FrameCount DEF Last
  <2> QED
    BY <1>6, <2>1, <2>2, <2>3 DEF enough
<1>8. collected(b) = 0..Last(m)
  BY <1>6, Collects
<1>9. ASSUME R = 0..Last(m) PROVE ~sparse(b) /\ packet(sent[m].stream, b) = PacketOf(m)
  <2>1. \A n \in 0..Last(m) : b.contents[n] = m
    BY <1>1, <1>6, <1>9
  <2>2. ~sparse(b)
    BY <1>1, <1>8, <2>1 DEF sparse
  <2>3. [n \in collected(b) |-> b.contents[n]] = [n \in 0..Last(m) |-> m]
    BY <1>8, <2>1
  <2> QED
    BY <1>6, <2>2, <2>3 DEF packet, PacketOf, Last
<1> QED
  BY <1>4, <1>7, <1>9 DEF b

\* What happens to the frame of one message leaves the others intact.
LEMMA OthersIntact ==
  ASSUME OrderInv, NEW p, Takes(p), NEW m \in DOMAIN sent, m # wire[p].msg, Intact(m),
         Pending(m)' = Pending(m), sent' = sent, delivered \subseteq delivered'
  PROVE  Intact(m)'
<1>1. Pending(m) = {} \/ 0 \in Pending(m)
  BY OthersWait
<1>2. Last(m)' = Last(m) /\ PacketOf(m)' = PacketOf(m)
  BY DEF Last, PacketOf
<1>3. CASE Pending(m) = 0..Last(m)
  BY <1>2, <1>3 DEF Intact
<1>4. CASE Pending(m) = {} /\ PacketOf(m) \in delivered
  BY <1>2, <1>4 DEF Intact
<1> QED
  BY <1>1, <1>3, <1>4 DEF Intact

\* A frame that is handled joins those of its message, and the last one delivers it.
LEMMA HandlesIntact ==
  ASSUME OrderInv, IntactInv, NEW p, Takes(p), NEW f, f = wire[p], HandleMessage(f),
         UNCHANGED <<sent, damaged>>,
         \A m \in DOMAIN sent :
           Pending(m)' = IF m = f.msg THEN Pending(m) \ {f.num} ELSE Pending(m)
  PROVE  IntactInv'
<1>1. /\ f \in Frames /\ Cut(f) /\ f.num \in Pending(f.msg)
      /\ f.num # 0 => 0 \notin Pending(f.msg)
  BY TakenInOrder
<1>2. PICK m \in DOMAIN sent : m = f.msg
  BY <1>1 DEF Cut
<1>3. PICK n \in FrameNums : n = f.num /\ n \in 0..Last(m)
  BY <1>1, <1>2 DEF Cut, Frames
<1>4. PICK L \in Nat : L = Last(m) /\ 0..L \subseteq FrameNums
  BY MessageFacts DEF OrderInv
<1> DEFINE q == SeqFor(f)
           a == add(q, f)
<1>5. /\ q \in Partials /\ PartialMessage(q)
      /\ f.num = 0 => f.total \in Nat
      /\ a \in Partials /\ PartialMessage(a) /\ a # Nil
      /\ \A s \in Streams, i \in SeqIds :
           sequences'[s][i] = IF s = f.stream /\ i = f.seq
                              THEN IF enough(a) THEN Nil ELSE a
                              ELSE sequences[s][i]
      /\ delivered' = IF enough(a) /\ ~sparse(a)
                      THEN delivered \cup {packet(f.stream, a)} ELSE delivered
  BY <1>1, Handles
<1>6. /\ f.stream \in Streams /\ f.seq \in SeqIds /\ n \in Nat /\ 0 \in FrameNums
      /\ sent[m].stream = f.stream /\ sent[m].seq = f.seq
      /\ f.num = 0 => f.total = sent[m].length
      /\ m # Nil
  BY <1>1, <1>2, <1>3, FastPacketAssumption, MessageFacts DEF Frames, Cut, FrameNums, OrderInv
<1>7. /\ n = 0 =>
           /\ a.zero
           /\ a.expected = f.total
           /\ a.received = 6
           /\ a.contents = [k \in FrameNums |-> IF k = 0 THEN m ELSE Nil]
      /\ n > 0 =>
           \/ a = emptySequence /\ (~q.zero \/ q.contents[n] # Nil)
           \/ /\ a.zero
              /\ a.expected = q.expected
              /\ a.received = q.received + 7
              /\ a.contents = [q.contents EXCEPT ![n] = m]
  <2> HIDE DEF q
  <2>1. q \in Partials /\ PartialMessage(q) /\ f \in Frames /\ (f.num = 0 => f.total \in Nat)
    BY <1>1, <1>5
  <2> QED
    BY <1>2, <1>3, <2>1, Adds
<1>8. q = IF sequences[f.stream][f.seq] = Nil THEN emptySequence ELSE sequences[f.stream][f.seq]
  BY DEF SeqFor
<1> HIDE DEF a, q
<1>9. SUFFICES ASSUME m \notin damaged PROVE Intact(m)'
  <2> SUFFICES ASSUME NEW k \in DOMAIN sent, k \notin damaged, k # m PROVE Intact(k)'
    BY <1>9 DEF IntactInv
  <2>1. Intact(k)
    BY DEF IntactInv
  <2>2. delivered \subseteq delivered'
    BY <1>5
  <2>3. Pending(k)' = Pending(k)
    BY <1>2
  <2> QED
    BY <1>2, <2>1, <2>2, <2>3, OthersIntact
<1>10. Intact(m)
  BY <1>9 DEF IntactInv
\* The frames received, before and after.
<1>11. PICK P : P = Pending(m)
  OBVIOUS
<1> DEFINE R == 0..L \ P
           S == 0..L \ (P \ {n})
<1>12. Pending(m)' = P \ {n} /\ n \in P
  BY <1>1, <1>2, <1>3, <1>11
<1>13. P \subseteq 0..L
  <2>1. P = 0..L \/ P = {} \/ (P # {} /\ sequences[sent[m].stream][sent[m].seq] = Building(m, R))
    BY <1>4, <1>10, <1>11 DEF Intact
  <2>2. OnWire(m) \subseteq 0..Last(m)
    BY DEF OnWire, OrderInv, WireOK, Cut
  <2>3. Unwritten(m) \subseteq 0..Last(m)
    BY DEF Unwritten
  <2> QED
    BY <1>4, <1>11, <2>2, <2>3 DEF Pending
<1>14. a = Building(m, S) /\ 0 \in S
  <2>1. CASE n = 0
    <3>1. P = 0..L
      BY <1>4, <1>10, <1>11, <1>12, <2>1 DEF Intact
    <3>2. S = {0} /\ S \ {0} = {}
      BY <1>4, <2>1, <3>1
    <3>3. Cardinality(S \ {0}) = 0
      BY <3>2, FS_EmptySet
    <3>4. /\ a.zero = TRUE /\ a.expected = sent[m].length
          /\ a.received = 6 + 7 * Cardinality(S \ {0})
          /\ a.contents = [k \in FrameNums |-> IF k \in S THEN m ELSE Nil]
      BY <1>3, <1>5, <1>6, <1>7, <2>1, <3>2, <3>3 DEF Partials
    <3> QED
      BY <1>5, <3>2, <3>4 DEF Building, Partials
  <2>2. CASE n > 0
    <3>1. 0 \notin P /\ P # {}
      BY <1>1, <1>2, <1>3, <1>11, <1>12, <2>2
    <3>2. sequences[f.stream][f.seq] = Building(m, R)
      BY <1>4, <1>6, <1>10, <1>11, <3>1 DEF Intact
    <3>3. 0 \in R /\ n \notin R /\ S = R \cup {n} /\ R \subseteq 0..L
      BY <1>3, <1>4, <1>12, <2>2, <3>1
    <3>4. sequences[f.stream][f.seq] \in Partials \cup {Nil}
      BY <1>6 DEF OrderInv, ReceiverOK
    <3>5. PICK c \in Nat : /\ c = Cardinality(R \ {0})
                           /\ Cardinality(S \ {0}) = c + 1
      <4>1. R \ {0} \subseteq 1..L /\ n \notin R \ {0} /\ S \ {0} = (R \ {0}) \cup {n}
        BY <2>2, <3>3
      <4>2. IsFiniteSet(1..L)
        BY FS_Interval
      <4>3. PICK X : X = R \ {0}
        OBVIOUS
      <4>4. IsFiniteSet(X) /\ Cardinality(X) \in Nat
        BY <4>1, <4>2, <4>3, FS_Subset, FS_CardinalityType
      <4>5. Cardinality(X \cup {n}) = Cardinality(X) + 1
        BY <4>1, <4>3, <4>4, FS_AddElement
      <4> QED
        BY <4>1, <4>3, <4>4, <4>5
    <3>6. /\ q.zero /\ q.expected = sent[m].length /\ q.received = 6 + 7 * c
          /\ q.contents = [k \in FrameNums |-> IF k \in R THEN m ELSE Nil]
      <4>1. m \in Nat /\ sent[m].length \in Nat
        BY MessageFacts DEF OrderInv
      <4>2. Building(m, R) \in Partials
        BY <3>5, <4>1 DEF Building, Partials
      <4>3. q = Building(m, R)
        BY <1>8, <3>2, <4>2, FastPacketAssumption
      <4> QED
        BY <3>5, <4>3 DEF Building
    <3>7. q.contents[n] = Nil
      BY <1>3, <3>3, <3>6
    <3>8. /\ a.zero /\ a.expected = sent[m].length /\ a.received = q.received + 7
          /\ a.contents = [q.contents EXCEPT ![n] = m]
      BY <1>7, <2>2, <3>6, <3>7
    <3>9. a.contents = [k \in FrameNums |-> IF k \in S THEN m ELSE Nil]
      BY <1>3, <3>3, <3>6, <3>8
    <3>10. a.received = 6 + 7 * Cardinality(S \ {0}) /\ a.zero = TRUE
      BY <1>5, <3>5, <3>6, <3>8 DEF Partials
    <3> QED
      BY <1>5, <3>3, <3>8, <3>9, <3>10 DEF Building, Partials
  <2> QED
    BY <1>6, <2>1, <2>2
<1>15. /\ enough(a) <=> S = 0..L
       /\ S = 0..L => ~sparse(a) /\ packet(sent[m].stream, a) = PacketOf(m)
  <2>1. S \in SUBSET (0..Last(m))
    BY <1>4
  <2> HIDE DEF S
  <2> QED
    BY <1>4, <1>14, <2>1, BuildingEnough DEF OrderInv
<1>16. Last(m)' = Last(m) /\ PacketOf(m)' = PacketOf(m)
  BY DEF Last, PacketOf
<1>17. CASE S = 0..L
  <2>1. Pending(m)' = {}
    BY <1>12, <1>13, <1>17
  <2>2. PacketOf(m) \in delivered'
    BY <1>5, <1>6, <1>15, <1>17
  <2> QED
    BY <1>16, <2>1, <2>2 DEF Intact
<1>18. CASE S # 0..L
  <2>1. Pending(m)' # {} /\ 0 \notin Pending(m)'
    BY <1>4, <1>12, <1>14, <1>18
  <2>2. sequences'[f.stream][f.seq] = a
    BY <1>5, <1>6, <1>15, <1>18
  <2>3. sequences'[sent[m].stream][sent[m].seq] = Building(m, 0..L \ Pending(m)')
    BY <1>6, <1>12, <1>14, <2>2
  <2>4. \A X : Building(m, X)' = Building(m, X)
    BY DEF Building
  <2>5. sequences'[sent'[m].stream][sent'[m].seq] = Building(m, 0..Last(m) \ Pending(m))'
    BY <1>4, <1>16, <2>3 DEF Building
  <2> QED
    BY <2>1, <2>5 DEF Intact
<1> QED
  BY <1>17, <1>18

LEMMA SendsIntact ==
  ASSUME IntactInv, SenderMoves
  PROVE  IntactInv'
<1> SUFFICES ASSUME NEW m \in DOMAIN sent', m \notin damaged PROVE Intact(m)'
  BY DEF IntactInv, SenderMoves
<1>1. CASE m \in DOMAIN sent
  <2>1. Intact(m)
    BY <1>1 DEF IntactInv
  <2>2. /\ sent'[m] = sent[m] /\ Last(m)' = Last(m) /\ Pending(m)' = Pending(m)
        /\ sequences' = sequences /\ delivered' = delivered
    BY <1>1 DEF SenderMoves
  <2>3. PacketOf(m)' = PacketOf(m)
    BY <2>2 DEF PacketOf
  <2> QED
    BY <2>1, <2>2, <2>3 DEF Intact, Building
<1>2. CASE m \notin DOMAIN sent
  BY <1>2 DEF SenderMoves, Intact
<1> QED
  BY <1>1, <1>2

-----------------------------------------------------------------------------
(* Every step keeps the invariant.                                         *)

Inv == OrderInv /\ SoundInv /\ IntactInv

LEMMA Starts == Init => Inv
<1> SUFFICES ASSUME Init PROVE Inv
  OBVIOUS
<1>1. /\ wire = <<>> /\ sent = <<>> /\ DOMAIN wire = {} /\ DOMAIN sent = {}
      /\ sent \in Seq(Messages) /\ wire \in Seq(Frames)
  BY DEF Init
<1>2. /\ \A w \in Writers : writing[w] = Nil
      /\ \A s \in Streams, i \in SeqIds : sequences[s][i] = Nil
  BY DEF Init
<1>3. SenderOK
  BY <1>1, <1>2, FastPacketAssumption DEF Init, SenderOK, SeqIds
<1>4. WireOK
  BY <1>1, FastPacketAssumption DEF Init, WireOK
<1>5. ReceiverOK
  BY <1>2 DEF Init, ReceiverOK
<1>6. Ordered /\ Earlier
  BY <1>1 DEF Ordered, Earlier
<1>7. SoundInv
  BY <1>1, <1>2 DEF Init, SoundInv
<1>8. IntactInv
  BY <1>1 DEF IntactInv
<1> QED
  BY <1>3, <1>4, <1>5, <1>6, <1>7, <1>8 DEF Inv, OrderInv

LEMMA SenderKeeps ==
  ASSUME OneWriter, Inv, NEW w \in Writers,
         \/ \E s \in Streams, n \in Lengths : sendFast(w, s, n)
         \/ storeNextID(w)
         \/ writeFrame(w)
  PROVE  Inv'
<1>1. OrderInv
  BY DEF Inv
<1>2. SenderMoves /\ OrderInv'
  <2>1. CASE \E s \in Streams, n \in Lengths : sendFast(w, s, n)
    BY <1>1, <2>1, SendMoves
  <2>2. CASE storeNextID(w)
    BY <1>1, <2>2, StoreMoves
  <2>3. CASE writeFrame(w)
    BY <1>1, <2>3, WriteMoves
  <2> QED
    BY <2>1, <2>2, <2>3
<1>3. SoundInv'
  BY <1>2, SendsSound DEF Inv, OrderInv
<1>4. IntactInv'
  BY <1>2, SendsIntact DEF Inv
<1> QED
  BY <1>2, <1>3, <1>4 DEF Inv

\* Deliver and Overtake: a frame is handled and leaves the wire.
LEMMA TakingKeeps ==
  ASSUME Inv, NEW p, Takes(p), Passes(p), HandleMessage(wire[p]), faults' \in 0..MaxFaults,
         UNCHANGED <<seqIDMap, writing, sent, damaged, headless>>
  PROVE  Inv'
<1>1. OrderInv /\ SoundInv /\ IntactInv
  BY DEF Inv
<1>2. PICK f \in Frames : f = wire[p] /\ Cut(f)
  BY <1>1, TakenInOrder
<1>3. ReceiverOK'
  BY <1>1, <1>2, Handles
<1>4. /\ OrderInv'
      /\ \A m : Pending(m)' = IF m = f.msg THEN Pending(m) \ {f.num} ELSE Pending(m)
  <2>1. headless' \subseteq damaged' /\ damaged' \subseteq DOMAIN sent
    BY <1>1 DEF OrderInv, WireOK
  <2> QED
    BY <1>1, <1>2, <1>3, <2>1, PassOrder
<1>5. SoundInv'
  BY <1>1, <1>2, <1>4, HandlesSound
<1>6. IntactInv'
  BY <1>1, <1>2, <1>4, HandlesIntact
<1> QED
  BY <1>4, <1>5, <1>6 DEF Inv

LEMMA LoseKeeps ==
  ASSUME Inv, Lose
  PROVE  Inv'
<1>1. OrderInv /\ SoundInv /\ IntactInv
  BY DEF Inv
<1>2. Takes(1) /\ Passes(1) /\ Head(wire) = wire[1]
  BY <1>1, HeadPasses DEF Lose
<1>3. PICK f \in Frames : f = wire[1] /\ Cut(f)
  BY <1>1, <1>2, TakenInOrder
<1>4. /\ UNCHANGED <<seqIDMap, writing, sequences, sent, delivered>>
      /\ damaged' = damaged \cup {f.msg}
      /\ headless' = IF f.num = 0 THEN headless \cup {f.msg} ELSE headless
      /\ faults' \in 0..MaxFaults
  <2>1. faults' \in 0..MaxFaults
    BY <1>1, FastPacketAssumption DEF Lose, Fault, OrderInv, WireOK
  <2> QED
    BY <1>2, <1>3, <2>1 DEF Lose
<1>5. ReceiverOK'
  BY <1>1, <1>4 DEF OrderInv, ReceiverOK
<1>6. headless' \subseteq damaged' /\ damaged' \subseteq DOMAIN sent
  BY <1>1, <1>3, <1>4 DEF OrderInv, WireOK, Cut
<1>7. /\ OrderInv'
      /\ \A m : Pending(m)' = IF m = f.msg THEN Pending(m) \ {f.num} ELSE Pending(m)
  BY <1>1, <1>2, <1>3, <1>4, <1>5, <1>6, PassOrder
<1>8. SoundInv'
  BY <1>1, <1>2, <1>3, <1>4, <1>7, LosesSound
<1>9. IntactInv'
  <2> SUFFICES ASSUME NEW m \in DOMAIN sent, m \notin damaged, m # f.msg PROVE Intact(m)'
    BY <1>4 DEF IntactInv
  <2>1. Intact(m) /\ Pending(m)' = Pending(m) /\ delivered \subseteq delivered'
    BY <1>1, <1>4, <1>7 DEF IntactInv
  <2> QED
    BY <1>1, <1>2, <1>3, <1>4, <2>1, OthersIntact
<1> QED
  BY <1>7, <1>8, <1>9 DEF Inv

LEMMA RepeatKeeps ==
  ASSUME Inv, Repeat
  PROVE  Inv'
<1>1. OrderInv /\ SoundInv /\ IntactInv
  BY DEF Inv
<1>2. Takes(1) /\ Head(wire) = wire[1]
  BY <1>1 DEF Repeat, Takes, OrderInv, WireOK
<1>3. PICK f \in Frames : f = wire[1] /\ Cut(f)
  BY <1>1, <1>2, TakenInOrder
<1>4. /\ UNCHANGED <<seqIDMap, writing, wire, sent, headless>>
      /\ damaged' = damaged \cup {f.msg}
      /\ HandleMessage(f)
      /\ faults' \in 0..MaxFaults
  <2>1. faults' \in 0..MaxFaults
    BY <1>1, FastPacketAssumption DEF Repeat, Fault, OrderInv, WireOK
  <2> QED
    BY <1>2, <1>3, <2>1 DEF Repeat
<1>5. \A m : Last(m)' = Last(m) /\ Unwritten(m)' = Unwritten(m) /\ Pending(m)' = Pending(m)
  BY <1>4 DEF Last, Unwritten, Pending, OnWire
<1>6. OrderInv'
  <2>1. ReceiverOK'
    BY <1>1, <1>3, <1>4, Handles
  <2>2. SenderOK'
    BY <1>1, <1>4, <1>5 DEF OrderInv, SenderOK, WritesLast
  <2>3. WireOK'
    BY <1>1, <1>3, <1>4, <1>5 DEF OrderInv, WireOK, Cut
  <2>4. Ordered' /\ Earlier'
    BY <1>1, <1>4, <1>5 DEF OrderInv, Ordered, Earlier
  <2> QED
    BY <2>1, <2>2, <2>3, <2>4 DEF OrderInv
<1>7. SoundInv'
  BY <1>1, <1>2, <1>3, <1>4, <1>5, HandlesSound
<1>8. IntactInv'
  <2> SUFFICES ASSUME NEW m \in DOMAIN sent, m \notin damaged, m # f.msg PROVE Intact(m)'
    BY <1>4 DEF IntactInv
  <2>1. delivered \subseteq delivered'
    BY <1>1, <1>3, <1>4, Handles
  <2>2. Intact(m) /\ Pending(m)' = Pending(m)
    BY <1>1, <1>5 DEF IntactInv
  <2> QED
    BY <1>1, <1>2, <1>3, <1>4, <2>1, <2>2, OthersIntact
<1> QED
  BY <1>6, <1>7, <1>8 DEF Inv

LEMMA Kept ==
  ASSUME OneWriter, Inv, [Next]_vars
  PROVE  Inv'
<1>0. OrderInv /\ faults \in 0..MaxFaults
  BY DEF Inv, OrderInv, WireOK
<1>1. ASSUME NEW w \in Writers,
             \/ \E s \in Streams, n \in Lengths : sendFast(w, s, n)
             \/ storeNextID(w)
             \/ writeFrame(w)
      PROVE  Inv'
  BY <1>1, SenderKeeps
<1>2. CASE Deliver
  <2>1. Takes(1) /\ Passes(1) /\ Head(wire) = wire[1]
    BY <1>0, <1>2, HeadPasses DEF Deliver
  <2> QED
    BY <1>0, <1>2, <2>1, TakingKeeps DEF Deliver
<1>3. CASE Lose
  BY <1>3, LoseKeeps
<1>4. CASE Repeat
  BY <1>4, RepeatKeeps
<1>5. CASE Overtake
  <2>1. Takes(2) /\ Passes(2)
    BY <1>0, <1>5, SecondPasses DEF Overtake
  <2>2. faults' \in 0..MaxFaults
    BY <1>0, <1>5, FastPacketAssumption DEF Overtake, Fault
  <2> QED
    BY <1>5, <2>1, <2>2, TakingKeeps DEF Overtake
<1>6. CASE UNCHANGED vars
  <2>1. \A m : /\ Last(m)' = Last(m) /\ Unwritten(m)' = Unwritten(m)
               /\ Pending(m)' = Pending(m) /\ PacketOf(m)' = PacketOf(m)
    BY <1>6 DEF vars, Last, Unwritten, Pending, OnWire, PacketOf
  <2>2. OrderInv'
    BY <1>6, <2>1 DEF vars, Inv, OrderInv, SenderOK, WritesLast, WireOK, Cut, ReceiverOK,
                      Ordered, Earlier
  <2>3. SoundInv'
    BY <1>6, <2>1 DEF vars, Inv, SoundInv, Sound, Own, Genuine
  <2>4. IntactInv'
    BY <1>6, <2>1 DEF vars, Inv, IntactInv, Intact, Building
  <2> QED
    BY <2>2, <2>3, <2>4 DEF Inv
<1> QED
  BY <1>1, <1>2, <1>3, <1>4, <1>5, <1>6 DEF Next

-----------------------------------------------------------------------------
(* The theorems.                                                           *)

\* With one writer the frames arrive in the order written, what a sequence holds belongs
\* together, and an undamaged message is whole on its way, half received or delivered.
THEOREM FastPacketInvariant ==
  ASSUME OneWriter PROVE Spec => []Inv
<1>1. Init => Inv
  BY Starts
<1>2. Inv /\ [Next]_vars => Inv'
  BY Kept
<1> QED
  BY <1>1, <1>2, PTL DEF Spec

LEMMA InvTypes == ASSUME Inv PROVE TypeOK
<1>1. \A w \in Writers : writing[w] # Nil => writing[w].msg \in DOMAIN sent
  BY DEF Inv, OrderInv, SenderOK, WritesLast
<1> QED
  BY <1>1 DEF Inv, OrderInv, SenderOK, WireOK, ReceiverOK, TypeOK

\* With one writer, what MultiBuilder hands on is a message sendFast cut up, whole, unless
\* it holds a frame of a message whose frame 0 was lost: for any number of messages under
\* one sequence id, and any loss, repetition and reordering of the continuation frames.
THEOREM DeliveredWasSent ==
  ASSUME OneWriter PROVE Spec => []DeliveredIsSent
<1>1. Inv => DeliveredIsSent
  BY InvTypes DEF Inv, SoundInv, Genuine, DeliveredIsSent
<1> QED
  BY <1>1, FastPacketInvariant, PTL

LEMMA NothingPending ==
  ASSUME NEW m, Through(m) PROVE Pending(m) = {}
BY DEF Through, Pending, OnWire, Unwritten

\* With one writer, a message none of whose frames was lost or repeated has been handed on
\* once all its frames have arrived, whatever earlier messages left in the sequence.
THEOREM IntactArrives ==
  ASSUME OneWriter PROVE Spec => []IntactIsDelivered
<1>1. Inv => IntactIsDelivered
  <2> SUFFICES ASSUME Inv, NEW m \in DOMAIN sent, Through(m), m \notin damaged
               PROVE  PacketOf(m) \in delivered
    BY DEF IntactIsDelivered
  <2>1. Pending(m) = {} /\ Intact(m)
    BY NothingPending DEF Inv, IntactInv
  <2>2. 0 \in 0..Last(m)
    BY MessageFacts DEF Inv, OrderInv
  <2> QED
    BY <2>1, <2>2 DEF Intact
<1> QED
  BY <1>1, FastPacketInvariant, PTL

-----------------------------------------------------------------------------
(* The identifier the frames of a message carry.                           *)

Id == INSTANCE CanId

\* What is moved up and down again.
LEMMA Moved ==
  ASSUME NEW bits, bits \subseteq Nat, NEW n \in Nat
  PROVE  /\ \A i : i \in Id!Up(bits, n) <=> i \in Nat /\ i >= n /\ i - n \in bits
         /\ \A i : i \in Id!Down(bits, n) <=> i \in Nat /\ i + n \in bits
<1>1. \A i : i \in Id!Up(bits, n) <=> i \in Nat /\ i >= n /\ i - n \in bits
  <2>1. ASSUME NEW i, i \in Id!Up(bits, n) PROVE i \in Nat /\ i >= n /\ i - n \in bits
    <3>1. PICK j \in bits : i = j + n
      BY <2>1, Zenon DEF Id!Up
    <3>2. j \in Nat
      OBVIOUS
    <3> QED
      BY <3>1, <3>2
  <2>2. ASSUME NEW i \in Nat, i >= n, i - n \in bits PROVE i \in Id!Up(bits, n)
    <3>1. PICK j \in bits : j = i - n
      BY <2>2
    <3>2. i = j + n
      BY <3>1
    <3> QED
      BY <3>2, Zenon DEF Id!Up
  <2> QED
    BY <2>1, <2>2
<1>2. \A i : i \in Id!Down(bits, n) <=> i \in Nat /\ i + n \in bits
  <2>1. ASSUME NEW i, i \in Id!Down(bits, n) PROVE i \in Nat /\ i + n \in bits
    <3>1. PICK j \in bits : j >= n /\ i = j - n
      BY <2>1, Zenon DEF Id!Down
    <3>2. j \in Nat
      OBVIOUS
    <3> QED
      BY <3>1, <3>2
  <2>2. ASSUME NEW i \in Nat, i + n \in bits PROVE i \in Id!Down(bits, n)
    <3>1. PICK j \in bits : j = i + n
      BY <2>2
    <3>2. i = j - n /\ j >= n
      BY <3>1
    <3> QED
      BY <3>1, <3>2, Zenon DEF Id!Down
  <2> QED
    BY <2>1, <2>2
<1> QED
  BY <1>1, <1>2

\* A PGN is addressed by its bits 12 to 15.
LEMMA AddressedBits ==
  ASSUME NEW pgn, pgn \subseteq Nat
  PROVE  Id!Addressed(pgn) <=> ~(12..15 \subseteq pgn)
<1> DEFINE middle == pgn \cap 8..15
<1>1. \A i : i \in Id!PduFormat(pgn) <=> i \in Nat /\ i + 8 \in middle
  BY Moved DEF Id!PduFormat
<1>2. \A i \in 4..7 : i \in Nat /\ i + 8 \in 12..15
  OBVIOUS
<1>3. \A i \in 4..7 : i \in Id!PduFormat(pgn) <=> i + 8 \in pgn
  BY <1>1, <1>2
<1>4. \A i \in 12..15 : i - 8 \in 4..7 /\ (i - 8) + 8 = i
  OBVIOUS
<1>5. (4..7 \subseteq Id!PduFormat(pgn)) => 12..15 \subseteq pgn
  BY <1>3, <1>4
<1>6. (12..15 \subseteq pgn) => 4..7 \subseteq Id!PduFormat(pgn)
  BY <1>2, <1>3
<1> QED
  BY <1>5, <1>6 DEF Id!Addressed

\* The identifier of a frame is read back as what it was made of, whatever PGN of 18
\* bits, source, priority and destination it was made of: the destination of an
\* addressed PGN takes the place of its low byte, which is zero in the PGN that is
\* read, and a PGN that is not addressed is for everybody.
THEOREM IdRoundTrip ==
  ASSUME NEW pgn, pgn \subseteq Id!Low(18), NEW source, source \subseteq Id!Low(8),
         NEW priority, priority \subseteq Id!Low(3), NEW destination, destination \subseteq Id!Low(8)
  PROVE  Id!DecodeCanID(Id!CanIDFromData(pgn, source, priority, destination))
           = [SourceId |-> source, Priority |-> priority,
              PGN      |-> IF Id!Addressed(pgn) THEN pgn \ Id!Low(8) ELSE pgn,
              TargetId |-> IF Id!Addressed(pgn) THEN destination ELSE Id!Low(8)]
<1> DEFINE placed == IF Id!Addressed(pgn) THEN (pgn \cap 8..19) \cup destination ELSE pgn
           id == Id!CanIDFromData(pgn, source, priority, destination)
           decoded == Id!Down(id \cap 8..25, 8)
<1>1. Id!Low(18) = 0..17 /\ Id!Low(8) = 0..7 /\ Id!Low(3) = 0..2
  BY DEF Id!Low
<1>2. placed \subseteq 0..17
  BY <1>1
<1> HIDE DEF placed
<1>3. id = source \cup Id!Up(placed, 8) \cup Id!Up(priority, 26) \cup {31}
  BY DEF Id!CanIDFromData, placed
<1> HIDE DEF id
<1>4. /\ \A i : i \in Id!Up(placed, 8) <=> i \in Nat /\ i >= 8 /\ i - 8 \in placed
      /\ \A i : i \in Id!Up(priority, 26) <=> i \in Nat /\ i >= 26 /\ i - 26 \in priority
  <2>1. placed \subseteq Nat /\ priority \subseteq Nat /\ 8 \in Nat /\ 26 \in Nat
    BY <1>1, <1>2
  <2> QED
    BY <2>1, Moved, Zenon
<1>5. /\ \A i \in 0..7 : i \in id <=> i \in source
      /\ \A i \in 8..25 : i \in id <=> i - 8 \in placed
      /\ \A i \in 26..28 : i \in id <=> i - 26 \in priority
  BY <1>1, <1>2, <1>3, <1>4
<1>6. id \cap Id!Low(8) = source
  BY <1>1, <1>5
<1>7. Id!Down(id \cap 26..28, 26) = priority
  <2>0. PICK part : part = id \cap 26..28
    OBVIOUS
  <2>1. \A i : i \in Id!Down(part, 26) <=> i \in Nat /\ i + 26 \in part
    <3>1. part \subseteq Nat /\ 26 \in Nat
      BY <2>0
    <3> QED
      BY <3>1, Moved, Zenon
  <2>2. \A i \in 0..2 : i + 26 \in 26..28 /\ (i + 26) - 26 = i
    OBVIOUS
  <2>3. \A i \in Nat : i + 26 \in 26..28 => i \in 0..2
    OBVIOUS
  <2> QED
    <3>1. \A i : i \in Id!Down(part, 26) => i \in priority
      BY <1>5, <2>0, <2>1, <2>2, <2>3
    <3>2. \A i \in priority : i \in Nat /\ i + 26 \in part
      BY <1>1, <1>5, <2>0, <2>2
    <3> QED
      BY <2>0, <2>1, <3>1, <3>2, Zenon
<1>8. decoded = placed
  <2>0. PICK part : part = id \cap 8..25
    OBVIOUS
  <2>1. \A i : i \in Id!Down(part, 8) <=> i \in Nat /\ i + 8 \in part
    <3>1. part \subseteq Nat /\ 8 \in Nat
      BY <2>0
    <3> QED
      BY <3>1, Moved, Zenon
  <2>2. \A i \in 0..17 : i + 8 \in 8..25 /\ (i + 8) - 8 = i
    OBVIOUS
  <2>3. \A i \in Nat : i + 8 \in 8..25 => i \in 0..17
    OBVIOUS
  <2> QED
    <3>1. \A i : i \in Id!Down(part, 8) => i \in placed
      BY <1>5, <2>0, <2>1, <2>2, <2>3
    <3>2. \A i \in placed : i \in Nat /\ i + 8 \in part
      BY <1>2, <1>5, <2>0, <2>2
    <3> QED
      BY <2>0, <2>1, <3>1, <3>2, Zenon
<1>9. Id!Addressed(placed) <=> Id!Addressed(pgn)
  <2>1. \A i \in 12..15 : i \in placed <=> i \in pgn
    BY <1>1 DEF placed
  <2>2. pgn \subseteq Nat /\ placed \subseteq Nat
    BY <1>1, <1>2
  <2> QED
    BY <2>1, <2>2, AddressedBits
<1>10. Id!DecodeCanID(id) =
         [SourceId |-> id \cap Id!Low(8), Priority |-> Id!Down(id \cap 26..28, 26),
          PGN      |-> IF Id!Addressed(decoded) THEN decoded \cap 8..19 ELSE decoded,
          TargetId |-> IF Id!Addressed(decoded) THEN decoded \cap Id!Low(8) ELSE Id!Low(8)]
  BY Zenon DEF Id!DecodeCanID
<1> HIDE DEF decoded
<1>11. Id!DecodeCanID(id) =
         [SourceId |-> source, Priority |-> priority,
          PGN      |-> IF Id!Addressed(pgn) THEN placed \cap 8..19 ELSE placed,
          TargetId |-> IF Id!Addressed(pgn) THEN placed \cap Id!Low(8) ELSE Id!Low(8)]
  BY <1>6, <1>7, <1>8, <1>9, <1>10, Zenon
<1>12. CASE Id!Addressed(pgn)
  <2>1. placed = (pgn \cap 8..19) \cup destination
    BY <1>12 DEF placed
  <2>2. placed \cap 8..19 = pgn \ Id!Low(8)
    BY <1>1, <2>1
  <2>3. placed \cap Id!Low(8) = destination
    BY <1>1, <2>1
  <2> QED
    BY <1>11, <1>12, <2>2, <2>3 DEF id
<1>13. CASE ~Id!Addressed(pgn)
  <2>1. placed = pgn
    BY <1>13 DEF placed
  <2> QED
    BY <1>11, <1>13, <2>1 DEF id
<1> QED
  BY <1>12, <1>13
=============================================================================
