-------------------------- MODULE SocketCanProofs --------------------------
(***************************************************************************)
(* Proofs about the SocketCAN endpoint, for any frames, any capacity of    *)
(* the queues, any number of runs and of callers of Close.                 *)
(***************************************************************************)
EXTENDS SocketCan, FiniteSetTheorems, SequenceTheorems, TLAPS

-----------------------------------------------------------------------------
(* The inductive invariant.  One Run at a time is under way; the writer at *)
(* work is its own and is installed, so that whoever stops a writer waits  *)
(* for that one; and only that writer takes frames, one after another.     *)

RunAts    == {"idle", "start", "opened", "install", "run", "stop", "leave", "end"}
CloseAts  == {"idle", "marked", "close", "stop", "end"}
WriterAts == {"off", "top", "high", "select", "write", "delay", "done", "exit", "end"}
FrameAts  == {"unwritten", "put", "queued", "held", "sleeping", "sent", "dropped"}

\* Where every goroutine and every frame can be.
PcTypes ==
  /\ runPc \in [Runs -> [at : RunAts, waits : Runs \cup {Nil}]]
  /\ closePc \in [Closers -> [at : CloseAts, waits : Runs \cup {Nil}]]
  /\ writer \in [Runs -> [at : WriterAts, item : Frames \cup {Nil}]]
  /\ frame \in [Frames -> FrameAts]
  /\ requeuer \in [Frames -> Runs \cup {Nil}]
  /\ accepted \in Seq(HighFrames)

Busy(r)    == runPc[r].at \notin {"idle", "end"}
Live(r)    == writer[r].at \notin {"off", "exit", "end"}
Serving(r) == writer[r].at \in {"high", "select", "write", "delay"}

\* Run refuses to run twice at a time.
OneRun ==
  /\ \A r \in Runs : Busy(r) => running
  /\ \A r, q \in Runs : Busy(r) /\ Busy(q) => r = q

\* A writer works only while its Run is under way, and is installed as long as it does; a
\* Run that is ending waits for it.
WriterOfRun ==
  \A r \in Runs :
    /\ runPc[r].at \in {"idle", "start", "opened", "install"} => writer[r].at = "off"
    /\ runPc[r].at \in {"leave", "end"} => ~Live(r)
    /\ runPc[r].at = "run" /\ writer[r].at # "end" => outboundWriter = r
    /\ runPc[r].at = "stop" /\ Live(r) => runPc[r].waits = r /\ outboundWriter = r

\* Close waits for the writer that was past its look at the end of the endpoint.
Closing ==
  \A c \in Closers :
    /\ closePc[c].at \in {"close", "stop", "end"} => done
    /\ closePc[c].at = "stop" => \A r \in Runs : Serving(r) => closePc[c].waits = r
    /\ closePc[c].at = "end" => \A r \in Runs : ~Serving(r)

Distinct(q)  == \A i, j \in 1..Len(q) : q[i] = q[j] => i = j
Within(f, q) == \E i \in 1..Len(q) : q[i] = f

\* A frame is where "frame" says, and once.
Placed ==
  /\ Distinct(outboundHigh) /\ Distinct(outboundLow)
  /\ \A f \in Frames :
       /\ frame[f] = "queued" <=> Within(f, outboundHigh) \/ Within(f, outboundLow)
       /\ frame[f] = "held" <=> \E r \in Runs : writer[r].item = f
       /\ frame[f] = "sleeping" => f \in LowFrames

taken == Len(accepted) - Len(outboundHigh)

\* The high frames that were queued are those taken from the queue, all but the last of
\* them done with, and then those still in it.
InOrder ==
  /\ taken \in Nat
  /\ \A i \in 1..Len(outboundHigh) : accepted[taken + i] = outboundHigh[i]
  /\ \A i \in 1..taken :
       /\ frame[accepted[i]] \in {"held", "sent", "dropped"}
       /\ frame[accepted[i]] = "held" => i = taken

LifeInv     == TypeOK /\ PcTypes /\ OneRun /\ WriterOfRun /\ Closing
EndpointInv == LifeInv /\ Placed /\ InOrder

-----------------------------------------------------------------------------
(* Which steps change what.                                                *)

\* A caller of Run or Close moves itself; a writer moves itself, once a Run has installed
\* it; frames are moved by writers, by the callers of WriteFrame and by the requeue goroutines.
LEMMA WhoMoves ==
  ASSUME [Next]_vars
  PROVE  /\ \/ UNCHANGED <<runPc, running>>
            \/ \E r \in Runs : RunEnter(r) \/ RunStep(r) \/ ChannelRunReturns(r)
         /\ \/ UNCHANGED writer
            \/ \E r \in Runs : InstallWriter(r) \/ WriterStep(r)
         /\ \/ UNCHANGED outboundWriter
            \/ \E r \in Runs : InstallWriter(r) \/ WriterUninstall(r)
         /\ \/ UNCHANGED <<closePc, done>>
            \/ \E c \in Closers : CloseMark(c) \/ CloseStep(c)
         /\ \/ UNCHANGED <<outboundHigh, outboundLow, frame, requeuer, accepted>>
            \/ \E r \in Runs : \/ TakeHigh(r) \/ TakeLow(r) \/ Written(r) \/ BufferFull(r)
                              \/ DelayCancelled(r)
            \/ \E f \in Frames : WriteFrame(f) \/ PutStep(f) \/ Requeue(f)
<1>1. \/ UNCHANGED <<runPc, running>>
      \/ \E r \in Runs : RunEnter(r) \/ RunStep(r) \/ ChannelRunReturns(r)
  BY DEF Next, CloseStep, PutStep, WriterStep, vars, queueVars, endVars, pcVars,
         frameVars, CancelContext, CloseMark, CloseDone, CloseStops, CloseReturn,
         WriteFrame, PutLow, PutHigh, WriterTop, TakeHigh, NoHigh, TakeLow, SelectDone,
         Written, BufferFull, DelayOver, DelayCancelled, Requeue, WriterExit,
         WriterUninstall
<1>2. \/ UNCHANGED writer
      \/ \E r \in Runs : InstallWriter(r) \/ WriterStep(r)
  BY DEF Next, RunStep, CloseStep, PutStep, vars, queueVars, endVars, pcVars, frameVars,
         RunEnter, Start, RunStopped, RunLeave, ChannelRunReturns, CancelContext,
         CloseMark, CloseDone, CloseStops, CloseReturn, WriteFrame, PutLow, PutHigh,
         Requeue
<1>3. \/ UNCHANGED outboundWriter
      \/ \E r \in Runs : InstallWriter(r) \/ WriterUninstall(r)
  BY DEF Next, RunStep, CloseStep, PutStep, WriterStep, vars, queueVars, endVars,
         pcVars, frameVars, RunEnter, Start, RunStopped, RunLeave, ChannelRunReturns,
         CancelContext, CloseMark, CloseDone, CloseStops, CloseReturn, WriteFrame,
         PutLow, PutHigh, WriterTop, TakeHigh, NoHigh, TakeLow, SelectDone, Written,
         BufferFull, DelayOver, DelayCancelled, Requeue, WriterExit
<1>4. \/ UNCHANGED <<closePc, done>>
      \/ \E c \in Closers : CloseMark(c) \/ CloseStep(c)
  BY DEF Next, RunStep, PutStep, WriterStep, vars, queueVars, endVars, pcVars,
         frameVars, RunEnter, Start, InstallWriter, RunStopped, RunLeave,
         ChannelRunReturns, CancelContext, WriteFrame, PutLow, PutHigh, WriterTop,
         TakeHigh, NoHigh, TakeLow, SelectDone, Written, BufferFull, DelayOver,
         DelayCancelled, Requeue, WriterExit, WriterUninstall
<1>5. \/ UNCHANGED <<outboundHigh, outboundLow, frame, requeuer, accepted>>
      \/ \E r \in Runs : \/ TakeHigh(r) \/ TakeLow(r) \/ Written(r) \/ BufferFull(r)
                        \/ DelayCancelled(r)
      \/ \E f \in Frames : WriteFrame(f) \/ PutStep(f) \/ Requeue(f)
  BY DEF Next, RunStep, CloseStep, WriterStep, vars, queueVars, endVars, pcVars,
         frameVars, RunEnter, Start, InstallWriter, RunStopped, RunLeave,
         ChannelRunReturns, CancelContext, CloseMark, CloseDone, CloseStops,
         CloseReturn, WriterTop, NoHigh, SelectDone, DelayOver, WriterExit,
         WriterUninstall
<1> QED
  BY <1>1, <1>2, <1>3, <1>4, <1>5


\* Constants that are told apart.
LEMMA NilFacts == Nil \notin Runs /\ Nil \notin Frames /\ QueueSize \in Nat \ {0}
BY SocketCanAssumption

\* A writer that goes on with nothing in hand, or with a frame it has taken.
LEMMA WriterAtEffect ==
  ASSUME PcTypes, NEW r \in Runs, NEW at \in WriterAts, NEW item \in Frames \cup {Nil},
         writer' = [writer EXCEPT ![r] = [at |-> at, item |-> item]]
  PROVE  /\ writer' \in [Runs -> [at : WriterAts, item : Frames \cup {Nil}]]
         /\ writer'[r].at = at /\ writer'[r].item = item
         /\ \A q \in Runs : q # r => writer'[q] = writer[q]
BY DEF PcTypes

\* A writer that waits, or has waited, keeps its frame.
LEMMA WriterKeeps ==
  ASSUME PcTypes, NEW r \in Runs, NEW at \in WriterAts, writer' = [writer EXCEPT ![r].at = at]
  PROVE  /\ writer' \in [Runs -> [at : WriterAts, item : Frames \cup {Nil}]]
         /\ writer'[r].at = at /\ writer'[r].item = writer[r].item
         /\ \A q \in Runs : q # r => writer'[q] = writer[q]
<1> DEFINE rec == [writer[r] EXCEPT !.at = at]
<1>1. writer[r] \in [at : WriterAts, item : Frames \cup {Nil}]
  BY DEF PcTypes
<1>2. writer' = [writer EXCEPT ![r] = rec]
  OBVIOUS
<1>3. /\ rec \in [at : WriterAts, item : Frames \cup {Nil}]
      /\ rec.at = at /\ rec.item = writer[r].item
  BY <1>1
<1> HIDE DEF rec
<1> QED
  BY <1>2, <1>3 DEF PcTypes

\* A caller of Run that goes on keeps the writer it waits for.
LEMMA RunAtEffect ==
  ASSUME PcTypes, NEW r \in Runs, NEW at \in RunAts, RunAt(r, at)
  PROVE  /\ runPc' \in [Runs -> [at : RunAts, waits : Runs \cup {Nil}]]
         /\ runPc'[r].at = at /\ runPc'[r].waits = runPc[r].waits
         /\ \A q \in Runs : q # r => runPc'[q] = runPc[q]
<1> DEFINE rec == [runPc[r] EXCEPT !.at = at]
<1>1. runPc[r] \in [at : RunAts, waits : Runs \cup {Nil}]
  BY DEF PcTypes
<1>2. runPc' = [runPc EXCEPT ![r] = rec]
  BY DEF RunAt
<1>3. /\ rec \in [at : RunAts, waits : Runs \cup {Nil}]
      /\ rec.at = at /\ rec.waits = runPc[r].waits
  BY <1>1
<1> HIDE DEF rec
<1> QED
  BY <1>2, <1>3 DEF PcTypes

-----------------------------------------------------------------------------
(* The steps of Run, of Close and of the writers.                          *)

\* Where the caller of Run comes from.
LEMMA RunGoes ==
  ASSUME PcTypes, TypeOK, [Next]_vars, NEW r \in Runs
  PROVE  /\ runPc'[r].at \in {"idle", "start", "opened", "install"} =>
              runPc[r].at \in {"idle", "start", "opened", "install"}
         /\ runPc'[r].at = "run" => runPc[r].at = "run" \/ InstallWriter(r)
         /\ runPc'[r].at = "stop" =>
              \/ runPc[r].at = "stop" /\ runPc'[r].waits = runPc[r].waits
              \/ runPc[r].at = "run" /\ runPc'[r].waits = outboundWriter /\ UNCHANGED outboundWriter
         /\ runPc'[r].at \in {"leave", "end"} =>
              \/ runPc[r].at \in {"leave", "end"}
              \/ runPc[r].at \in {"idle", "start", "opened"} /\ UNCHANGED writer
              \/ /\ runPc[r].at = "stop" /\ UNCHANGED writer
                 /\ runPc[r].waits # Nil => WriterDone(runPc[r].waits)
<1>0. runPc \in [Runs -> [at : RunAts, waits : Runs \cup {Nil}]]
  BY DEF PcTypes
<1>1. CASE UNCHANGED <<runPc, running>>
  BY <1>1
<1>2. ASSUME NEW q \in Runs, RunEnter(q) \/ Start(q)
      PROVE  \E at \in {"start", "opened", "install", "leave", "end"} :
               /\ RunAt(q, at) /\ UNCHANGED writer
               /\ runPc[q].at \in {"idle", "start", "opened"}
  BY <1>2 DEF RunEnter, Start
<1>3. CASE \E q \in Runs : RunEnter(q) \/ Start(q)
  BY <1>0, <1>2, <1>3, RunAtEffect DEF RunAts
<1>4. CASE \E q \in Runs : InstallWriter(q)
  BY <1>0, <1>4, RunAtEffect DEF InstallWriter, RunAts
<1>5. CASE \E q \in Runs : RunStopped(q)
  BY <1>0, <1>5, RunAtEffect DEF RunStopped, RunAts
<1>6. CASE \E q \in Runs : RunLeave(q)
  BY <1>0, <1>6, RunAtEffect DEF RunLeave, RunAts
<1>7. CASE \E q \in Runs : ChannelRunReturns(q)
  BY <1>0, <1>7 DEF ChannelRunReturns
<1> QED
  BY <1>1, <1>3, <1>4, <1>5, <1>6, <1>7, WhoMoves DEF RunStep

\* Where a writer comes from.  Once the endpoint is done, none begins to serve.
LEMMA WriterGoes ==
  ASSUME PcTypes, [Next]_vars, NEW r \in Runs
  PROVE  /\ writer[r].at = "off" => writer'[r].at = "off" \/ InstallWriter(r)
         /\ Live(r)' => Live(r) \/ InstallWriter(r)
         /\ writer[r].at = "end" => writer'[r].at = "end" \/ InstallWriter(r)
         /\ Serving(r)' => Serving(r) \/ ~done
<1>0. writer \in [Runs -> [at : WriterAts, item : Frames \cup {Nil}]]
  BY DEF PcTypes
<1>1. CASE UNCHANGED writer
  BY <1>1 DEF Live, Serving
<1>2. ASSUME NEW q \in Runs, InstallWriter(q)
      PROVE  writer'[q].at = "top" /\ \A p \in Runs : p # q => writer'[p] = writer[p]
  BY <1>0, <1>2 DEF InstallWriter
<1>3. ASSUME NEW q \in Runs, WriterStep(q)
      PROVE  /\ \A p \in Runs : p # q => writer'[p] = writer[p]
             /\ writer[q].at \notin {"off", "end"}
             /\ Live(q)' => Live(q)
             /\ Serving(q)' => Serving(q) \/ ~done
  <2>1. CASE WriterTop(q)
    BY <1>0, <2>1 DEF WriterTop, WriterAt, Live, Serving
  <2>2. CASE TakeHigh(q) \/ TakeLow(q)
    BY <1>0, <2>2 DEF TakeHigh, TakeLow, Takes, Live, Serving
  <2>3. CASE NoHigh(q) \/ SelectDone(q) \/ Written(q) \/ DelayCancelled(q)
    BY <1>0, <2>3 DEF NoHigh, SelectDone, Written, DelayCancelled, WriterAt, Live, Serving
  <2>4. CASE BufferFull(q)
    BY <1>0, <2>4 DEF BufferFull, WriterAt, Live, Serving
  <2>5. CASE DelayOver(q)
    BY <1>0, <2>5 DEF DelayOver, Live, Serving
  <2>6. CASE WriterExit(q) \/ WriterUninstall(q)
    BY <1>0, <2>6 DEF WriterExit, WriterUninstall, WriterAt, Live, Serving
  <2> QED
    BY <1>3, <2>1, <2>2, <2>3, <2>4, <2>5, <2>6 DEF WriterStep
<1> QED
  BY <1>1, <1>2, <1>3, WhoMoves DEF Live, Serving

\* An installed writer stays installed until it ends or another Run installs its own.
LEMMA InstalledStays ==
  ASSUME PcTypes, [Next]_vars, NEW r \in Runs, outboundWriter = r
  PROVE  \/ outboundWriter' = r \/ writer'[r].at = "end"
         \/ \E q \in Runs : q # r /\ InstallWriter(q)
<1>1. ASSUME NEW q \in Runs, InstallWriter(q) PROVE outboundWriter' = q
  BY <1>1 DEF InstallWriter
<1>2. ASSUME NEW q \in Runs, WriterUninstall(q)
      PROVE  outboundWriter' = r \/ writer'[r].at = "end"
  BY <1>2 DEF WriterUninstall, WriterAt, PcTypes
<1> QED
  BY <1>1, <1>2, WhoMoves

\* A second Run is refused while the first is under way.
LEMMA OneRunStep ==
  ASSUME PcTypes, OneRun, [Next]_vars PROVE OneRun'
<1>0. runPc \in [Runs -> [at : RunAts, waits : Runs \cup {Nil}]]
  BY DEF PcTypes
<1>1. CASE UNCHANGED <<runPc, running>>
  BY <1>1 DEF OneRun, Busy
<1>2. CASE \E r \in Runs : RunEnter(r)
  <2>1. PICK r \in Runs : RunEnter(r)
    BY <1>2
  <2>2. \/ ~running /\ running' = TRUE /\ RunAt(r, "start")
        \/ RunAt(r, "end") /\ UNCHANGED running
    BY <2>1 DEF RunEnter
  <2> QED
    BY <1>0, <2>1, <2>2, RunAtEffect DEF OneRun, Busy, RunAts
<1>3. ASSUME NEW r \in Runs, Start(r) \/ InstallWriter(r) \/ RunStopped(r)
      PROVE  /\ Busy(r) /\ running' = running
             /\ \E at \in RunAts : RunAt(r, at)
  BY <1>3 DEF Start, InstallWriter, RunStopped, RunAts, endVars, Busy
<1>4. CASE \E r \in Runs : Start(r) \/ InstallWriter(r) \/ RunStopped(r)
  BY <1>0, <1>3, <1>4, RunAtEffect DEF OneRun, Busy
<1>5. CASE \E r \in Runs : RunLeave(r)
  BY <1>0, <1>5, RunAtEffect DEF OneRun, Busy, RunLeave, RunAts
<1>6. CASE \E r \in Runs : ChannelRunReturns(r)
  BY <1>0, <1>6 DEF OneRun, Busy, ChannelRunReturns
<1> QED
  BY <1>1, <1>2, <1>4, <1>5, <1>6, WhoMoves DEF RunStep

\* The writer at work is that of the Run under way.
LEMMA WriterOfRunStep ==
  ASSUME TypeOK, PcTypes, OneRun, WriterOfRun, [Next]_vars PROVE WriterOfRun'
<1> SUFFICES ASSUME NEW r \in Runs
             PROVE  /\ runPc'[r].at \in {"idle", "start", "opened", "install"} =>
                         writer'[r].at = "off"
                    /\ runPc'[r].at \in {"leave", "end"} => ~Live(r)'
                    /\ runPc'[r].at = "run" /\ writer'[r].at # "end" => outboundWriter' = r
                    /\ runPc'[r].at = "stop" /\ Live(r)' =>
                         runPc'[r].waits = r /\ outboundWriter' = r
  BY DEF WriterOfRun
<1>1. ASSUME InstallWriter(r)
      PROVE  runPc'[r].at = "run" /\ outboundWriter' = r
  BY <1>1, RunAtEffect DEF InstallWriter, RunAts
<1>2. ASSUME Busy(r), NEW q \in Runs, q # r PROVE ~InstallWriter(q)
  BY <1>2 DEF OneRun, Busy, InstallWriter
<1>3. ASSUME Busy(r), outboundWriter = r PROVE outboundWriter' = r \/ writer'[r].at = "end"
  BY <1>2, <1>3, InstalledStays
<1>4. CASE InstallWriter(r)
  BY <1>1, <1>4
<1>5. CASE ~InstallWriter(r)
  <2>1. ASSUME runPc'[r].at \in {"idle", "start", "opened", "install"}
        PROVE  writer'[r].at = "off"
    BY <1>5, <2>1, RunGoes, WriterGoes DEF WriterOfRun
  <2>2. ASSUME runPc'[r].at \in {"leave", "end"}, Live(r)' PROVE FALSE
    BY <1>5, <2>2, RunGoes, WriterGoes, NilFacts DEF WriterOfRun, Live, WriterDone
  <2>3. ASSUME runPc'[r].at = "run", writer'[r].at # "end" PROVE outboundWriter' = r
    BY <1>3, <1>5, <2>3, RunGoes, WriterGoes DEF WriterOfRun, Busy
  <2>4. ASSUME runPc'[r].at = "stop", Live(r)'
        PROVE  runPc'[r].waits = r /\ outboundWriter' = r
    <3>1. Live(r) /\ writer'[r].at # "end" /\ writer[r].at # "end"
      BY <1>5, <2>4, WriterGoes DEF Live
    <3>2. outboundWriter = r /\ Busy(r)
      BY <2>4, <3>1, RunGoes DEF WriterOfRun, Busy
    <3>3. outboundWriter' = r
      BY <1>3, <3>1, <3>2
    <3> QED
      BY <2>4, <3>1, <3>2, <3>3, RunGoes DEF WriterOfRun
  <2> QED
    BY <2>1, <2>2, <2>3, <2>4
<1> QED
  BY <1>4, <1>5

\* Close waits for the writer that is serving when it looks, and after that none serves.
LEMMA ClosingStep ==
  ASSUME TypeOK, PcTypes, OneRun, WriterOfRun, Closing, [Next]_vars PROVE Closing'
<1>0. closePc \in [Closers -> [at : CloseAts, waits : Runs \cup {Nil}]] /\ done \in BOOLEAN
  BY DEF PcTypes, TypeOK
<1>1. \A r \in Runs : Serving(r)' => Serving(r) \/ ~done
  BY WriterGoes
<1>2. \A r \in Runs : Serving(r) => outboundWriter = r
  BY DEF PcTypes, WriterOfRun, Serving, Live, RunAts
<1>3. CASE UNCHANGED <<closePc, done>>
  BY <1>1, <1>3 DEF Closing
<1>4. ASSUME NEW c \in Closers, CloseMark(c) \/ CloseDone(c)
      PROVE  Closing'
  <2>1. \A r \in Runs : Serving(r)' <=> Serving(r)
    BY <1>4 DEF CloseMark, CloseDone, Serving
  <2>2. PICK at \in {"marked", "close"} : closePc' = [closePc EXCEPT ![c].at = at]
                                          /\ (at = "close" => done') /\ (done => done')
    BY <1>4 DEF CloseMark, CloseDone
  <2> QED
    BY <1>0, <2>1, <2>2 DEF Closing
<1>5. ASSUME NEW c \in Closers, CloseStops(c) PROVE Closing'
  <2>1. \A r \in Runs : Serving(r)' <=> Serving(r)
    BY <1>5 DEF CloseStops, Serving
  <2> QED
    BY <1>0, <1>2, <1>5, <2>1 DEF Closing, CloseStops
<1>6. ASSUME NEW c \in Closers, CloseReturn(c) PROVE Closing'
  <2>1. /\ \A r \in Runs : Serving(r)' <=> Serving(r)
        /\ done' = done
    BY <1>6 DEF CloseReturn, Serving, endVars
  <2>2. \A r \in Runs : ~Serving(r)
    BY <1>6, NilFacts DEF Closing, CloseReturn, Serving, WriterDone
  <2> QED
    BY <1>0, <1>6, <2>1, <2>2 DEF Closing, CloseReturn
<1> QED
  BY <1>3, <1>4, <1>5, <1>6, WhoMoves DEF CloseStep

-----------------------------------------------------------------------------
(* The queues.                                                             *)

\* What a queue holds when a frame is put at its end.
LEMMA QueueGrows ==
  ASSUME NEW S, NEW q \in Seq(S), NEW f \in S
  PROVE  /\ Append(q, f) \in Seq(S)
         /\ Len(Append(q, f)) = Len(q) + 1
         /\ Append(q, f)[Len(q) + 1] = f
         /\ \A i \in 1..Len(q) : Append(q, f)[i] = q[i]
         /\ \A g : Within(g, Append(q, f)) <=> Within(g, q) \/ g = f
         /\ Distinct(q) /\ ~Within(f, q) => Distinct(Append(q, f))
<1>0. Len(q) \in Nat
  BY LenProperties
<1>1. /\ Append(q, f) \in Seq(S)
      /\ Len(Append(q, f)) = Len(q) + 1
      /\ Append(q, f)[Len(q) + 1] = f
      /\ \A i \in 1..Len(q) : Append(q, f)[i] = q[i]
  BY AppendProperties
<1>2. \A i \in 1..(Len(q) + 1) : i = Len(q) + 1 \/ i \in 1..Len(q)
  BY <1>0
<1>3. \A i \in 1..Len(q) : i \in 1..(Len(q) + 1)
  BY <1>0
<1>4. Len(q) + 1 \in 1..(Len(q) + 1)
  BY <1>0
<1> DEFINE long == Append(q, f)
<1> HIDE DEF long
<1>5. ASSUME NEW g PROVE Within(g, long) <=> Within(g, q) \/ g = f
  BY <1>1, <1>2, <1>3, <1>4 DEF Within, long
<1>6. ASSUME Distinct(q), ~Within(f, q) PROVE Distinct(long)
  BY <1>1, <1>2, <1>6 DEF Within, Distinct, long
<1> QED
  BY <1>1, <1>5, <1>6 DEF long

\* What a queue holds when its first frame is taken.
LEMMA QueueShrinks ==
  ASSUME NEW S, NEW q \in Seq(S), q # <<>>
  PROVE  /\ Tail(q) \in Seq(S) /\ Head(q) \in S /\ Head(q) = q[1]
         /\ Len(q) \in Nat \ {0} /\ Len(Tail(q)) = Len(q) - 1
         /\ \A i \in 1..Len(Tail(q)) : Tail(q)[i] = q[i + 1]
         /\ Within(Head(q), q)
         /\ Distinct(q) => /\ Distinct(Tail(q))
                           /\ \A g : Within(g, Tail(q)) <=> Within(g, q) /\ g # Head(q)
<1>0. Len(q) \in Nat \ {0}
  BY LenProperties, EmptySeq
<1>1. /\ Tail(q) \in Seq(S) /\ Head(q) \in S /\ Head(q) = q[1]
      /\ Len(Tail(q)) = Len(q) - 1
      /\ \A i \in 1..Len(Tail(q)) : Tail(q)[i] = q[i + 1]
  BY HeadTailProperties
<1>2. Within(Head(q), q)
  BY <1>0, <1>1 DEF Within
<1> DEFINE short == Tail(q)
<1>3. /\ \A i \in 1..Len(short) : i + 1 \in 1..Len(q) /\ i + 1 # 1
      /\ \A i \in 1..Len(q) : i = 1 \/ (i - 1 \in 1..Len(short) /\ (i - 1) + 1 = i)
      /\ 1 \in 1..Len(q)
  BY <1>0, <1>1
<1>4. short = Tail(q)
  OBVIOUS
<1> HIDE DEF short
<1>5. ASSUME Distinct(q) PROVE Distinct(short)
  <2> SUFFICES ASSUME NEW i \in 1..Len(short), NEW j \in 1..Len(short), short[i] = short[j]
               PROVE  i = j
    BY DEF Distinct
  <2>1. q[i + 1] = q[j + 1]
    BY <1>1, <1>4
  <2>2. i + 1 = j + 1
    BY <1>3, <1>5, <2>1 DEF Distinct
  <2> QED
    BY <2>2
<1>6. ASSUME Distinct(q), NEW g, Within(g, short) PROVE Within(g, q) /\ g # Head(q)
  <2>1. PICK i \in 1..Len(short) : short[i] = g
    BY <1>6 DEF Within
  <2>2. q[i + 1] = g /\ i + 1 \in 1..Len(q) /\ i + 1 # 1
    BY <1>1, <1>3, <1>4, <2>1
  <2> QED
    BY <1>1, <1>3, <1>6, <2>2 DEF Within, Distinct
<1>7. ASSUME NEW g, Within(g, q), g # Head(q) PROVE Within(g, short)
  <2>1. PICK i \in 1..Len(q) : q[i] = g
    BY <1>7 DEF Within
  <2>2. i - 1 \in 1..Len(short) /\ (i - 1) + 1 = i
    BY <1>1, <1>3, <1>7, <2>1
  <2>3. short[i - 1] = g
    BY <1>1, <1>4, <2>1, <2>2
  <2> QED
    BY <2>2, <2>3 DEF Within
<1> QED
  BY <1>0, <1>1, <1>2, <1>4, <1>5, <1>6, <1>7

-----------------------------------------------------------------------------
(* The types, and the places of the frames.                                *)

\* Which frame is where changes for one frame at a time.
LEMMA GoesEffect ==
  ASSUME PcTypes, NEW f \in Frames, NEW at \in FrameAts, frame' = [frame EXCEPT ![f] = at]
  PROVE  /\ frame' \in [Frames -> FrameAts] /\ frame'[f] = at
         /\ \A g \in Frames : g # f => frame'[g] = frame[g]
BY DEF PcTypes

\* The callers of Run and of Close keep the types.
LEMMA CallersKeepTypes ==
  ASSUME TypeOK, PcTypes, WriterOfRun,
         \/ \E r \in Runs : \/ RunEnter(r) \/ RunStep(r) \/ ChannelRunReturns(r)
                            \/ CancelContext(r)
         \/ \E c \in Closers : CloseMark(c) \/ CloseStep(c)
  PROVE  TypeOK' /\ PcTypes'
<1>1. CASE \E r \in Runs : RunEnter(r)
  <2>1. PICK r \in Runs : RunEnter(r)
    BY <1>1
  <2>2. PICK at \in RunAts : RunAt(r, at)
    BY <2>1 DEF RunEnter, RunAts
  <2> QED
    BY <2>1, <2>2, RunAtEffect DEF TypeOK, PcTypes, RunEnter, queueVars, frameVars
<1>2. CASE \E r \in Runs : Start(r) \/ RunStopped(r)
  <2>1. PICK r \in Runs : Start(r) \/ RunStopped(r)
    BY <1>2
  <2>2. PICK at \in RunAts : RunAt(r, at)
    BY <2>1 DEF Start, RunStopped, RunAts
  <2> QED
    BY <2>1, <2>2, RunAtEffect DEF TypeOK, PcTypes, Start, RunStopped, queueVars, frameVars, endVars
<1>3. CASE \E r \in Runs : RunLeave(r)
  <2>1. runPc' \in [Runs -> [at : RunAts, waits : Runs \cup {Nil}]]
    BY <1>3, RunAtEffect DEF RunLeave, RunAts
  <2> QED
    BY <1>3, <2>1 DEF TypeOK, PcTypes, RunLeave, queueVars, frameVars
<1>4. CASE \E r \in Runs : InstallWriter(r)
  <2>1. PICK r \in Runs : InstallWriter(r)
    BY <1>4
  <2>2. runPc' \in [Runs -> [at : RunAts, waits : Runs \cup {Nil}]]
    BY <2>1, RunAtEffect DEF InstallWriter, RunAts
  <2>3. /\ writer' \in [Runs -> [at : WriterAts, item : Frames \cup {Nil}]]
        /\ writer'[r].at = "top" /\ writer'[r].item = writer[r].item
        /\ \A q \in Runs : q # r => writer'[q] = writer[q]
    BY <2>1, WriterKeeps DEF InstallWriter, WriterAts
  <2>4. writer[r].at = "off"
    BY <2>1 DEF WriterOfRun, InstallWriter
  <2>5. \A q \in Runs : (writer'[q].at \in {"write", "delay"}) = (writer'[q].item # Nil)
    BY <2>3, <2>4 DEF TypeOK
  <2>6. outboundWriter' \in Runs \cup {Nil} /\ writerCtx' \subseteq Runs
    BY <2>1 DEF TypeOK, InstallWriter
  <2> QED
    BY <2>1, <2>2, <2>3, <2>5, <2>6 DEF TypeOK, PcTypes, InstallWriter, queueVars, frameVars
<1>5. CASE \E r \in Runs : ChannelRunReturns(r)
  <2>1. runPc' \in [Runs -> [at : RunAts, waits : Runs \cup {Nil}]]
    BY <1>5 DEF TypeOK, PcTypes, ChannelRunReturns, RunAts
  <2> QED
    BY <1>5, <2>1 DEF TypeOK, PcTypes, ChannelRunReturns, queueVars, frameVars
<1>6. CASE \E r \in Runs : CancelContext(r)
  BY <1>6 DEF TypeOK, PcTypes, CancelContext, queueVars, frameVars, pcVars
<1>7. CASE \E c \in Closers : CloseMark(c) \/ CloseDone(c) \/ CloseReturn(c)
  <2>1. PICK c \in Closers : CloseMark(c) \/ CloseDone(c) \/ CloseReturn(c)
    BY <1>7
  <2>2. PICK at \in CloseAts : closePc' = [closePc EXCEPT ![c].at = at]
    BY <2>1 DEF CloseMark, CloseDone, CloseReturn, CloseAts
  <2>3. closePc' \in [Closers -> [at : CloseAts, waits : Runs \cup {Nil}]]
    <3> DEFINE rec == [closePc[c] EXCEPT !.at = at]
    <3>1. closePc[c] \in [at : CloseAts, waits : Runs \cup {Nil}]
      BY DEF PcTypes
    <3>2. closePc' = [closePc EXCEPT ![c] = rec]
      BY <2>2
    <3>3. rec \in [at : CloseAts, waits : Runs \cup {Nil}]
      BY <3>1
    <3> HIDE DEF rec
    <3> QED
      BY <3>2, <3>3 DEF PcTypes
  <2> QED
    BY <2>1, <2>3 DEF TypeOK, PcTypes, CloseMark, CloseDone, CloseReturn, queueVars, frameVars,
                      endVars
<1>8. CASE \E c \in Closers : CloseStops(c)
  <2>1. closePc' \in [Closers -> [at : CloseAts, waits : Runs \cup {Nil}]]
    BY <1>8 DEF TypeOK, PcTypes, CloseStops, CloseAts
  <2> QED
    BY <1>8, <2>1 DEF TypeOK, PcTypes, CloseStops, queueVars, frameVars
<1> QED
  BY <1>1, <1>2, <1>3, <1>4, <1>5, <1>6, <1>7, <1>8 DEF RunStep, CloseStep

FramesInv == TypeOK /\ PcTypes /\ Placed /\ InOrder

\* At most one writer is at work.
LEMMA OneLive ==
  ASSUME PcTypes, OneRun, WriterOfRun, NEW r \in Runs, NEW q \in Runs, Live(r), Live(q)
  PROVE  r = q
BY DEF PcTypes, RunAts, OneRun, WriterOfRun, Busy, Live

\* The two queues hold frames of different priorities.
LEMMA SidesApart ==
  ASSUME TypeOK, NEW f
  PROVE  /\ f \in HighFrames => ~Within(f, outboundLow)
         /\ f \in LowFrames => ~Within(f, outboundHigh)
<1>1. /\ \A i \in 1..Len(outboundHigh) : outboundHigh[i] \in HighFrames
      /\ \A i \in 1..Len(outboundLow) : outboundLow[i] \in LowFrames
  BY ElementOfSeq DEF TypeOK
<1> QED
  BY <1>1, SocketCanAssumption DEF Within

\* A writer that goes on without taking a frame or letting one go.
LEMMA WriterMovesOn ==
  ASSUME FramesInv, NEW r \in Runs,
         writer' \in [Runs -> [at : WriterAts, item : Frames \cup {Nil}]],
         \A q \in Runs : writer'[q].item = writer[q].item,
         \A q \in Runs : q # r => writer'[q] = writer[q],
         writer'[r].at \in {"write", "delay"} <=> writer[r].at \in {"write", "delay"},
         outboundWriter' \in Runs \cup {Nil},
         UNCHANGED <<queueVars, closed, done, running, ctx, writerCtx, pcVars, frameVars,
                     accepted>>
  PROVE  FramesInv'
<1>1. \A q \in Runs : (writer'[q].at \in {"write", "delay"}) = (writer'[q].item # Nil)
  BY DEF FramesInv, TypeOK
<1>2. TypeOK' /\ PcTypes'
  BY <1>1 DEF FramesInv, TypeOK, PcTypes, queueVars, pcVars, frameVars
<1>3. Placed'
  BY DEF FramesInv, Placed, Distinct, Within, queueVars, frameVars
<1>4. InOrder'
  BY DEF FramesInv, InOrder, taken, queueVars, frameVars
<1> QED
  BY <1>2, <1>3, <1>4 DEF FramesInv

\* The other steps of a writer are of that kind: a high frame is retried in place.
LEMMA WriterSteps ==
  ASSUME FramesInv, NEW r \in Runs,
         \/ WriterTop(r) \/ NoHigh(r) \/ SelectDone(r) \/ WriterExit(r) \/ WriterUninstall(r)
         \/ DelayOver(r)
         \/ writer[r].item \in HighFrames /\ BufferFull(r)
  PROVE  FramesInv'
<1>0. PcTypes /\ outboundWriter \in Runs \cup {Nil}
      /\ (writer[r].at \in {"write", "delay"}) = (writer[r].item # Nil)
  BY DEF FramesInv, TypeOK
<1>1. ASSUME NEW at \in WriterAts \ {"write", "delay"}, WriterAt(r, at),
             writer[r].at \notin {"write", "delay"},
             outboundWriter' \in Runs \cup {Nil},
             UNCHANGED <<queueVars, closed, done, running, ctx, writerCtx, pcVars, frameVars,
                         accepted>>
      PROVE  FramesInv'
  <2>1. /\ writer' \in [Runs -> [at : WriterAts, item : Frames \cup {Nil}]]
        /\ writer'[r].at = at /\ writer'[r].item = Nil
        /\ \A q \in Runs : q # r => writer'[q] = writer[q]
    BY <1>0, <1>1, WriterAtEffect DEF WriterAt
  <2> QED
    BY <1>0, <1>1, <2>1, WriterMovesOn
<1>2. CASE WriterTop(r)
  BY <1>0, <1>1, <1>2 DEF WriterTop, WriterAts, endVars
<1>3. CASE NoHigh(r) \/ SelectDone(r) \/ WriterExit(r)
  BY <1>0, <1>1, <1>3 DEF NoHigh, SelectDone, WriterExit, WriterAts, endVars
<1>4. CASE WriterUninstall(r)
  BY <1>0, <1>1, <1>4 DEF WriterUninstall, WriterAts
<1>5. CASE DelayOver(r) \/ (writer[r].item \in HighFrames /\ BufferFull(r))
  <2>1. PICK at \in {"write", "delay"} :
          /\ writer' = [writer EXCEPT ![r].at = at]
          /\ writer[r].at \in {"write", "delay"}
          /\ UNCHANGED <<queueVars, endVars, pcVars, frameVars, accepted>>
    BY <1>5, SocketCanAssumption DEF DelayOver, BufferFull
  <2>2. /\ writer' \in [Runs -> [at : WriterAts, item : Frames \cup {Nil}]]
        /\ writer'[r].at = at /\ writer'[r].item = writer[r].item
        /\ \A q \in Runs : q # r => writer'[q] = writer[q]
    BY <1>0, <2>1, WriterKeeps DEF WriterAts
  <2> QED
    BY <1>0, <2>1, <2>2, WriterMovesOn DEF endVars
<1> QED
  BY <1>2, <1>3, <1>4, <1>5

\* What a writer that takes a frame does to it.
LEMMA TakesEffect ==
  ASSUME FramesInv, NEW r \in Runs, NEW f \in Frames, Takes(r, f),
         writer[r].at \in {"high", "select"}, frame[f] = "queued"
  PROVE  /\ writer' \in [Runs -> [at : WriterAts, item : Frames \cup {Nil}]]
         /\ frame' \in [Frames -> FrameAts] /\ requeuer' = requeuer
         /\ frame'[f] = "held" /\ \A g \in Frames : g # f => frame'[g] = frame[g]
         /\ \A q \in Runs : (writer'[q].at \in {"write", "delay"}) = (writer'[q].item # Nil)
         /\ \A g \in Frames : frame'[g] = "held" <=> \E q \in Runs : writer'[q].item = g
         /\ \A g \in Frames : (frame'[g] = "sleeping") = (requeuer'[g] # Nil)
<1>0. PcTypes
  BY DEF FramesInv
<1>1. /\ frame' \in [Frames -> FrameAts] /\ frame'[f] = "held" /\ requeuer' = requeuer
      /\ \A g \in Frames : g # f => frame'[g] = frame[g]
  BY <1>0, GoesEffect DEF Takes, Goes, FrameAts
<1>2. /\ writer' \in [Runs -> [at : WriterAts, item : Frames \cup {Nil}]]
      /\ writer'[r].at = "write" /\ writer'[r].item = f
      /\ \A q \in Runs : q # r => writer'[q] = writer[q]
  BY <1>0, WriterAtEffect DEF Takes, WriterAts
<1>3. writer[r].item = Nil /\ f # Nil
  BY NilFacts DEF FramesInv, TypeOK
<1>4. \A q \in Runs : (writer'[q].at \in {"write", "delay"}) = (writer'[q].item # Nil)
  BY <1>2, <1>3 DEF FramesInv, TypeOK
<1>5. ASSUME NEW g \in Frames PROVE frame'[g] = "held" <=> \E q \in Runs : writer'[q].item = g
  <2>1. CASE g = f
    BY <1>1, <1>2, <2>1
  <2>2. CASE g # f
    BY <1>1, <1>2, <1>3, <2>2, NilFacts DEF FramesInv, Placed
  <2> QED
    BY <2>1, <2>2
<1>6. \A g \in Frames : (frame'[g] = "sleeping") = (requeuer'[g] # Nil)
  BY <1>1 DEF FramesInv, TypeOK
<1> QED
  BY <1>1, <1>2, <1>4, <1>5, <1>6

\* The high frame that is taken is the next one in the order in which they were queued, and
\* the one taken before it is out of the writer's hands.
LEMMA TakeHighKeeps ==
  ASSUME FramesInv, OneRun, WriterOfRun, NEW r \in Runs, TakeHigh(r)
  PROVE  FramesInv'
<1> DEFINE f == Head(outboundHigh)
<1>0. /\ outboundHigh \in Seq(HighFrames) /\ outboundHigh # <<>> /\ Distinct(outboundHigh)
      /\ outboundHigh' = Tail(outboundHigh) /\ Len(outboundHigh) <= QueueSize
      /\ UNCHANGED <<outboundLow, endVars, pcVars, accepted>> /\ Takes(r, f)
      /\ writer[r].at \in {"high", "select"}
  BY DEF FramesInv, TypeOK, Placed, TakeHigh
<1>1. /\ outboundHigh' \in Seq(HighFrames) /\ f \in HighFrames /\ f = outboundHigh[1]
      /\ Len(outboundHigh) \in Nat \ {0} /\ Len(outboundHigh') = Len(outboundHigh) - 1
      /\ \A i \in 1..Len(outboundHigh') : outboundHigh'[i] = outboundHigh[i + 1]
      /\ Within(f, outboundHigh) /\ Distinct(outboundHigh')
      /\ \A g : Within(g, outboundHigh') <=> Within(g, outboundHigh) /\ g # f
  BY <1>0, QueueShrinks
<1> HIDE DEF f
<1>2. f \in Frames /\ frame[f] = "queued" /\ ~Within(f, outboundLow)
  BY <1>1, SidesApart DEF FramesInv, Placed, Frames
<1>3. /\ writer' \in [Runs -> [at : WriterAts, item : Frames \cup {Nil}]]
      /\ frame' \in [Frames -> FrameAts] /\ requeuer' = requeuer
      /\ frame'[f] = "held" /\ \A g \in Frames : g # f => frame'[g] = frame[g]
      /\ \A q \in Runs : (writer'[q].at \in {"write", "delay"}) = (writer'[q].item # Nil)
      /\ \A g \in Frames : frame'[g] = "held" <=> \E q \in Runs : writer'[q].item = g
      /\ \A g \in Frames : (frame'[g] = "sleeping") = (requeuer'[g] # Nil)
  BY <1>0, <1>2, TakesEffect
<1>4. Len(outboundHigh') <= QueueSize
  BY <1>0, <1>1, NilFacts
<1>5. TypeOK' /\ PcTypes'
  BY <1>0, <1>1, <1>3, <1>4 DEF FramesInv, TypeOK, PcTypes, endVars, pcVars
<1>6. Placed'
  <2>1. \A g : Within(g, outboundLow)' <=> Within(g, outboundLow)
    BY <1>0 DEF Within
  <2>2. Distinct(outboundLow')
    BY <1>0 DEF FramesInv, Placed
  <2>3. ASSUME NEW g \in Frames
        PROVE  /\ frame'[g] = "queued" <=> Within(g, outboundHigh') \/ Within(g, outboundLow')
               /\ frame'[g] = "sleeping" => g \in LowFrames
    BY <1>1, <1>2, <1>3, <2>1 DEF FramesInv, Placed
  <2> QED
    BY <1>1, <1>3, <2>2, <2>3 DEF Placed
<1>7. InOrder'
  <2>1. /\ taken \in Nat /\ Len(accepted) \in Nat
        /\ taken = Len(accepted) - Len(outboundHigh)
        /\ \A i \in 1..Len(outboundHigh) : accepted[taken + i] = outboundHigh[i]
        /\ \A i \in 1..taken : /\ frame[accepted[i]] \in {"held", "sent", "dropped"}
                               /\ frame[accepted[i]] = "held" => i = taken
    BY LenProperties DEF FramesInv, PcTypes, InOrder, taken
  <2>2. accepted' = accepted
    BY <1>0
  <2>3. taken' = taken + 1
    BY <1>1, <2>1, <2>2 DEF taken
  <2>4. accepted[taken + 1] = f
    BY <1>1, <2>1
  <2>5. \A i \in 1..Len(outboundHigh') : accepted'[taken' + i] = outboundHigh'[i]
    <3> SUFFICES ASSUME NEW i \in 1..Len(outboundHigh')
                 PROVE  accepted[taken + 1 + i] = outboundHigh'[i]
      BY <2>2, <2>3
    <3>1. i + 1 \in 1..Len(outboundHigh) /\ taken + (i + 1) = taken + 1 + i
      BY <1>1, <2>1
    <3> QED
      BY <1>1, <2>1, <3>1
  <2>6. ASSUME NEW i \in 1..taken
        PROVE  accepted[i] \in Frames /\ frame'[accepted[i]] \in {"sent", "dropped"}
    <3>1. accepted[i] \in Frames
      <4>1. i \in 1..Len(accepted)
        BY <1>1, <2>1
      <4> QED
        BY <4>1, ElementOfSeq DEF FramesInv, PcTypes, Frames
    <3>2. accepted[i] # f
      BY <1>2, <2>1
    <3>3. frame[accepted[i]] # "held"
      <4> SUFFICES ASSUME frame[accepted[i]] = "held" PROVE FALSE
        OBVIOUS
      <4>1. PICK q \in Runs : writer[q].item = accepted[i]
        BY <3>1 DEF FramesInv, Placed
      <4>2. Live(q) /\ Live(r)
        BY <1>0, <3>1, <4>1, NilFacts DEF FramesInv, TypeOK, Live
      <4>3. q = r
        BY <4>2, OneLive DEF FramesInv
      <4> QED
        BY <1>0, <3>1, <4>1, <4>3, NilFacts DEF FramesInv, TypeOK
    <3> QED
      BY <1>3, <2>1, <3>1, <3>2, <3>3
  <2>7. \A i \in 1..taken' : /\ frame'[accepted'[i]] \in {"held", "sent", "dropped"}
                             /\ frame'[accepted'[i]] = "held" => i = taken'
    <3>1. \A n \in Nat : \A i \in 1..(n + 1) : i \in 1..n \/ i = n + 1
      OBVIOUS
    <3>2. \A i \in 1..(taken + 1) : i \in 1..taken \/ i = taken + 1
      BY <2>1, <3>1
    <3> QED
      BY <1>3, <2>2, <2>3, <2>4, <2>6, <3>2
  <2>8. taken' \in Nat
    BY <2>1, <2>3
  <2> QED
    BY <2>5, <2>7, <2>8 DEF InOrder
<1> QED
  BY <1>5, <1>6, <1>7 DEF FramesInv

\* The order stands when nothing is queued or taken, and no high frame that was taken comes back.
LEMMA OrderStands ==
  ASSUME FramesInv, UNCHANGED <<outboundHigh, accepted>>,
         \A g \in HighFrames :
           /\ frame[g] \in {"held", "sent", "dropped"} => frame'[g] \in {"held", "sent", "dropped"}
           /\ frame'[g] = "held" => frame[g] = "held"
  PROVE  InOrder'
<1>1. /\ taken \in Nat /\ Len(accepted) \in Nat /\ Len(outboundHigh) \in Nat
      /\ taken = Len(accepted) - Len(outboundHigh)
  BY LenProperties DEF FramesInv, TypeOK, PcTypes, InOrder, taken
<1>2. \A i \in 1..taken : accepted[i] \in HighFrames
  <2> SUFFICES ASSUME NEW i \in 1..taken PROVE accepted[i] \in HighFrames
    OBVIOUS
  <2>1. i \in 1..Len(accepted)
    BY <1>1
  <2> QED
    BY <2>1, ElementOfSeq DEF FramesInv, PcTypes
<1>3. taken' = taken
  BY DEF taken
<1> QED
  BY <1>2, <1>3 DEF FramesInv, InOrder

\* A low frame that is taken is out of its queue.
LEMMA TakeLowKeeps ==
  ASSUME FramesInv, NEW r \in Runs, TakeLow(r)
  PROVE  FramesInv'
<1> DEFINE f == Head(outboundLow)
<1>0. /\ outboundLow \in Seq(LowFrames) /\ outboundLow # <<>> /\ Distinct(outboundLow)
      /\ outboundLow' = Tail(outboundLow) /\ Len(outboundLow) <= QueueSize
      /\ UNCHANGED <<outboundHigh, endVars, pcVars, accepted>> /\ Takes(r, f)
      /\ writer[r].at \in {"high", "select"}
  BY DEF FramesInv, TypeOK, Placed, TakeLow
<1>1. /\ outboundLow' \in Seq(LowFrames) /\ f \in LowFrames
      /\ Len(outboundLow) \in Nat \ {0} /\ Len(outboundLow') = Len(outboundLow) - 1
      /\ Within(f, outboundLow) /\ Distinct(outboundLow')
      /\ \A g : Within(g, outboundLow') <=> Within(g, outboundLow) /\ g # f
  BY <1>0, QueueShrinks
<1> HIDE DEF f
<1>2. f \in Frames /\ frame[f] = "queued" /\ ~Within(f, outboundHigh)
  BY <1>1, SidesApart DEF FramesInv, Placed, Frames
<1>3. /\ writer' \in [Runs -> [at : WriterAts, item : Frames \cup {Nil}]]
      /\ frame' \in [Frames -> FrameAts] /\ requeuer' = requeuer
      /\ frame'[f] = "held" /\ \A g \in Frames : g # f => frame'[g] = frame[g]
      /\ \A q \in Runs : (writer'[q].at \in {"write", "delay"}) = (writer'[q].item # Nil)
      /\ \A g \in Frames : frame'[g] = "held" <=> \E q \in Runs : writer'[q].item = g
      /\ \A g \in Frames : (frame'[g] = "sleeping") = (requeuer'[g] # Nil)
  BY <1>0, <1>2, TakesEffect
<1>4. Len(outboundLow') <= QueueSize
  BY <1>0, <1>1, NilFacts
<1>5. TypeOK' /\ PcTypes'
  BY <1>0, <1>1, <1>3, <1>4 DEF FramesInv, TypeOK, PcTypes, endVars, pcVars
<1>6. Placed'
  <2>1. \A g : Within(g, outboundHigh)' <=> Within(g, outboundHigh)
    BY <1>0 DEF Within
  <2>2. Distinct(outboundHigh')
    BY <1>0 DEF FramesInv, Placed
  <2>3. ASSUME NEW g \in Frames
        PROVE  /\ frame'[g] = "queued" <=> Within(g, outboundHigh') \/ Within(g, outboundLow')
               /\ frame'[g] = "sleeping" => g \in LowFrames
    BY <1>1, <1>2, <1>3, <2>1 DEF FramesInv, Placed
  <2> QED
    BY <1>1, <1>3, <2>2, <2>3 DEF Placed
<1>7. InOrder'
  <2>1. \A g \in HighFrames : g \in Frames /\ frame'[g] = frame[g]
    BY <1>1, <1>3, SocketCanAssumption DEF Frames
  <2> QED
    BY <1>0, <2>1, OrderStands
<1> QED
  BY <1>5, <1>6, <1>7 DEF FramesInv

\* A writer lets its frame go: it has been sent, or is given up, or sleeps, and no other writer
\* has it.
LEMMA LetGoKeeps ==
  ASSUME FramesInv, OneRun, WriterOfRun, NEW r \in Runs,
         writer[r].at \in {"write", "delay"}, WriterAt(r, "top"),
         \/ Goes(writer[r].item, "sent") \/ Goes(writer[r].item, "dropped")
         \/ Sleeps(writer[r].item, r) /\ writer[r].item \in LowFrames,
         UNCHANGED <<queueVars, endVars, pcVars, accepted>>
  PROVE  FramesInv'
<1> DEFINE f == writer[r].item
<1>0. PcTypes /\ f # Nil /\ f \in Frames /\ frame[f] = "held"
  BY DEF FramesInv, TypeOK, PcTypes, Placed
<1>1. /\ writer' \in [Runs -> [at : WriterAts, item : Frames \cup {Nil}]]
      /\ writer'[r].at = "top" /\ writer'[r].item = Nil
      /\ \A q \in Runs : q # r => writer'[q] = writer[q]
  BY <1>0, WriterAtEffect DEF WriterAt, WriterAts
<1>2. \A q \in Runs : q # r => writer[q].item # f
  <2> SUFFICES ASSUME NEW q \in Runs, q # r, writer[q].item = f PROVE FALSE
    OBVIOUS
  <2>1. Live(q) /\ Live(r)
    BY <1>0 DEF FramesInv, TypeOK, Live
  <2> QED
    BY <1>0, <2>1, OneLive
<1>3. PICK at \in {"sent", "dropped", "sleeping"} : frame' = [frame EXCEPT ![f] = at]
        /\ IF at = "sleeping" THEN f \in LowFrames /\ requeuer' = [requeuer EXCEPT ![f] = r]
                              ELSE requeuer' = requeuer
  BY DEF Goes, Sleeps
<1> HIDE DEF f
<1>4. /\ frame' \in [Frames -> FrameAts] /\ frame'[f] = at
      /\ \A g \in Frames : g # f => frame'[g] = frame[g]
  BY <1>0, <1>3, GoesEffect DEF FrameAts
<1>5. /\ requeuer' \in [Frames -> Runs \cup {Nil}]
      /\ \A g \in Frames : (frame'[g] = "sleeping") = (requeuer'[g] # Nil)
  BY <1>0, <1>3, <1>4, NilFacts DEF FramesInv, TypeOK, PcTypes
<1>6. TypeOK' /\ PcTypes'
  <2>1. \A q \in Runs : (writer'[q].at \in {"write", "delay"}) = (writer'[q].item # Nil)
    BY <1>1 DEF FramesInv, TypeOK
  <2> QED
    BY <1>1, <1>4, <1>5, <2>1 DEF FramesInv, TypeOK, PcTypes, endVars, pcVars, queueVars
<1>7. Placed'
  <2>1. \A g : /\ Within(g, outboundLow)' <=> Within(g, outboundLow)
               /\ Within(g, outboundHigh)' <=> Within(g, outboundHigh)
    BY DEF Within, queueVars
  <2>2. Distinct(outboundHigh') /\ Distinct(outboundLow')
    BY DEF FramesInv, Placed, queueVars
  <2>3. ASSUME NEW g \in Frames
        PROVE  /\ frame'[g] = "queued" <=> Within(g, outboundHigh') \/ Within(g, outboundLow')
               /\ frame'[g] = "sleeping" => g \in LowFrames
    BY <1>0, <1>3, <1>4, <2>1 DEF FramesInv, Placed
  <2>4. ASSUME NEW g \in Frames PROVE frame'[g] = "held" <=> \E q \in Runs : writer'[q].item = g
    <3>1. CASE g = f
      BY <1>0, <1>1, <1>2, <1>4, <3>1
    <3>2. CASE g # f
      <4>1. g # Nil /\ writer[r].item # g
        BY <3>2, NilFacts DEF f
      <4> QED
        BY <1>1, <1>4, <3>2, <4>1 DEF FramesInv, Placed
    <3> QED
      BY <3>1, <3>2
  <2> QED
    BY <2>2, <2>3, <2>4 DEF Placed
<1>8. InOrder'
  <2>1. \A g \in HighFrames : g \in Frames
    BY DEF Frames
  <2>2. f \in HighFrames => at # "sleeping"
    BY <1>3, SocketCanAssumption
  <2> QED
    BY <1>0, <1>4, <2>1, <2>2, OrderStands DEF queueVars
<1> QED
  BY <1>6, <1>7, <1>8 DEF FramesInv

\* A frame that is neither in a queue nor in a writer's hands moves, and nothing else does.
LEMMA LooseFrameMoves ==
  ASSUME FramesInv, NEW f \in Frames, frame[f] \in {"unwritten", "put", "sleeping"},
         NEW at \in {"put", "dropped"}, frame' = [frame EXCEPT ![f] = at],
         requeuer' = [requeuer EXCEPT ![f] = Nil],
         UNCHANGED <<queueVars, endVars, pcVars, writer, accepted>>
  PROVE  FramesInv'
<1>1. /\ frame' \in [Frames -> FrameAts] /\ frame'[f] = at
      /\ \A g \in Frames : g # f => frame'[g] = frame[g]
  BY GoesEffect DEF FramesInv, FrameAts
<1>2. /\ requeuer' \in [Frames -> Runs \cup {Nil}]
      /\ \A g \in Frames : (frame'[g] = "sleeping") = (requeuer'[g] # Nil)
  BY <1>1 DEF FramesInv, TypeOK, PcTypes
<1>3. TypeOK' /\ PcTypes'
  BY <1>1, <1>2 DEF FramesInv, TypeOK, PcTypes, endVars, pcVars, queueVars
<1>4. Placed'
  BY <1>1 DEF FramesInv, Placed, Within, Distinct, queueVars
<1>5. InOrder'
  BY <1>1, OrderStands DEF Frames, queueVars
<1> QED
  BY <1>3, <1>4, <1>5 DEF FramesInv

\* A low frame is queued, for the first time or again.
LEMMA LowIsQueued ==
  ASSUME FramesInv, NEW f \in LowFrames, frame[f] \in {"put", "sleeping"},
         Len(outboundLow) < QueueSize, outboundLow' = Append(outboundLow, f),
         frame' = [frame EXCEPT ![f] = "queued"], requeuer' = [requeuer EXCEPT ![f] = Nil],
         UNCHANGED <<outboundHigh, endVars, pcVars, writer, accepted>>
  PROVE  FramesInv'
<1>0. f \in Frames /\ ~Within(f, outboundLow) /\ ~Within(f, outboundHigh)
      /\ outboundLow \in Seq(LowFrames) /\ Distinct(outboundLow) /\ Len(outboundLow) \in Nat
  BY LenProperties DEF FramesInv, Placed, Frames, TypeOK
<1>1. /\ outboundLow' \in Seq(LowFrames) /\ Len(outboundLow') = Len(outboundLow) + 1
      /\ Distinct(outboundLow')
      /\ \A g : Within(g, outboundLow') <=> Within(g, outboundLow) \/ g = f
  BY <1>0, QueueGrows
<1>2. /\ frame' \in [Frames -> FrameAts] /\ frame'[f] = "queued"
      /\ \A g \in Frames : g # f => frame'[g] = frame[g]
  BY <1>0, GoesEffect DEF FramesInv, FrameAts
<1>3. /\ requeuer' \in [Frames -> Runs \cup {Nil}]
      /\ \A g \in Frames : (frame'[g] = "sleeping") = (requeuer'[g] # Nil)
  BY <1>0, <1>2 DEF FramesInv, TypeOK, PcTypes
<1>4. Len(outboundLow') <= QueueSize
  BY <1>0, <1>1, NilFacts
<1>5. TypeOK' /\ PcTypes'
  BY <1>1, <1>2, <1>3, <1>4 DEF FramesInv, TypeOK, PcTypes, endVars, pcVars
<1>6. Placed'
  <2>1. \A g : Within(g, outboundHigh)' <=> Within(g, outboundHigh)
    BY DEF Within
  <2>2. Distinct(outboundHigh')
    BY DEF FramesInv, Placed
  <2>3. ASSUME NEW g \in Frames
        PROVE  /\ frame'[g] = "queued" <=> Within(g, outboundHigh') \/ Within(g, outboundLow')
               /\ frame'[g] = "sleeping" => g \in LowFrames
               /\ frame'[g] = "held" <=> \E q \in Runs : writer'[q].item = g
    BY <1>0, <1>1, <1>2, <2>1 DEF FramesInv, Placed
  <2> QED
    BY <1>1, <2>2, <2>3 DEF Placed
<1>7. InOrder'
  <2>1. \A g \in HighFrames : g \in Frames /\ frame'[g] = frame[g]
    BY <1>2, SocketCanAssumption DEF Frames
  <2> QED
    BY <2>1, OrderStands
<1> QED
  BY <1>5, <1>6, <1>7 DEF FramesInv

\* A high frame is queued behind all the others, and recorded behind them.
LEMMA HighIsQueued ==
  ASSUME FramesInv, NEW f \in HighFrames, frame[f] = "put",
         Len(outboundHigh) < QueueSize, outboundHigh' = Append(outboundHigh, f),
         accepted' = Append(accepted, f),
         frame' = [frame EXCEPT ![f] = "queued"], requeuer' = requeuer,
         UNCHANGED <<outboundLow, endVars, pcVars, writer>>
  PROVE  FramesInv'
<1>0. /\ f \in Frames /\ ~Within(f, outboundLow) /\ ~Within(f, outboundHigh)
      /\ outboundHigh \in Seq(HighFrames) /\ Distinct(outboundHigh)
      /\ Len(outboundHigh) \in Nat /\ accepted \in Seq(HighFrames) /\ Len(accepted) \in Nat
  BY LenProperties DEF FramesInv, Placed, Frames, TypeOK, PcTypes
<1>1. /\ outboundHigh' \in Seq(HighFrames) /\ Len(outboundHigh') = Len(outboundHigh) + 1
      /\ outboundHigh'[Len(outboundHigh) + 1] = f
      /\ \A i \in 1..Len(outboundHigh) : outboundHigh'[i] = outboundHigh[i]
      /\ Distinct(outboundHigh')
      /\ \A g : Within(g, outboundHigh') <=> Within(g, outboundHigh) \/ g = f
  BY <1>0, QueueGrows
<1>2. /\ accepted' \in Seq(HighFrames) /\ Len(accepted') = Len(accepted) + 1
      /\ accepted'[Len(accepted) + 1] = f
      /\ \A i \in 1..Len(accepted) : accepted'[i] = accepted[i]
  BY <1>0, QueueGrows
<1>3. /\ frame' \in [Frames -> FrameAts] /\ frame'[f] = "queued"
      /\ \A g \in Frames : g # f => frame'[g] = frame[g]
  BY <1>0, GoesEffect DEF FramesInv, FrameAts
<1>4. Len(outboundHigh') <= QueueSize
  BY <1>0, <1>1, NilFacts
<1>5. \A g \in Frames : (frame'[g] = "sleeping") = (requeuer'[g] # Nil)
  BY <1>0, <1>3 DEF FramesInv, TypeOK
<1>6. TypeOK' /\ PcTypes'
  BY <1>1, <1>2, <1>3, <1>4, <1>5 DEF FramesInv, TypeOK, PcTypes, endVars, pcVars
<1>7. Placed'
  <2>1. \A g : Within(g, outboundLow)' <=> Within(g, outboundLow)
    BY DEF Within
  <2>2. Distinct(outboundLow')
    BY DEF FramesInv, Placed
  <2>3. ASSUME NEW g \in Frames
        PROVE  /\ frame'[g] = "queued" <=> Within(g, outboundHigh') \/ Within(g, outboundLow')
               /\ frame'[g] = "sleeping" => g \in LowFrames
               /\ frame'[g] = "held" <=> \E q \in Runs : writer'[q].item = g
    BY <1>0, <1>1, <1>3, <2>1 DEF FramesInv, Placed
  <2> QED
    BY <1>1, <2>2, <2>3 DEF Placed
<1>8. InOrder'
  <2>1. PICK n : n = taken
    OBVIOUS
  <2>2. /\ n \in Nat /\ n = Len(accepted) - Len(outboundHigh)
        /\ \A i \in 1..Len(outboundHigh) : accepted[n + i] = outboundHigh[i]
        /\ \A i \in 1..n : /\ frame[accepted[i]] \in {"held", "sent", "dropped"}
                           /\ frame[accepted[i]] = "held" => i = n
    BY <2>1 DEF FramesInv, InOrder, taken
  <2>3. taken' = n
    BY <1>0, <1>1, <1>2, <2>2 DEF taken
  <2>4. ASSUME NEW i \in 1..Len(outboundHigh') PROVE accepted'[n + i] = outboundHigh'[i]
    <3>1. CASE i = Len(outboundHigh) + 1
      <4>1. n + i = Len(accepted) + 1
        BY <1>0, <2>2, <3>1
      <4> QED
        BY <1>1, <1>2, <3>1, <4>1
    <3>2. CASE i \in 1..Len(outboundHigh)
      <4>1. n + i \in 1..Len(accepted)
        BY <1>0, <2>2, <3>2
      <4> QED
        BY <1>1, <1>2, <2>2, <3>2, <4>1
    <3>3. \A m \in Nat : \A j \in 1..(m + 1) : j \in 1..m \/ j = m + 1
      OBVIOUS
    <3> QED
      BY <1>0, <1>1, <3>1, <3>2, <3>3
  <2>5. ASSUME NEW i \in 1..n
        PROVE  /\ frame'[accepted'[i]] \in {"held", "sent", "dropped"}
               /\ frame'[accepted'[i]] = "held" => i = n
    <3>1. i \in 1..Len(accepted)
      BY <1>0, <2>2
    <3>2. accepted[i] \in Frames /\ accepted'[i] = accepted[i]
      BY <1>0, <1>2, <3>1, ElementOfSeq DEF Frames
    <3>3. accepted[i] # f
      BY <2>2
    <3> QED
      BY <1>3, <2>2, <3>2, <3>3
  <2> QED
    BY <2>2, <2>3, <2>4, <2>5 DEF InOrder
<1> QED
  BY <1>6, <1>7, <1>8 DEF FramesInv

-----------------------------------------------------------------------------
(* The invariant of the specification.                                     *)

\* Nothing is there in the beginning.
LEMMA EndpointInit == Init => EndpointInv
<1> SUFFICES ASSUME Init PROVE EndpointInv
  OBVIOUS
<1>0. outboundHigh = <<>> /\ outboundLow = <<>> /\ accepted = <<>> /\ Len(<<>>) = 0
      /\ 1..0 = {} /\ <<>> \in Seq(HighFrames) /\ <<>> \in Seq(LowFrames)
  BY EmptySeq DEF Init
<1>1. /\ writer \in [Runs -> [at : WriterAts, item : Frames \cup {Nil}]]
      /\ runPc \in [Runs -> [at : RunAts, waits : Runs \cup {Nil}]]
      /\ closePc \in [Closers -> [at : CloseAts, waits : Runs \cup {Nil}]]
      /\ frame \in [Frames -> FrameAts] /\ requeuer \in [Frames -> Runs \cup {Nil}]
  BY DEF Init, WriterAts, RunAts, CloseAts, FrameAts
<1>2. TypeOK /\ PcTypes
  <2>1. /\ {closed, done, running} \subseteq BOOLEAN /\ outboundWriter \in Runs \cup {Nil}
        /\ writerCtx \subseteq Runs
    BY DEF Init
  <2>2. /\ \A r \in Runs : (writer[r].at \in {"write", "delay"}) = (writer[r].item # Nil)
        /\ \A f \in Frames : (frame[f] = "sleeping") = (requeuer[f] # Nil)
    BY DEF Init
  <2>3. 0 <= QueueSize
    BY NilFacts
  <2> QED
    BY <1>0, <1>1, <2>1, <2>2, <2>3 DEF TypeOK, PcTypes
<1>3. OneRun /\ WriterOfRun /\ Closing
  BY DEF Init, OneRun, WriterOfRun, Closing, Busy, Live, Serving
<1>4. Placed
  BY <1>0, NilFacts DEF Init, Placed, Distinct, Within
<1>5. InOrder
  BY <1>0 DEF InOrder, taken
<1> QED
  BY <1>2, <1>3, <1>4, <1>5 DEF EndpointInv, LifeInv

\* Every step keeps the frames in their places and in their order.
LEMMA FramesStep ==
  ASSUME FramesInv, OneRun, WriterOfRun, [Next]_vars PROVE FramesInv'
<1>0. TypeOK /\ PcTypes
  BY DEF FramesInv
<1>1. CASE \/ \E r \in Runs : \/ RunEnter(r) \/ RunStep(r) \/ ChannelRunReturns(r)
                              \/ CancelContext(r)
           \/ \E c \in Closers : CloseMark(c) \/ CloseStep(c)
  <2>1. TypeOK' /\ PcTypes'
    BY <1>0, <1>1, CallersKeepTypes
  <2>2. /\ UNCHANGED <<queueVars, frameVars, accepted>>
        /\ \A q \in Runs : writer'[q].item = writer[q].item
    <3>1. ASSUME NEW r \in Runs, InstallWriter(r)
          PROVE  \A q \in Runs : writer'[q].item = writer[q].item
      BY <1>0, <3>1, WriterKeeps DEF InstallWriter, WriterAts
    <3> QED
      BY <1>1, <3>1
      DEF RunEnter, RunStep, Start, InstallWriter, RunStopped, RunLeave, ChannelRunReturns,
          CancelContext, CloseMark, CloseStep, CloseDone, CloseStops, CloseReturn
  <2>3. Placed'
    BY <2>2 DEF FramesInv, Placed, Distinct, Within, queueVars, frameVars
  <2>4. InOrder'
    BY <2>2 DEF FramesInv, InOrder, taken, queueVars, frameVars
  <2> QED
    BY <2>1, <2>3, <2>4 DEF FramesInv
<1>2. ASSUME NEW r \in Runs, WriterStep(r) PROVE FramesInv'
  <2>1. writer[r].item \in HighFrames \/ writer[r].item \in LowFrames \/ writer[r].item = Nil
    BY <1>0 DEF PcTypes, Frames
  <2>2. CASE Written(r)
    BY <2>2, LetGoKeeps DEF Written
  <2>3. CASE DelayCancelled(r)
    BY <2>3, LetGoKeeps DEF DelayCancelled
  <2>4. CASE BufferFull(r) /\ writer[r].item \notin HighFrames
    BY <2>4, LetGoKeeps DEF BufferFull
  <2> QED
    BY <1>2, <2>2, <2>3, <2>4, WriterSteps, TakeHighKeeps, TakeLowKeeps DEF WriterStep
<1>3. ASSUME NEW f \in Frames, WriteFrame(f) \/ PutStep(f) \/ Requeue(f) PROVE FramesInv'
  <2>1. ASSUME requeuer' = requeuer, frame[f] # "sleeping"
        PROVE  requeuer' = [requeuer EXCEPT ![f] = Nil]
    BY <1>0, <2>1 DEF TypeOK, PcTypes
  <2>2. CASE WriteFrame(f)
    BY <2>1, <2>2, LooseFrameMoves DEF WriteFrame, Goes
  <2>3. CASE PutLow(f)
    <3>1. requeuer' = [requeuer EXCEPT ![f] = Nil]
      BY <2>1, <2>3 DEF PutLow, Goes
    <3>2. CASE Len(outboundLow) < QueueSize /\ outboundLow' = Append(outboundLow, f)
                 /\ Goes(f, "queued")
      BY <2>3, <3>1, <3>2, LowIsQueued DEF PutLow, Goes
    <3>3. CASE Goes(f, "dropped") /\ UNCHANGED outboundLow
      BY <2>3, <3>1, <3>3, LooseFrameMoves DEF PutLow, Goes, queueVars
    <3> QED
      BY <2>3, <3>2, <3>3 DEF PutLow
  <2>4. CASE PutHigh(f)
    <3>1. CASE Len(outboundHigh) < QueueSize /\ outboundHigh' = Append(outboundHigh, f)
                 /\ accepted' = Append(accepted, f) /\ Goes(f, "queued")
      BY <2>4, <3>1, HighIsQueued DEF PutHigh, Goes
    <3>2. CASE Goes(f, "dropped") /\ UNCHANGED <<outboundHigh, accepted>>
      <4>1. requeuer' = [requeuer EXCEPT ![f] = Nil]
        BY <2>1, <2>4, <3>2 DEF PutHigh, Goes
      <4> QED
        BY <2>4, <3>2, <4>1, LooseFrameMoves DEF PutHigh, Goes, queueVars
    <3> QED
      BY <2>4, <3>1, <3>2 DEF PutHigh
  <2>5. CASE Requeue(f)
    <3>1. f \in LowFrames
      BY <2>5 DEF FramesInv, Placed, Requeue
    <3>2. CASE Len(outboundLow) < QueueSize /\ outboundLow' = Append(outboundLow, f)
                 /\ frame' = [frame EXCEPT ![f] = "queued"]
      BY <2>5, <3>1, <3>2, LowIsQueued DEF Requeue
    <3>3. CASE frame' = [frame EXCEPT ![f] = "dropped"] /\ UNCHANGED outboundLow
      BY <2>5, <3>3, LooseFrameMoves DEF Requeue, queueVars
    <3> QED
      BY <2>5, <3>2, <3>3 DEF Requeue
  <2> QED
    BY <1>3, <2>2, <2>3, <2>4, <2>5 DEF PutStep
<1>4. CASE UNCHANGED vars
  <2>1. TypeOK' /\ PcTypes'
    BY <1>0, <1>4 DEF TypeOK, PcTypes, vars, queueVars, endVars, pcVars, frameVars
  <2>2. Placed' /\ InOrder'
    BY <1>4 DEF FramesInv, Placed, InOrder, Distinct, Within, taken, vars, queueVars, frameVars
  <2> QED
    BY <2>1, <2>2 DEF FramesInv
<1> QED
  BY <1>1, <1>2, <1>3, <1>4 DEF Next

\* Every step keeps the invariant.
LEMMA EndpointStep == EndpointInv /\ [Next]_vars => EndpointInv'
<1> SUFFICES ASSUME EndpointInv, [Next]_vars PROVE EndpointInv'
  OBVIOUS
<1>1. FramesInv /\ TypeOK /\ PcTypes /\ OneRun /\ WriterOfRun /\ Closing
  BY DEF EndpointInv, LifeInv, FramesInv
<1>2. FramesInv'
  BY <1>1, FramesStep
<1>3. OneRun' /\ WriterOfRun' /\ Closing'
  BY <1>1, OneRunStep, WriterOfRunStep, ClosingStep
<1> QED
  BY <1>2, <1>3 DEF EndpointInv, LifeInv, FramesInv

\* Every state satisfies it.
THEOREM EndpointAlways == Spec => []EndpointInv
BY EndpointInit, EndpointStep, PTL DEF Spec

\* Never do two writers serve the queues, and none does once a Close has returned, even that of
\* a Run which installs it only after Close has looked for it.
THEOREM WritersAreExclusive == Spec => []OneWriterUntilClosed
<1>1. EndpointInv => OneWriterUntilClosed
  <2> SUFFICES ASSUME EndpointInv PROVE OneWriterUntilClosed
    OBVIOUS
  <2> DEFINE live == {r \in Runs : writer[r].at \notin {"off", "exit", "end"}}
  <2>1. \A r, q \in live : r = q
    BY OneLive DEF EndpointInv, LifeInv, Live
  <2>2. PICK x : live \subseteq {x}
    BY <2>1
  <2>3. IsFiniteSet({x}) /\ Cardinality({x}) = 1
    BY FS_Singleton
  <2>4. Cardinality(live) <= 1
    BY <2>2, <2>3, FS_Subset
  <2>5. ASSUME NEW c \in Closers, closePc[c].at = "end", NEW r \in Runs
        PROVE  writer[r].at \in {"off", "top", "done", "exit", "end"}
    BY <2>5 DEF EndpointInv, LifeInv, PcTypes, WriterAts, Closing, Serving
  <2> QED
    BY <2>4, <2>5 DEF OneWriterUntilClosed
<1> QED
  BY <1>1, EndpointAlways, PTL

\* How often a frame is in a queue.
LEMMA CountOfDistinct ==
  ASSUME NEW S, NEW q \in Seq(S), Distinct(q), NEW f
  PROVE  Count(f, q) = IF Within(f, q) THEN 1 ELSE 0
<1>1. DOMAIN q = 1..Len(q)
  BY LenProperties
<1>2. CASE Within(f, q)
  <2>1. PICK i \in 1..Len(q) : q[i] = f
    BY <1>2 DEF Within
  <2>2. {j \in DOMAIN q : q[j] = f} = {i}
    BY <1>1, <2>1 DEF Distinct
  <2> QED
    BY <1>2, <2>2, FS_Singleton DEF Count
<1>3. CASE ~Within(f, q)
  <2>1. {j \in DOMAIN q : q[j] = f} = {}
    BY <1>1, <1>3 DEF Within
  <2> QED
    BY <1>3, <2>1, FS_EmptySet DEF Count
<1> QED
  BY <1>2, <1>3

\* A frame is in one place at a time, through every retry: once in its queue, in the hands of one
\* writer, or out of the endpoint, so that it cannot be sent twice.
THEOREM FramesHaveOnePlace == Spec => []OnePlace
<1>1. EndpointInv => OnePlace
  <2> SUFFICES ASSUME EndpointInv, NEW f \in Frames
               PROVE  /\ Count(f, outboundHigh) + Count(f, outboundLow) =
                           IF frame[f] = "queued" THEN 1 ELSE 0
                      /\ Cardinality({r \in Runs : writer[r].item = f}) =
                           IF frame[f] = "held" THEN 1 ELSE 0
    BY DEF OnePlace, EndpointInv, LifeInv
  <2>1. /\ Count(f, outboundHigh) = IF Within(f, outboundHigh) THEN 1 ELSE 0
        /\ Count(f, outboundLow) = IF Within(f, outboundLow) THEN 1 ELSE 0
    BY CountOfDistinct DEF EndpointInv, LifeInv, TypeOK, Placed
  <2>2. ~(Within(f, outboundHigh) /\ Within(f, outboundLow))
    BY SidesApart DEF EndpointInv, LifeInv, Frames
  <2>3. Count(f, outboundHigh) + Count(f, outboundLow) = IF frame[f] = "queued" THEN 1 ELSE 0
    BY <2>1, <2>2 DEF EndpointInv, Placed
  <2>4. CASE frame[f] = "held"
    <3>1. PICK r \in Runs : writer[r].item = f
      BY <2>4 DEF EndpointInv, Placed
    <3>2. ASSUME NEW q \in Runs, writer[q].item = f PROVE q = r
      <4>1. Live(q) /\ Live(r)
        BY <3>1, <3>2, NilFacts DEF EndpointInv, LifeInv, TypeOK, Live
      <4> QED
        BY <4>1, OneLive DEF EndpointInv, LifeInv
    <3>3. {q \in Runs : writer[q].item = f} = {r}
      BY <3>1, <3>2
    <3> QED
      BY <2>3, <2>4, <3>3, FS_Singleton
  <2>5. CASE frame[f] # "held"
    <3>1. {q \in Runs : writer[q].item = f} = {}
      BY <2>5 DEF EndpointInv, Placed
    <3> QED
      BY <2>3, <2>5, <3>1, FS_EmptySet
  <2> QED
    BY <2>4, <2>5
<1> QED
  BY <1>1, EndpointAlways, PTL

\* High priority frames, among them the frames of one fast packet, leave in the order in which
\* they were queued, retries included: when one has been sent, none that was queued before it
\* is still to be.
THEOREM HighFramesLeaveInOrder == Spec => []HighInOrder
<1>1. EndpointInv => HighInOrder
  <2> SUFFICES ASSUME EndpointInv, NEW i \in DOMAIN accepted, NEW j \in DOMAIN accepted,
                      i < j, frame[accepted[j]] = "sent"
               PROVE  frame[accepted[i]] \notin {"queued", "held"}
    BY DEF HighInOrder
  <2>1. PICK n : n = taken
    OBVIOUS
  <2>2. /\ n \in Nat /\ n = Len(accepted) - Len(outboundHigh)
        /\ \A k \in 1..Len(outboundHigh) : accepted[n + k] = outboundHigh[k]
        /\ \A k \in 1..n : /\ frame[accepted[k]] \in {"held", "sent", "dropped"}
                           /\ frame[accepted[k]] = "held" => k = n
    BY <2>1 DEF EndpointInv, InOrder, taken
  <2>3. /\ Len(accepted) \in Nat /\ Len(outboundHigh) \in Nat
        /\ i \in 1..Len(accepted) /\ j \in 1..Len(accepted)
    BY LenProperties DEF EndpointInv, LifeInv, TypeOK, PcTypes
  <2>4. j <= n
    <3> SUFFICES ASSUME j > n PROVE FALSE
      BY <2>2, <2>3
    <3>1. j - n \in 1..Len(outboundHigh) /\ n + (j - n) = j
      BY <2>2, <2>3
    <3>2. accepted[j] = outboundHigh[j - n]
      BY <2>2, <3>1
    <3>3. accepted[j] \in Frames /\ Within(accepted[j], outboundHigh)
      BY <2>3, <3>1, <3>2, ElementOfSeq DEF EndpointInv, LifeInv, PcTypes, Frames, Within
    <3> QED
      BY <3>3 DEF EndpointInv, Placed
  <2>5. i \in 1..n /\ i # n
    BY <2>2, <2>3, <2>4
  <2> QED
    BY <2>2, <2>5
<1> QED
  BY <1>1, EndpointAlways, PTL
=============================================================================
