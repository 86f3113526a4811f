----------------------------- MODULE SocketCan -----------------------------
(***************************************************************************)
(* The SocketCAN endpoint's lifecycle and its outbound path                *)
(* (pkg/endpoint/socketcanendpoint/socketcanendpoint.go).                  *)
(*                                                                         *)
(* Callers of WriteFrame put frames into a high and a low priority queue;  *)
(* the writer goroutine of the current Run takes them out and writes them  *)
(* to the channel, retrying while the kernel's buffer is full: a high      *)
(* frame in place, a low one through a goroutine that puts it back into    *)
(* the queue later.  Run and Close stop the writer and wait for it.        *)
(*                                                                         *)
(* The channel is external: Start may fail, Run may return at any time,    *)
(* WriteFrame may succeed, fail, or find the buffer full.  Time is left    *)
(* out: a timer may fire at any moment.  Which frames are low priority     *)
(* (isLowPrioritySocketCANFrame) is given by the two sets of frames; each  *)
(* frame is written once.                                                  *)
(***************************************************************************)
EXTENDS Naturals, Sequences, FiniteSets

CONSTANTS HighFrames, LowFrames,
          QueueSize,  \* socketCANOutboundQueueSize: 2048 in the code
          MaxRuns,    \* bound for TLC: calls of Run
          Closers,    \* the goroutines that call Close
          Nil

Frames == HighFrames \cup LowFrames
Runs   == 1..MaxRuns

ASSUME SocketCanAssumption ==
  /\ HighFrames \cap LowFrames = {}
  /\ QueueSize \in Nat \ {0}
  /\ MaxRuns \in Nat
  /\ Nil \notin Frames \cup Runs

VARIABLES
  closed, done, running,     \* atomic flag, closed channel, flag under runMu
  outboundHigh, outboundLow, \* the two queues
  outboundWriter,            \* the run whose writer is installed, or Nil
  ctx, writerCtx,            \* the runs whose context, or writer's context, is live
  runPc, closePc,            \* where the callers of Run and Close are
  writer,                    \* each run's writer: where it is, and the frame it holds
  frame,                     \* where each frame is
  requeuer,                  \* the run whose context a sleeping frame watches, or Nil
  accepted                   \* history: high frames in the order they were queued

queueVars == <<outboundHigh, outboundLow>>
endVars   == <<closed, done, running, outboundWriter, ctx, writerCtx>>
pcVars    == <<runPc, closePc>>
frameVars == <<frame, requeuer>>
vars == <<queueVars, endVars, pcVars, writer, frameVars, accepted>>

Init ==
  /\ closed = FALSE
  /\ done = FALSE
  /\ running = FALSE
  /\ outboundHigh = <<>>
  /\ outboundLow = <<>>
  /\ outboundWriter = Nil
  /\ ctx = Runs
  /\ writerCtx = {}
  /\ runPc = [r \in Runs |-> [at |-> "idle", waits |-> Nil]]
  /\ closePc = [c \in Closers |-> [at |-> "idle", waits |-> Nil]]
  /\ writer = [r \in Runs |-> [at |-> "off", item |-> Nil]]
  /\ frame = [f \in Frames |-> "unwritten"]
  /\ requeuer = [f \in Frames |-> Nil]
  /\ accepted = <<>>

\* The writer's context comes from the run's.
ContextDone(r) == r \notin writerCtx \/ r \notin ctx

WriterDone(r) == writer[r].at \in {"exit", "end"}

-----------------------------------------------------------------------------
(* Run.                                                                    *)

RunAt(r, at) == runPc' = [runPc EXCEPT ![r].at = at]

\* The calls that find the endpoint running or closed return an error.
RunEnter(r) ==
  /\ runPc[r].at = "idle"
  /\ \/ /\ ~running
        /\ ~closed
        /\ running' = TRUE
        /\ RunAt(r, "start")
     \/ /\ running \/ closed
        /\ RunAt(r, "end")
        /\ UNCHANGED running
  /\ UNCHANGED <<queueVars, closed, done, outboundWriter, ctx, writerCtx, closePc, writer,
                 frameVars, accepted>>

\* Start looks at closed before it opens the channel, and again afterwards.
Start(r) ==
  /\ \/ /\ runPc[r].at = "start"
        /\ \/ ~closed /\ RunAt(r, "opened")
           \/ RunAt(r, "leave")
     \/ /\ runPc[r].at = "opened"
        /\ RunAt(r, IF closed THEN "leave" ELSE "install")
  /\ UNCHANGED <<queueVars, endVars, closePc, writer, frameVars, accepted>>

InstallWriter(r) ==
  /\ runPc[r].at = "install"
  /\ outboundWriter' = r
  /\ writerCtx' = (writerCtx \ {outboundWriter}) \cup {r}
  /\ writer' = [writer EXCEPT ![r].at = "top"]
  /\ RunAt(r, "run")
  /\ UNCHANGED <<queueVars, closed, done, running, ctx, closePc, frameVars, accepted>>

\* channel.Run returns and stopOutboundWriter looks up the writer.
ChannelRunReturns(r) ==
  /\ runPc[r].at = "run"
  /\ writerCtx' = writerCtx \ {outboundWriter}
  /\ runPc' = [runPc EXCEPT ![r] = [at |-> "stop", waits |-> outboundWriter]]
  /\ UNCHANGED <<queueVars, closed, done, running, outboundWriter, ctx, closePc, writer,
                 frameVars, accepted>>

RunStopped(r) ==
  /\ runPc[r].at = "stop"
  /\ runPc[r].waits # Nil => WriterDone(runPc[r].waits)
  /\ RunAt(r, "leave")
  /\ UNCHANGED <<queueVars, endVars, closePc, writer, frameVars, accepted>>

RunLeave(r) ==
  /\ runPc[r].at = "leave"
  /\ running' = FALSE
  /\ RunAt(r, "end")
  /\ UNCHANGED <<queueVars, closed, done, outboundWriter, ctx, writerCtx, closePc, writer,
                 frameVars, accepted>>

\* The caller's context, while Run is under way.
CancelContext(r) ==
  /\ r \in ctx
  /\ runPc[r].at \notin {"idle", "end"}
  /\ ctx' = ctx \ {r}
  /\ UNCHANGED <<queueVars, closed, done, running, outboundWriter, writerCtx, pcVars, writer,
                 frameVars, accepted>>

-----------------------------------------------------------------------------
(* Close.                                                                  *)

CloseMark(c) ==
  /\ closePc[c].at = "idle"
  /\ closed' = TRUE
  /\ closePc' = [closePc EXCEPT ![c].at = "marked"]
  /\ UNCHANGED <<queueVars, done, running, outboundWriter, ctx, writerCtx, runPc, writer,
                 frameVars, accepted>>

CloseDone(c) ==
  /\ closePc[c].at = "marked"
  /\ done' = TRUE
  /\ closePc' = [closePc EXCEPT ![c].at = "close"]
  /\ UNCHANGED <<queueVars, closed, running, outboundWriter, ctx, writerCtx, runPc, writer,
                 frameVars, accepted>>

\* channel.Close, then stopOutboundWriter.
CloseStops(c) ==
  /\ closePc[c].at = "close"
  /\ writerCtx' = writerCtx \ {outboundWriter}
  /\ closePc' = [closePc EXCEPT ![c] = [at |-> "stop", waits |-> outboundWriter]]
  /\ UNCHANGED <<queueVars, closed, done, running, outboundWriter, ctx, runPc, writer, frameVars,
                 accepted>>

CloseReturn(c) ==
  /\ closePc[c].at = "stop"
  /\ closePc[c].waits # Nil => WriterDone(closePc[c].waits)
  /\ closePc' = [closePc EXCEPT ![c].at = "end"]
  /\ UNCHANGED <<queueVars, endVars, runPc, writer, frameVars, accepted>>

-----------------------------------------------------------------------------
(* WriteFrame: a frame is "unwritten", "put" in the hands of its caller,   *)
(* "queued", "held" by a writer, "sleeping" with its requeue goroutine, or *)
(* at its end: "sent" or "dropped".                                        *)

Goes(f, at) == frame' = [frame EXCEPT ![f] = at] /\ UNCHANGED requeuer

\* requeueLowPriorityFrame starts its goroutine.
Sleeps(f, r) == /\ frame' = [frame EXCEPT ![f] = "sleeping"]
                /\ requeuer' = [requeuer EXCEPT ![f] = r]

\* A closed endpoint takes no frame.
WriteFrame(f) ==
  /\ frame[f] = "unwritten"
  /\ Goes(f, IF closed THEN "dropped" ELSE "put")
  /\ UNCHANGED <<queueVars, endVars, pcVars, writer, accepted>>

\* A low frame that finds the queue full is dropped.
PutLow(f) ==
  /\ frame[f] = "put"
  /\ f \in LowFrames
  /\ \/ /\ Len(outboundLow) < QueueSize
        /\ outboundLow' = Append(outboundLow, f)
        /\ Goes(f, "queued")
     \/ /\ done \/ Len(outboundLow) >= QueueSize
        /\ Goes(f, "dropped")
        /\ UNCHANGED outboundLow
  /\ UNCHANGED <<outboundHigh, endVars, pcVars, writer, accepted>>

\* Mutant: a blocked caller waits for room only.
PutHighNoDone(f) ==
  /\ frame[f] = "put"
  /\ f \in HighFrames
  /\ Len(outboundHigh) < QueueSize
  /\ outboundHigh' = Append(outboundHigh, f)
  /\ accepted' = Append(accepted, f)
  /\ Goes(f, "queued")
  /\ UNCHANGED <<outboundLow, endVars, pcVars, writer>>

\* A high frame waits for room, or for the end of the endpoint.
PutHigh(f) ==
  /\ frame[f] = "put"
  /\ f \in HighFrames
  /\ \/ /\ Len(outboundHigh) < QueueSize
        /\ outboundHigh' = Append(outboundHigh, f)
        /\ accepted' = Append(accepted, f)
        /\ Goes(f, "queued")
     \/ /\ done
        /\ Goes(f, "dropped")
        /\ UNCHANGED <<outboundHigh, accepted>>
  /\ UNCHANGED <<outboundLow, endVars, pcVars, writer>>

-----------------------------------------------------------------------------
(* runOutboundWriter.                                                      *)

WriterAt(r, at) == writer' = [writer EXCEPT ![r] = [at |-> at, item |-> Nil]]

\* Mutant: the end of the endpoint is not looked at.
WriterTopContextOnly(r) ==
  /\ writer[r].at = "top"
  /\ WriterAt(r, IF ContextDone(r) THEN "done" ELSE "high")
  /\ UNCHANGED <<queueVars, endVars, pcVars, frameVars, accepted>>

WriterTop(r) ==
  /\ writer[r].at = "top"
  /\ WriterAt(r, IF ContextDone(r) \/ done THEN "done" ELSE "high")
  /\ UNCHANGED <<queueVars, endVars, pcVars, frameVars, accepted>>

Takes(r, f) == /\ writer' = [writer EXCEPT ![r] = [at |-> "write", item |-> f]]
               /\ Goes(f, "held")

TakeHigh(r) ==
  /\ writer[r].at \in {"high", "select"}
  /\ outboundHigh # <<>>
  /\ Takes(r, Head(outboundHigh))
  /\ outboundHigh' = Tail(outboundHigh)
  /\ UNCHANGED <<outboundLow, endVars, pcVars, accepted>>

NoHigh(r) ==
  /\ writer[r].at = "high"
  /\ outboundHigh = <<>>
  /\ WriterAt(r, "select")
  /\ UNCHANGED <<queueVars, endVars, pcVars, frameVars, accepted>>

TakeLow(r) ==
  /\ writer[r].at = "select"
  /\ outboundLow # <<>>
  /\ Takes(r, Head(outboundLow))
  /\ outboundLow' = Tail(outboundLow)
  /\ UNCHANGED <<outboundHigh, endVars, pcVars, accepted>>

SelectDone(r) ==
  /\ writer[r].at = "select"
  /\ ContextDone(r) \/ done
  /\ WriterAt(r, "done")
  /\ UNCHANGED <<queueVars, endVars, pcVars, frameVars, accepted>>

\* channel.WriteFrame succeeds, or fails for good.
Written(r) ==
  LET f == writer[r].item
  IN  /\ writer[r].at = "write"
      /\ WriterAt(r, "top")
      /\ \E end \in {"sent", "dropped"} : Goes(f, end)
      /\ UNCHANGED <<queueVars, endVars, pcVars, accepted>>

\* Mutant: high frames are retried like low ones.
BufferFullRequeue(r) ==
  LET f == writer[r].item
  IN  /\ writer[r].at = "write"
      /\ WriterAt(r, "top")
      /\ \/ /\ Goes(f, "queued")
            /\ f \in HighFrames
            /\ outboundHigh' = Append(outboundHigh, f)
         \/ /\ Sleeps(f, r)
            /\ f \in LowFrames
            /\ UNCHANGED outboundHigh
      /\ UNCHANGED <<outboundLow, endVars, pcVars, accepted>>

\* Mutant: the writer keeps the frame it has handed to the requeue goroutine.
BufferFullKept(r) ==
  LET f == writer[r].item
  IN  /\ writer[r].at = "write"
      /\ IF f \in LowFrames THEN Sleeps(f, r) ELSE UNCHANGED frameVars
      /\ writer' = [writer EXCEPT ![r].at = "delay"]
      /\ UNCHANGED <<queueVars, endVars, pcVars, accepted>>

\* channel.WriteFrame finds the buffer full.
BufferFull(r) ==
  LET f == writer[r].item
  IN  /\ writer[r].at = "write"
      /\ \/ /\ f \in LowFrames
            /\ WriterAt(r, "top")
            /\ Sleeps(f, r)
         \/ /\ f \in HighFrames
            /\ writer' = [writer EXCEPT ![r].at = "delay"]
            /\ UNCHANGED frameVars
      /\ UNCHANGED <<queueVars, endVars, pcVars, accepted>>

DelayOver(r) ==
  /\ writer[r].at = "delay"
  /\ writer' = [writer EXCEPT ![r].at = "write"]
  /\ UNCHANGED <<queueVars, endVars, pcVars, frameVars, accepted>>

\* The frame is given up.
DelayCancelled(r) ==
  /\ writer[r].at = "delay"
  /\ ContextDone(r)
  /\ WriterAt(r, "top")
  /\ Goes(writer[r].item, "dropped")
  /\ UNCHANGED <<queueVars, endVars, pcVars, accepted>>

\* The requeue goroutine: its timer fires and it puts the frame back or finds the
\* queue full, or the context of the writer that spawned it is done.
Requeue(f) ==
  /\ frame[f] = "sleeping"
  /\ \/ /\ Len(outboundLow) < QueueSize
        /\ outboundLow' = Append(outboundLow, f)
        /\ frame' = [frame EXCEPT ![f] = "queued"]
     \/ /\ Len(outboundLow) >= QueueSize \/ ContextDone(requeuer[f])
        /\ frame' = [frame EXCEPT ![f] = "dropped"]
        /\ UNCHANGED outboundLow
  /\ requeuer' = [requeuer EXCEPT ![f] = Nil]
  /\ UNCHANGED <<outboundHigh, endVars, pcVars, writer, accepted>>

\* The deferred function: done first, then, under the lock, the uninstallation.
WriterExit(r) ==
  /\ writer[r].at = "done"
  /\ WriterAt(r, "exit")
  /\ UNCHANGED <<queueVars, endVars, pcVars, frameVars, accepted>>

WriterUninstall(r) ==
  /\ writer[r].at = "exit"
  /\ outboundWriter' = IF outboundWriter = r THEN Nil ELSE outboundWriter
  /\ WriterAt(r, "end")
  /\ UNCHANGED <<queueVars, closed, done, running, ctx, writerCtx, pcVars, frameVars, accepted>>

-----------------------------------------------------------------------------

RunStep(r)    == Start(r) \/ InstallWriter(r) \/ RunStopped(r) \/ RunLeave(r)
CloseStep(c)  == CloseDone(c) \/ CloseStops(c) \/ CloseReturn(c)
PutStep(f)    == PutLow(f) \/ PutHigh(f)
WriterStep(r) == \/ WriterTop(r) \/ TakeHigh(r) \/ NoHigh(r) \/ TakeLow(r) \/ SelectDone(r)
                 \/ Written(r) \/ BufferFull(r) \/ DelayOver(r) \/ DelayCancelled(r)
                 \/ WriterExit(r) \/ WriterUninstall(r)

Next ==
  \/ \E r \in Runs : \/ RunEnter(r) \/ RunStep(r) \/ ChannelRunReturns(r)
                     \/ CancelContext(r) \/ WriterStep(r)
  \/ \E c \in Closers : CloseMark(c) \/ CloseStep(c)
  \/ \E f \in Frames : WriteFrame(f) \/ PutStep(f) \/ Requeue(f)

Spec == Init /\ [][Next]_vars

\* What goes on once the endpoint is closed, without anyone calling and with the
\* kernel's buffer full: channel.Run returns, and no timer need fire.
Progress ==
  \/ \E r \in Runs : \/ RunStep(r) \/ ChannelRunReturns(r)
                     \/ WriterTop(r) \/ TakeHigh(r) \/ NoHigh(r) \/ TakeLow(r) \/ SelectDone(r)
                     \/ BufferFull(r) \/ DelayCancelled(r) \/ WriterExit(r)
                     \/ WriterUninstall(r)
  \/ \E c \in Closers : CloseStep(c)
  \/ \E f \in Frames : PutStep(f)

-----------------------------------------------------------------------------
(* Properties.                                                             *)

Count(x, seq) == Cardinality({i \in DOMAIN seq : seq[i] = x})

\* The variables have their types and the queues never exceed their capacity.
TypeOK ==
  /\ {closed, done, running} \subseteq BOOLEAN
  /\ outboundHigh \in Seq(HighFrames) /\ Len(outboundHigh) <= QueueSize
  /\ outboundLow \in Seq(LowFrames) /\ Len(outboundLow) <= QueueSize
  /\ outboundWriter \in Runs \cup {Nil}
  /\ writerCtx \subseteq Runs
  /\ \A r \in Runs : (writer[r].at \in {"write", "delay"}) = (writer[r].item # Nil)
  /\ \A f \in Frames : (frame[f] = "sleeping") = (requeuer[f] # Nil)

\* Never do two writers serve the queues: a Run that follows another finds its
\* writer gone, and a second Run beside the first is refused.  Once a Close has
\* returned none does: no writer has a frame in hand or will take one, even that of
\* a Run which installs it only after Close has looked for it.
OneWriterUntilClosed ==
  /\ Cardinality({r \in Runs : writer[r].at \notin {"off", "exit", "end"}}) <= 1
  /\ (\E c \in Closers : closePc[c].at = "end")
       => \A r \in Runs : writer[r].at \in {"off", "top", "done", "exit", "end"}

\* Beside the types: a frame is in one place at a time, through every retry: once in its queue, in the
\* hands of one writer, or out of the endpoint, so that it cannot be sent twice.
OnePlace ==
  /\ TypeOK
  /\ \A f \in Frames :
    /\ Count(f, outboundHigh) + Count(f, outboundLow) = IF frame[f] = "queued" THEN 1 ELSE 0
    /\ Cardinality({r \in Runs : writer[r].item = f}) = IF frame[f] = "held" THEN 1 ELSE 0

\* High priority frames, among them the frames of one fast packet, leave in the order
\* in which they were queued, retries included: when one has been sent, none that was
\* queued before it is still to be.
HighInOrder ==
  \A i, j \in DOMAIN accepted :
    i < j /\ frame[accepted[j]] = "sent" => frame[accepted[i]] \notin {"queued", "held"}

\* Close ends everything, though the kernel's buffer may stay full: when nothing is left
\* to go on, Close and Run have returned and nobody is blocked in WriteFrame.  (Each
\* step of Progress uses something up, so that the goroutines do come to rest.)
CloseEndsAll ==
  done => \/ ENABLED Progress
          \/ /\ \A c \in Closers : closePc[c].at \in {"idle", "end"}
             /\ \A r \in Runs : runPc[r].at \in {"idle", "end"}
             /\ \A r \in Runs : writer[r].at \in {"off", "end"}
             /\ \A f \in Frames : frame[f] # "put"
=============================================================================
