------------------------------ MODULE Service ------------------------------
(***************************************************************************)
(* The message service (internal/n2kinternal/n2kinternal.go): the runs of  *)
(* its endpoints, and the queue between an endpoint and the one goroutine  *)
(* that handles its messages.                                              *)
(*                                                                         *)
(* A run is one generation of an endpoint, from Start to the end of its    *)
(* Run.  Five kinds of goroutine meet: the callers of Start, Stop and      *)
(* UpdateEndpoint, one at a time under lifecycleOpMu; for each run,        *)
(* runEndpoint, closeEndpointOnContext and a message processor; and        *)
(* whoever cancels the context given to Start.  Steps are the regions      *)
(* under lifecycleMu, processorMu, the queue's and the output's locks.     *)
(*                                                                         *)
(* A queued message is represented by the run it came from.  Ages are left *)
(* out: a message may be found too old whenever another one is waiting or  *)
(* being handled.                                                          *)
(***************************************************************************)
EXTENDS Naturals, Sequences, FiniteSets

CONSTANTS Callers,     \* goroutines that call Start, Stop and UpdateEndpoint
          Restartable, \* whether an endpoint can be started again once it is closed
          MaxRuns,     \* bounds for TLC: calls of Start,
          MaxStops,    \* calls of Stop,
          MaxUpdates,  \* calls of UpdateEndpoint
          MaxMessages, \* and messages from the endpoints
          Nil

Runs      == 1..MaxRuns
Endpoints == 1..(MaxUpdates + 1)

ASSUME ServiceAssumption ==
  /\ {MaxRuns, MaxStops, MaxUpdates, MaxMessages} \subseteq Nat
  /\ Restartable \in BOOLEAN
  /\ Nil \notin Nat \cup Callers \cup {"stop", "update"}

VARIABLES
  \* under lifecycleMu, and lifecycleOpMu itself: its holder or Nil
  endpoint, endpointRun, lastRun, runs, opMu,
  \* serviceEndpointOutput.active of each endpoint's output
  active,
  \* under processorMu: the run whose processor is installed, or Nil
  processor,
  \* the message queue and its WaitGroup
  queue, notify, queueWG,
  \* where each goroutine is
  caller, endpointPc, watcherPc, processorPc,
  \* calls and messages left within the bounds
  budget

lifecycleVars == <<endpoint, endpointRun, lastRun, runs, opMu>>
queueVars     == <<queue, notify, queueWG>>
pcVars        == <<caller, endpointPc, watcherPc, processorPc>>
vars == <<lifecycleVars, active, processor, queueVars, pcVars, budget>>

noRun == [ep |-> Nil, cancelled |-> FALSE, stopping |-> FALSE, closed |-> FALSE,
          processorCancelled |-> FALSE, done |-> FALSE]

Idle == [at |-> "idle", op |-> Nil, run |-> Nil, ep |-> Nil, waits |-> Nil]

Init ==
  /\ endpoint = 1
  /\ endpointRun = Nil
  /\ lastRun = Nil
  /\ runs = [r \in Runs |-> noRun]
  /\ opMu = Nil
  /\ active = [e \in Endpoints |-> FALSE]
  /\ processor = Nil
  /\ queue = <<>>
  /\ notify = FALSE
  /\ queueWG = 0
  /\ caller = [c \in Callers |-> Idle]
  /\ endpointPc = [r \in Runs |-> [at |-> "off", waits |-> Nil]]
  /\ watcherPc = [r \in Runs |-> "off"]
  /\ processorPc = [r \in Runs |-> "off"]
  /\ budget = [start |-> MaxRuns, stop |-> MaxStops, update |-> MaxUpdates,
               message |-> MaxMessages]

Spend(kind) == /\ budget[kind] > 0
               /\ budget' = [budget EXCEPT ![kind] = @ - 1]

Goto(c, at) == caller' = [caller EXCEPT ![c].at = at]

-----------------------------------------------------------------------------
(* Pieces shared by several goroutines.                                    *)

\* The output's lock is held by an endpoint that is handing a message over.
Delivering(e) == \E r \in Runs : /\ runs[r].ep = e
                                 /\ endpointPc[r].at \in {"accepted", "inline"}

activate(e) == /\ ~Delivering(e)
               /\ active' = [active EXCEPT ![e] = TRUE]

deactivate(e) == /\ ~Delivering(e)
                 /\ active' = [active EXCEPT ![e] = FALSE]

Cancelled(r) == [runs EXCEPT ![r].stopping = TRUE, ![r].cancelled = TRUE]

\* closeOnce: only the first call closes the endpoint.
closeEndpoint(r) == runs' = [runs EXCEPT ![r].closed = TRUE]

\* The result is left out; it has no part in the control.
finishEndpointRun(r) ==
  /\ runs' = [runs EXCEPT ![r].cancelled = TRUE, ![r].done = TRUE]
  /\ endpointRun' = IF endpointRun = r THEN Nil ELSE endpointRun

startMessageProcessor(r) ==
  IF processor # Nil THEN UNCHANGED <<processor, processorPc>>
  ELSE /\ processor' = r
       /\ processorPc' = [processorPc EXCEPT ![r] = "dequeue"]

\* The first half of stopMessageProcessor, under the lock; the caller then waits
\* for the processor that was installed.
uninstallProcessor ==
  /\ processor' = Nil
  /\ runs' = IF processor = Nil THEN runs
             ELSE [runs EXCEPT ![processor].processorCancelled = TRUE]

ProcessorGone(p) == p # Nil => processorPc[p] = "done"

-----------------------------------------------------------------------------
(* Start.                                                                  *)

StartLock(c) ==
  /\ caller[c].at = "idle"
  /\ opMu = Nil
  /\ opMu' = c
  /\ Goto(c, "start")
  /\ Spend("start")
  /\ UNCHANGED <<endpoint, endpointRun, lastRun, runs, active, processor, queueVars,
                 endpointPc, watcherPc, processorPc>>

\* A run that exists, stopping or not, makes Start return.
StartRefused(c) ==
  /\ caller[c].at = "start"
  /\ endpointRun # Nil
  /\ opMu' = Nil
  /\ caller' = [caller EXCEPT ![c] = Idle]
  /\ UNCHANGED <<endpoint, endpointRun, lastRun, runs, active, processor, queueVars,
                 endpointPc, watcherPc, processorPc, budget>>

NewRun(c, r) ==
  /\ caller[c].at = "start"
  /\ endpointRun = Nil
  /\ runs[r].ep = Nil
  /\ \A q \in 1..(r - 1) : runs[q].ep # Nil
  /\ runs' = [runs EXCEPT ![r].ep = endpoint]
  /\ endpointRun' = r
  /\ lastRun' = r
  /\ caller' = [caller EXCEPT ![c].at = "epStart", ![c].run = r]
  /\ UNCHANGED <<endpoint, opMu, active, processor, queueVars, endpointPc, watcherPc,
                 processorPc, budget>>

\* The endpoint was closed at the end of an earlier run.
EndpointClosed(e) == \E r \in Runs : runs[r].ep = e /\ runs[r].closed

\* ep.Start returns, with an error or without.  Start of every endpoint of the
\* repository fails once the endpoint is closed; the interface does not ask for it.
EndpointStarted(c) ==
  /\ caller[c].at = "epStart"
  /\ \/ /\ ~EndpointClosed(runs[caller[c].run].ep) \/ Restartable
        /\ Goto(c, "started")
     \/ Goto(c, "startFailed")
  /\ UNCHANGED <<lifecycleVars, active, processor, queueVars, endpointPc, watcherPc,
                 processorPc, budget>>

Abandoned(r) == runs[r].stopping \/ runs[r].cancelled \/ endpointRun # r

\* The last lock region of Start: the output is opened and the goroutines of the
\* run are started, unless somebody has given the run up in the meantime.
RunStarted(c) ==
  LET r == caller[c].run
  IN  /\ caller[c].at = "started"
      /\ ~Abandoned(r)
      /\ activate(runs[r].ep)
      /\ startMessageProcessor(r)
      /\ endpointPc' = [endpointPc EXCEPT ![r].at = "run"]
      /\ watcherPc' = [watcherPc EXCEPT ![r] = "wait"]
      /\ opMu' = Nil
      /\ caller' = [caller EXCEPT ![c] = Idle]
      /\ UNCHANGED <<endpoint, endpointRun, lastRun, runs, queueVars, budget>>

StartAbandoned(c) ==
  /\ caller[c].at = "started"
  /\ Abandoned(caller[c].run)
  /\ Goto(c, "startFailed")
  /\ UNCHANGED <<lifecycleVars, active, processor, queueVars, endpointPc, watcherPc,
                 processorPc, budget>>

StartClose(c) ==
  /\ caller[c].at = "startFailed"
  /\ closeEndpoint(caller[c].run)
  /\ Goto(c, "startFinish")
  /\ UNCHANGED <<endpoint, endpointRun, lastRun, opMu, active, processor, queueVars,
                 endpointPc, watcherPc, processorPc, budget>>

StartFinish(c) ==
  /\ caller[c].at = "startFinish"
  /\ finishEndpointRun(caller[c].run)
  /\ opMu' = Nil
  /\ caller' = [caller EXCEPT ![c] = Idle]
  /\ UNCHANGED <<endpoint, lastRun, active, processor, queueVars, endpointPc, watcherPc,
                 processorPc, budget>>

\* The application cancels the context it passed to Start.
CancelContext(r) ==
  /\ runs[r].ep # Nil
  /\ ~runs[r].cancelled
  /\ runs' = [runs EXCEPT ![r].cancelled = TRUE]
  /\ UNCHANGED <<endpoint, endpointRun, lastRun, opMu, active, processor, queueVars,
                 pcVars, budget>>

-----------------------------------------------------------------------------
(* Stop and UpdateEndpoint: op is "stop" or "update".                      *)

\* cancelCurrentEndpointRun, before lifecycleOpMu, so that it reaches a run whose
\* Start is still under way.
cancelCurrentEndpointRun(c, op) ==
  /\ caller[c].at = "idle"
  /\ Spend(op)
  /\ runs' = IF endpointRun = Nil THEN runs ELSE Cancelled(endpointRun)
  /\ caller' = [caller EXCEPT ![c] =
                  [Idle EXCEPT !.at = IF endpointRun = Nil THEN "lock" ELSE "deactivate",
                               !.op = op, !.run = endpointRun]]
  /\ UNCHANGED <<endpoint, endpointRun, lastRun, opMu, active, processor, queueVars,
                 endpointPc, watcherPc, processorPc>>

CancelDeactivate(c) ==
  /\ caller[c].at = "deactivate"
  /\ deactivate(runs[caller[c].run].ep)
  /\ Goto(c, "lock")
  /\ UNCHANGED <<lifecycleVars, processor, queueVars, endpointPc, watcherPc, processorPc,
                 budget>>

StopLock(c) ==
  /\ caller[c].at = "lock"
  /\ opMu = Nil
  /\ opMu' = c
  /\ Goto(c, "stop")
  /\ UNCHANGED <<endpoint, endpointRun, lastRun, runs, active, processor, queueVars,
                 endpointPc, watcherPc, processorPc, budget>>

\* Mutant: a run that was started after the first look is not cancelled.
stopCurrentEndpointNoCancel(c) ==
  /\ caller[c].at = "stop"
  /\ caller' = [caller EXCEPT ![c].at = "stopDeactivate", ![c].ep = endpoint,
                              ![c].run = IF endpointRun = Nil THEN lastRun ELSE endpointRun]
  /\ UNCHANGED <<lifecycleVars, active, processor, queueVars, endpointPc, watcherPc,
                 processorPc, budget>>

\* stopCurrentEndpoint, one step per lock region or wait.  A run that has ended is
\* still known as lastRun.
stopCurrentEndpoint(c) ==
  LET run == IF endpointRun = Nil THEN lastRun ELSE endpointRun
  IN  /\ caller[c].at = "stop"
      /\ runs' = IF run = Nil THEN runs ELSE Cancelled(run)
      /\ caller' = [caller EXCEPT ![c].at = "stopDeactivate", ![c].run = run,
                                  ![c].ep = endpoint]
      /\ UNCHANGED <<endpoint, endpointRun, lastRun, opMu, active, processor, queueVars,
                     endpointPc, watcherPc, processorPc, budget>>

StopDeactivate(c) ==
  /\ caller[c].at = "stopDeactivate"
  /\ deactivate(caller[c].ep)
  /\ Goto(c, "stopClose")
  /\ UNCHANGED <<lifecycleVars, processor, queueVars, endpointPc, watcherPc, processorPc,
                 budget>>

\* Without a run the endpoint itself is closed, which has no effect here.
StopClose(c) ==
  /\ caller[c].at = "stopClose"
  /\ IF caller[c].run = Nil THEN UNCHANGED runs ELSE closeEndpoint(caller[c].run)
  /\ Goto(c, "stopWait")
  /\ UNCHANGED <<endpoint, endpointRun, lastRun, opMu, active, processor, queueVars,
                 endpointPc, watcherPc, processorPc, budget>>

\* <-run.done, then stopMessageProcessor.
StopWait(c) ==
  /\ caller[c].at = "stopWait"
  /\ caller[c].run # Nil => runs[caller[c].run].done
  /\ uninstallProcessor
  /\ caller' = [caller EXCEPT ![c].at = "stopProcessor", ![c].waits = processor]
  /\ UNCHANGED <<endpoint, endpointRun, lastRun, opMu, active, queueVars, endpointPc,
                 watcherPc, processorPc, budget>>

\* The end of Stop, or of UpdateEndpoint, which installs the new endpoint.
StopReturn(c) ==
  /\ caller[c].at = "stopProcessor"
  /\ ProcessorGone(caller[c].waits)
  /\ \/ /\ caller[c].op = "stop"
        /\ UNCHANGED <<endpoint, lastRun>>
     \/ /\ caller[c].op = "update"
        /\ endpoint' = endpoint + 1
        /\ lastRun' = Nil
  /\ opMu' = Nil
  /\ caller' = [caller EXCEPT ![c] = Idle]
  /\ UNCHANGED <<endpointRun, runs, active, processor, queueVars, endpointPc, watcherPc,
                 processorPc, budget>>

-----------------------------------------------------------------------------
(* runEndpoint and the messages of the endpoint.                           *)

At(r, at) == endpointPc' = [endpointPc EXCEPT ![r].at = at]

\* serviceEndpointOutput.HandleMessage keeps the output's read lock until the
\* message is queued or handled.  A message that finds the output closed is
\* dropped, which is no step.
HandleMessage(r) ==
  /\ endpointPc[r].at = "run"
  /\ active[runs[r].ep]
  /\ Spend("message")
  /\ At(r, "accepted")
  /\ UNCHANGED <<lifecycleVars, active, processor, queueVars, caller, watcherPc,
                 processorPc>>

Busy == queue # <<>> \/ \E p \in Runs : processorPc[p] = "handle"

\* N2kService.HandleMessage under processorMu, with a processor installed:
\* enqueueIfCurrent takes the message or finds the queue too far behind.
Enqueue(r) ==
  /\ endpointPc[r].at = "accepted"
  /\ processor # Nil
  /\ \/ /\ queue' = Append(queue, r)
        /\ notify' = TRUE
        /\ queueWG' = queueWG + 1
     \/ /\ Busy
        /\ UNCHANGED queueVars
  /\ At(r, "run")
  /\ UNCHANGED <<lifecycleVars, active, processor, caller, watcherPc, processorPc, budget>>

\* Mutant: the processor is not asked for.
HandleInlineAlways(r) ==
  /\ endpointPc[r].at = "accepted"
  /\ At(r, "inline")
  /\ UNCHANGED <<lifecycleVars, active, processor, queueVars, caller, watcherPc,
                 processorPc, budget>>

\* Without a processor the endpoint's goroutine handles the message itself.
HandleInline(r) ==
  /\ endpointPc[r].at = "accepted"
  /\ processor = Nil
  /\ At(r, "inline")
  /\ UNCHANGED <<lifecycleVars, active, processor, queueVars, caller, watcherPc,
                 processorPc, budget>>

InlineHandled(r) ==
  /\ endpointPc[r].at = "inline"
  /\ At(r, "run")
  /\ UNCHANGED <<lifecycleVars, active, processor, queueVars, caller, watcherPc,
                 processorPc, budget>>

\* ep.Run returns, by itself or because the run is cancelled or closed.
RunReturns(r) ==
  /\ endpointPc[r].at = "run"
  /\ runs' = [runs EXCEPT ![r].stopping = TRUE]
  /\ At(r, "deactivate")
  /\ UNCHANGED <<endpoint, endpointRun, lastRun, opMu, active, processor, queueVars, caller,
                 watcherPc, processorPc, budget>>

\* Mutant: the queue is not drained.
EndDeactivateNoDrain(r) ==
  /\ endpointPc[r].at = "deactivate"
  /\ deactivate(runs[r].ep)
  /\ At(r, "close")
  /\ UNCHANGED <<lifecycleVars, processor, queueVars, caller, watcherPc, processorPc, budget>>

\* An endpoint that ended by itself has its queued messages handled first.
EndDeactivate(r) ==
  /\ endpointPc[r].at = "deactivate"
  /\ deactivate(runs[r].ep)
  /\ At(r, IF runs[r].cancelled THEN "close" ELSE "drain")
  /\ UNCHANGED <<lifecycleVars, processor, queueVars, caller, watcherPc, processorPc, budget>>

waitForMessageQueueDrain(r) ==
  /\ endpointPc[r].at = "drain"
  /\ queueWG = 0 \/ runs[r].cancelled
  /\ At(r, "close")
  /\ UNCHANGED <<lifecycleVars, active, processor, queueVars, caller, watcherPc,
                 processorPc, budget>>

EndClose(r) ==
  /\ endpointPc[r].at = "close"
  /\ closeEndpoint(r)
  /\ At(r, "stopProcessor")
  /\ UNCHANGED <<endpoint, endpointRun, lastRun, opMu, active, processor, queueVars, caller,
                 watcherPc, processorPc, budget>>

EndStopProcessor(r) ==
  /\ endpointPc[r].at = "stopProcessor"
  /\ uninstallProcessor
  /\ endpointPc' = [endpointPc EXCEPT ![r] = [at |-> "finish", waits |-> processor]]
  /\ UNCHANGED <<endpoint, endpointRun, lastRun, opMu, active, queueVars, caller, watcherPc,
                 processorPc, budget>>

\* Mutant: the run is declared done while its processor may still be at work.
EndFinishEarly(r) ==
  /\ endpointPc[r].at = "finish"
  /\ finishEndpointRun(r)
  /\ endpointPc' = [endpointPc EXCEPT ![r] = [at |-> "end", waits |-> Nil]]
  /\ UNCHANGED <<endpoint, lastRun, opMu, active, processor, queueVars, caller, watcherPc,
                 processorPc, budget>>

EndFinish(r) ==
  /\ endpointPc[r].at = "finish"
  /\ ProcessorGone(endpointPc[r].waits)
  /\ finishEndpointRun(r)
  /\ endpointPc' = [endpointPc EXCEPT ![r] = [at |-> "end", waits |-> Nil]]
  /\ UNCHANGED <<endpoint, lastRun, opMu, active, processor, queueVars, caller, watcherPc,
                 processorPc, budget>>

-----------------------------------------------------------------------------
(* closeEndpointOnContext.                                                 *)

WatcherGoto(r, at) == watcherPc' = [watcherPc EXCEPT ![r] = at]

WatcherWakes(r) ==
  /\ watcherPc[r] = "wait"
  /\ \/ /\ runs[r].cancelled
        /\ runs' = [runs EXCEPT ![r].stopping = TRUE]
        /\ WatcherGoto(r, "deactivate")
     \/ /\ runs[r].done
        /\ WatcherGoto(r, "end")
        /\ UNCHANGED runs
  /\ UNCHANGED <<endpoint, endpointRun, lastRun, opMu, active, processor, queueVars, caller,
                 endpointPc, processorPc, budget>>

\* Mutant: the output of the current endpoint is shut, whichever that is.
WatcherDeactivateCurrent(r) ==
  /\ watcherPc[r] = "deactivate"
  /\ deactivate(endpoint)
  /\ WatcherGoto(r, "close")
  /\ UNCHANGED <<lifecycleVars, processor, queueVars, caller, endpointPc, processorPc, budget>>

WatcherDeactivate(r) ==
  /\ watcherPc[r] = "deactivate"
  /\ deactivate(runs[r].ep)
  /\ WatcherGoto(r, "close")
  /\ UNCHANGED <<lifecycleVars, processor, queueVars, caller, endpointPc, processorPc, budget>>

WatcherClose(r) ==
  /\ watcherPc[r] = "close"
  /\ closeEndpoint(r)
  /\ WatcherGoto(r, "end")
  /\ UNCHANGED <<endpoint, endpointRun, lastRun, opMu, active, processor, queueVars, caller,
                 endpointPc, processorPc, budget>>

-----------------------------------------------------------------------------
(* runMessageProcessor.                                                    *)

ProcessorGoto(r, at) == processorPc' = [processorPc EXCEPT ![r] = at]

ProcessorContextDone(r) == runs[r].cancelled \/ runs[r].processorCancelled

\* A waiting message is taken even when the context is done.
Dequeue(r) ==
  /\ processorPc[r] = "dequeue"
  /\ IF queue = <<>>
     THEN ProcessorGoto(r, "wait") /\ UNCHANGED queue
     ELSE ProcessorGoto(r, "handle") /\ queue' = Tail(queue)
  /\ UNCHANGED <<lifecycleVars, active, processor, notify, queueWG, caller, endpointPc,
                 watcherPc, budget>>

\* Mutant: a message found stale is not counted off.
ProcessedUncounted(r) ==
  /\ processorPc[r] = "handle"
  /\ queueWG' \in {queueWG, queueWG - 1}
  /\ ProcessorGoto(r, "dequeue")
  /\ UNCHANGED <<lifecycleVars, active, processor, queue, notify, caller, endpointPc,
                 watcherPc, budget>>

\* processQueuedMessage, whether it handles the message or finds it stale, and Done.
Processed(r) ==
  /\ processorPc[r] = "handle"
  /\ queueWG' = queueWG - 1
  /\ ProcessorGoto(r, "dequeue")
  /\ UNCHANGED <<lifecycleVars, active, processor, queue, notify, caller, endpointPc,
                 watcherPc, budget>>

ProcessorNotified(r) ==
  /\ processorPc[r] = "wait"
  /\ notify
  /\ notify' = FALSE
  /\ ProcessorGoto(r, "dequeue")
  /\ UNCHANGED <<lifecycleVars, active, processor, queue, queueWG, caller, endpointPc,
                 watcherPc, budget>>

ProcessorStops(r) ==
  /\ processorPc[r] = "wait"
  /\ ProcessorContextDone(r)
  /\ ProcessorGoto(r, "discard")
  /\ UNCHANGED <<lifecycleVars, active, processor, queueVars, caller, endpointPc, watcherPc,
                 budget>>

discardQueuedMessages(r) ==
  /\ processorPc[r] = "discard"
  /\ queueWG' = queueWG - Len(queue)
  /\ queue' = <<>>
  /\ ProcessorGoto(r, "exit")
  /\ UNCHANGED <<lifecycleVars, active, processor, notify, caller, endpointPc, watcherPc,
                 budget>>

\* The deferred function: the processor uninstalls itself and closes done.
ProcessorExit(r) ==
  /\ processorPc[r] = "exit"
  /\ processor' = IF processor = r THEN Nil ELSE processor
  /\ ProcessorGoto(r, "done")
  /\ UNCHANGED <<lifecycleVars, active, queueVars, caller, endpointPc, watcherPc, budget>>

-----------------------------------------------------------------------------

CallerStep(c) ==
  \/ StartRefused(c) \/ (\E r \in Runs : NewRun(c, r)) \/ EndpointStarted(c)
  \/ RunStarted(c) \/ StartAbandoned(c) \/ StartClose(c) \/ StartFinish(c)
  \/ CancelDeactivate(c) \/ StopLock(c) \/ stopCurrentEndpoint(c) \/ StopDeactivate(c)
  \/ StopClose(c) \/ StopWait(c) \/ StopReturn(c)

\* What runEndpoint does on its own; Run need not return.
EndpointStep(r) ==
  \/ Enqueue(r) \/ HandleInline(r) \/ InlineHandled(r)
  \/ EndDeactivate(r) \/ waitForMessageQueueDrain(r) \/ EndClose(r)
  \/ EndStopProcessor(r) \/ EndFinish(r)

WatcherStep(r) == WatcherWakes(r) \/ WatcherDeactivate(r) \/ WatcherClose(r)

ProcessorStep(r) ==
  \/ Dequeue(r) \/ Processed(r) \/ ProcessorNotified(r) \/ ProcessorStops(r)
  \/ discardQueuedMessages(r) \/ ProcessorExit(r)

Call(c) == \/ StartLock(c)
           \/ \E op \in {"stop", "update"} : cancelCurrentEndpointRun(c, op)

Next ==
  \/ \E c \in Callers : Call(c) \/ CallerStep(c)
  \/ \E r \in Runs : \/ CancelContext(r) \/ HandleMessage(r) \/ RunReturns(r)
                     \/ EndpointStep(r) \/ WatcherStep(r) \/ ProcessorStep(r)

Spec == Init /\ [][Next]_vars

\* What goes on without anyone calling, cancelling or sending: ep.Start returns,
\* and ep.Run does once the run is cancelled and its endpoint closed.
Progress ==
  \/ \E c \in Callers : CallerStep(c)
  \/ \E r \in Runs : \/ EndpointStep(r) \/ WatcherStep(r) \/ ProcessorStep(r)
                     \/ runs[r].cancelled /\ runs[r].closed /\ RunReturns(r)

-----------------------------------------------------------------------------
(* Properties.                                                             *)

RunRecords == [ep : Endpoints \cup {Nil}, cancelled : BOOLEAN, stopping : BOOLEAN,
               closed : BOOLEAN, processorCancelled : BOOLEAN, done : BOOLEAN]

\* The variables have their types, and lifecycleOpMu is held exactly by the caller
\* that is inside Start, or inside the locked part of Stop or UpdateEndpoint.
TypeOK ==
  /\ endpoint \in Endpoints
  /\ {endpointRun, lastRun, processor} \subseteq Runs \cup {Nil}
  /\ runs \in [Runs -> RunRecords]
  /\ active \in [Endpoints -> BOOLEAN]
  /\ queue \in Seq(Runs)
  /\ notify \in BOOLEAN
  /\ \A c \in Callers : (opMu = c) = (caller[c].at \notin {"idle", "deactivate", "lock"})

\* Beside the types: messageQueueWG counts exactly the messages that are queued or being handled,
\* so that waiting for it is waiting for them and Done never goes below zero.
CountIsExact ==
  /\ TypeOK
  /\ queueWG = Len(queue) + Cardinality({p \in Runs : processorPc[p] = "handle"})

\* One goroutine at a time works on a message: the adapter and its partial
\* messages have no lock of their own.
HandledSerially ==
  Cardinality({p \in Runs : processorPc[p] = "handle"}
              \cup {MaxRuns + r : r \in {q \in Runs : endpointPc[q].at = "inline"}}) <= 1

\* When a run is done, which is what Wait, Stop and UpdateEndpoint wait for, its
\* endpoint is closed, its Run has returned, its processor is gone and its output
\* is shut until a later run opens it.
DoneIsQuiet ==
  \A r \in Runs : runs[r].done =>
    /\ runs[r].closed
    /\ endpointPc[r].at \in {"off", "end"}
    /\ processorPc[r] \in {"off", "done"}
    /\ active[runs[r].ep] => endpointRun # Nil

\* A run that nobody has stopped is heard, whatever the goroutines of earlier
\* runs still have to do: its output is open, and as long as its endpoint delivers
\* it has its own processor, so that messages go through the queue.
RunIsHeard ==
  \A r \in Runs : ~runs[r].cancelled =>
    /\ endpointPc[r].at = "run" => active[runs[r].ep]
    /\ endpointPc[r].at \in {"run", "accepted", "inline", "deactivate", "drain"}
         => processor = r

\* An endpoint that ends by itself loses no message: the processor discards a
\* non-empty queue only for a run that was cancelled.
NothingLostUncancelled ==
  \A r \in Runs : processorPc[r] = "discard" /\ ~runs[r].cancelled => queue = <<>>

\* Nobody waits for ever: when no goroutine can go on by itself, every call of
\* Start, Stop and UpdateEndpoint has returned and every cancelled run is done.  (Each
\* step but a call, a cancellation or a message uses something up, so that
\* the goroutines do come to rest.)
NobodyStuck ==
  ENABLED Progress \/ /\ \A c \in Callers : caller[c].at = "idle"
                      /\ \A r \in Runs : runs[r].cancelled => runs[r].done
=============================================================================
