--------------------------- MODULE ServiceProofs ---------------------------
(***************************************************************************)
(* Proofs about the message service, for any callers, any number of runs,  *)
(* calls and messages.                                                     *)
(***************************************************************************)
EXTENDS Service, FiniteSetTheorems, SequenceTheorems, TLAPS

-----------------------------------------------------------------------------
(* The inductive invariant.  At most one run is up, the current one; what   *)
(* still works for a run (its processor, a message in the hands of its      *)
(* goroutine, its open output) works while that run is up, and whoever is   *)
(* in Start or Stop knows which run that is.                                *)

CallerAts    == {"idle", "start", "epStart", "started", "startFailed", "startFinish",
                 "deactivate", "lock", "stop", "stopDeactivate", "stopClose", "stopWait",
                 "stopProcessor"}
EndpointAts  == {"off", "run", "accepted", "inline", "deactivate", "drain", "close",
                 "stopProcessor", "finish", "end"}
WatcherAts   == {"off", "wait", "deactivate", "close", "end"}
ProcessorAts == {"off", "dequeue", "wait", "handle", "discard", "exit", "done"}

CallerRecords == [at : CallerAts, op : {"stop", "update", Nil}, run : Runs \cup {Nil},
                  ep : Endpoints \cup {Nil}, waits : Runs \cup {Nil}]

\* Where every goroutine can be.
PcTypes ==
  /\ caller \in [Callers -> CallerRecords]
  /\ endpointPc \in [Runs -> [at : EndpointAts, waits : Runs \cup {Nil}]]
  /\ watcherPc \in [Runs -> WatcherAts]
  /\ processorPc \in [Runs -> ProcessorAts]

\* Each call of UpdateEndpoint installs one endpoint, when it returns.
updating == {c \in Callers : caller[c].op = "update"}

UpdatesCounted ==
  /\ IsFiniteSet(updating)
  /\ budget \in [{"start", "stop", "update", "message"} -> Nat]
  /\ endpoint + Cardinality(updating) + budget["update"] = MaxUpdates + 1
  /\ \A c \in Callers : caller[c].op = "update" =>
       caller[c].at \in {"deactivate", "lock", "stop", "stopDeactivate", "stopClose",
                         "stopWait", "stopProcessor"}

Up(r)      == endpointPc[r].at \notin {"off", "end"}
Working(p) == processorPc[p] \notin {"off", "done"}

\* A run that does not exist yet has left no trace.
UnusedIsFresh ==
  \A r \in Runs : runs[r].ep = Nil =>
    /\ runs[r] = noRun
    /\ endpointPc[r].at = "off"
    /\ watcherPc[r] = "off"
    /\ r \notin {endpointRun, lastRun}

\* The current run is not done, and no other run is up.
OneRunUp ==
  /\ endpointRun # Nil => ~runs[endpointRun].done
  /\ \A r \in Runs : Up(r) => endpointRun = r
  /\ \A r \in Runs : endpointPc[r].at = "end" => runs[r].done

\* Start works on the current run until it has either started or finished it.
StartingIsCurrent ==
  \A c \in Callers : caller[c].at \in {"epStart", "started", "startFailed", "startFinish"} =>
    /\ caller[c].run \in Runs
    /\ endpointRun = caller[c].run
    /\ endpointPc[caller[c].run].at = "off"
    /\ caller[c].at = "startFinish" => runs[caller[c].run].closed

\* The locked part of Stop and UpdateEndpoint knows the current run, if there is one,
\* and has cancelled it.
StoppingKnowsRun ==
  \A c \in Callers :
    /\ caller[c].at = "deactivate" =>
         caller[c].run \in Runs /\ runs[caller[c].run].cancelled
    /\ caller[c].at \in {"stopDeactivate", "stopClose", "stopWait", "stopProcessor"} =>
         /\ endpointRun \in {caller[c].run, Nil}
         /\ caller[c].run # Nil => runs[caller[c].run].cancelled

\* A message processor works for the run that is up, and is installed until that run
\* uninstalls it and waits for it.
ProcessorIsOfRun ==
  /\ processor # Nil =>
       /\ Working(processor)
       /\ endpointPc[processor].at \in {"run", "accepted", "inline", "deactivate", "drain",
                                        "close", "stopProcessor"}
  /\ \A p \in Runs : Working(p) =>
       \/ processor = p
       \/ endpointPc[p].at = "finish" /\ endpointPc[p].waits = p
  /\ \A r \in Runs : /\ endpointPc[r].at = "inline" => processor = Nil
                     /\ endpointPc[r].at = "off" => processorPc[r] = "off"

\* A run's endpoint is closed before the run is done.
ClosedBeforeDone ==
  \A r \in Runs : runs[r].done \/ endpointPc[r].at \in {"stopProcessor", "finish", "end"}
                    => runs[r].closed

\* An output is open only for the run that is up.
OpenIsOfRun ==
  \A e \in Endpoints : active[e] =>
    /\ endpointRun # Nil
    /\ runs[endpointRun].ep = e
    /\ endpointPc[endpointRun].at \in {"run", "accepted", "inline", "deactivate"}

RunsInv == /\ UnusedIsFresh /\ OneRunUp /\ StartingIsCurrent /\ StoppingKnowsRun
           /\ ProcessorIsOfRun /\ ClosedBeforeDone /\ OpenIsOfRun

ControlInv == TypeOK /\ PcTypes /\ UpdatesCounted /\ RunsInv

-----------------------------------------------------------------------------
(* What a run that nobody has stopped relies on.                           *)

\* A run that is no longer the current one is done.
EndedIsDone == \A r \in Runs : runs[r].ep # Nil /\ endpointRun # r => runs[r].done

WatchedIsStarted == \A r \in Runs : endpointPc[r].at = "off" => watcherPc[r] = "off"

\* Whoever shuts an output or stops a processor has a reason to.
WhyShut ==
  \A r \in Runs :
    /\ watcherPc[r] = "deactivate" => runs[r].cancelled
    /\ processorPc[r] \in {"discard", "exit", "done"} =>
         runs[r].cancelled \/ runs[r].processorCancelled
    /\ runs[r].processorCancelled => endpointPc[r].at \in {"finish", "end"}
    /\ endpointPc[r].at \in {"close", "stopProcessor", "finish"} /\ ~runs[r].cancelled =>
         queueWG = 0

ReasonsInv == ControlInv /\ CountIsExact /\ EndedIsDone /\ WatchedIsStarted /\ WhyShut

\* And where an endpoint that is closed cannot be started again: only the run that is up
\* has its endpoint.
OwnEndpoint ==
  \A r, q \in Runs : Up(r) /\ q # r => runs[q].ep # runs[r].ep

StartedIsOpen ==
  \A c \in Callers : caller[c].at = "started" => ~EndpointClosed(runs[caller[c].run].ep)

DeliveringIsOpen ==
  \A r \in Runs : ~runs[r].cancelled /\ endpointPc[r].at \in {"run", "accepted", "inline"} =>
    active[runs[r].ep]

HasProcessor ==
  \A r \in Runs :
    /\ ~runs[r].cancelled
    /\ endpointPc[r].at \in {"run", "accepted", "inline", "deactivate", "drain"}
    => processor = r

HeardInv == ReasonsInv /\ OwnEndpoint /\ StartedIsOpen /\ DeliveringIsOpen /\ HasProcessor

-----------------------------------------------------------------------------
(* What the pieces shared by several goroutines do.                        *)

\* What most steps do to the runs: flags are set, and none is reset.
RunsAdvance ==
  /\ runs' \in [Runs -> RunRecords]
  /\ \A r \in Runs :
       /\ runs'[r].ep = runs[r].ep
       /\ runs'[r].done = runs[r].done
       /\ runs'[r].processorCancelled = runs[r].processorCancelled
       /\ runs[r].cancelled => runs'[r].cancelled
       /\ runs[r].closed => runs'[r].closed
       /\ runs[r].ep = Nil => runs'[r] = runs[r]

ActiveShrinks ==
  /\ active' \in [Endpoints -> BOOLEAN]
  /\ \A e \in Endpoints : active'[e] => active[e]

\* Constants that are told apart.
LEMMA NilFacts ==
  /\ Nil \notin Runs /\ Nil \notin Endpoints /\ Nil \notin Callers
  /\ Runs \subseteq Nat /\ Endpoints \subseteq Nat /\ 1 \in Endpoints
BY ServiceAssumption DEF Runs, Endpoints

\* Marking a run as cancelled, stopping or closed only sets flags.
LEMMA MarkingAdvances ==
  ASSUME TypeOK
  PROVE  /\ UNCHANGED runs => RunsAdvance
         /\ \A r \in Runs : runs[r].ep # Nil =>
              /\ runs' = Cancelled(r) => RunsAdvance /\ runs'[r].cancelled
              /\ closeEndpoint(r) => RunsAdvance /\ runs'[r].closed
              /\ runs' = [runs EXCEPT ![r].stopping = TRUE] => RunsAdvance
              /\ runs' = [runs EXCEPT ![r].cancelled = TRUE] => RunsAdvance
<1>1. runs \in [Runs -> RunRecords]
  BY DEF TypeOK
<1>2. UNCHANGED runs => RunsAdvance
  BY <1>1 DEF RunsAdvance
<1> SUFFICES ASSUME NEW r \in Runs, runs[r].ep # Nil
             PROVE  /\ runs' = Cancelled(r) => RunsAdvance /\ runs'[r].cancelled
                    /\ closeEndpoint(r) => RunsAdvance /\ runs'[r].closed
                    /\ runs' = [runs EXCEPT ![r].stopping = TRUE] => RunsAdvance
                    /\ runs' = [runs EXCEPT ![r].cancelled = TRUE] => RunsAdvance
  BY <1>2
<1>3. ASSUME NEW rec \in RunRecords, runs' = [runs EXCEPT ![r] = rec],
             rec.ep = runs[r].ep, rec.done = runs[r].done,
             rec.processorCancelled = runs[r].processorCancelled,
             runs[r].cancelled => rec.cancelled, runs[r].closed => rec.closed
      PROVE  RunsAdvance /\ runs'[r] = rec
  <2>1. \A q \in Runs : runs'[q] = IF q = r THEN rec ELSE runs[q]
    BY <1>1, <1>3
  <2>2. runs' \in [Runs -> RunRecords]
    BY <1>1, <1>3
  <2> QED
    BY <2>1, <2>2, <1>3 DEF RunsAdvance
<1>4. runs[r] \in RunRecords
  BY <1>1
<1>5. ASSUME runs' = Cancelled(r) PROVE RunsAdvance /\ runs'[r].cancelled
  <2> DEFINE rec == [runs[r] EXCEPT !.stopping = TRUE, !.cancelled = TRUE]
  <2>1. runs' = [runs EXCEPT ![r] = rec]
    BY <1>1, <1>5 DEF Cancelled
  <2>2. /\ rec \in RunRecords /\ rec.ep = runs[r].ep /\ rec.done = runs[r].done
        /\ rec.processorCancelled = runs[r].processorCancelled /\ rec.closed = runs[r].closed
        /\ rec.cancelled
    BY <1>4 DEF RunRecords
  <2> HIDE DEF rec
  <2> QED
    BY <2>1, <2>2, <1>3
<1>6. ASSUME closeEndpoint(r) PROVE RunsAdvance /\ runs'[r].closed
  <2> DEFINE rec == [runs[r] EXCEPT !.closed = TRUE]
  <2>1. runs' = [runs EXCEPT ![r] = rec]
    BY <1>6 DEF closeEndpoint
  <2>2. /\ rec \in RunRecords /\ rec.ep = runs[r].ep /\ rec.done = runs[r].done
        /\ rec.processorCancelled = runs[r].processorCancelled /\ rec.closed
        /\ rec.cancelled = runs[r].cancelled
    BY <1>4 DEF RunRecords
  <2> HIDE DEF rec
  <2> QED
    BY <2>1, <2>2, <1>3
<1>7. ASSUME runs' = [runs EXCEPT ![r].stopping = TRUE] PROVE RunsAdvance
  <2> DEFINE rec == [runs[r] EXCEPT !.stopping = TRUE]
  <2>1. runs' = [runs EXCEPT ![r] = rec]
    BY <1>7
  <2>2. /\ rec \in RunRecords /\ rec.ep = runs[r].ep /\ rec.done = runs[r].done
        /\ rec.processorCancelled = runs[r].processorCancelled /\ rec.closed = runs[r].closed
        /\ rec.cancelled = runs[r].cancelled
    BY <1>4 DEF RunRecords
  <2> HIDE DEF rec
  <2> QED
    BY <2>1, <2>2, <1>3
<1>8. ASSUME runs' = [runs EXCEPT ![r].cancelled = TRUE] PROVE RunsAdvance
  <2> DEFINE rec == [runs[r] EXCEPT !.cancelled = TRUE]
  <2>1. runs' = [runs EXCEPT ![r] = rec]
    BY <1>8
  <2>2. /\ rec \in RunRecords /\ rec.ep = runs[r].ep /\ rec.done = runs[r].done
        /\ rec.processorCancelled = runs[r].processorCancelled /\ rec.closed = runs[r].closed
        /\ rec.cancelled
    BY <1>4 DEF RunRecords
  <2> HIDE DEF rec
  <2> QED
    BY <2>1, <2>2, <1>3
<1> QED
  BY <1>5, <1>6, <1>7, <1>8

\* Shutting an output shuts that one.
LEMMA DeactivateShrinks ==
  ASSUME TypeOK
  PROVE  /\ UNCHANGED active => ActiveShrinks
         /\ \A e : deactivate(e) => ActiveShrinks /\ (e \in Endpoints => ~active'[e])
<1>1. active \in [Endpoints -> BOOLEAN]
  BY DEF TypeOK
<1> QED
  BY <1>1 DEF ActiveShrinks, deactivate

\* A caller, or runEndpoint, that goes on to another point keeps all else it knows.
LEMMA GotoEffect ==
  ASSUME PcTypes, NEW c \in Callers, NEW at \in CallerAts, Goto(c, at)
  PROVE  \E rec \in CallerRecords :
           /\ caller' = [caller EXCEPT ![c] = rec]
           /\ rec.at = at /\ rec.op = caller[c].op /\ rec.run = caller[c].run
           /\ rec.ep = caller[c].ep /\ rec.waits = caller[c].waits
<1> DEFINE rec == [caller[c] EXCEPT !.at = at]
<1>1. caller[c] \in CallerRecords
  BY DEF PcTypes
<1>2. caller' = [caller EXCEPT ![c] = rec]
  BY DEF Goto
<1>3. /\ rec \in CallerRecords
      /\ rec.at = at /\ rec.op = caller[c].op /\ rec.run = caller[c].run
      /\ rec.ep = caller[c].ep /\ rec.waits = caller[c].waits
  BY <1>1 DEF CallerRecords
<1> QED
  BY <1>2, <1>3

\* A goroutine of runEndpoint that goes on to another point leaves the others where they are.
LEMMA AtEffect ==
  ASSUME PcTypes, NEW r \in Runs, NEW at \in EndpointAts, At(r, at)
  PROVE  /\ endpointPc' \in [Runs -> [at : EndpointAts, waits : Runs \cup {Nil}]]
         /\ endpointPc'[r].at = at
         /\ \A q \in Runs : q # r => endpointPc'[q] = endpointPc[q]
<1> DEFINE rec == [endpointPc[r] EXCEPT !.at = at]
<1>1. endpointPc[r] \in [at : EndpointAts, waits : Runs \cup {Nil}]
  BY DEF PcTypes
<1>2. endpointPc' = [endpointPc EXCEPT ![r] = rec]
  BY DEF At
<1>3. rec \in [at : EndpointAts, waits : Runs \cup {Nil}] /\ rec.at = at
  BY <1>1
<1> HIDE DEF rec
<1> QED
  BY <1>2, <1>3 DEF PcTypes

-----------------------------------------------------------------------------
(* Kinds of steps that keep the invariant.                                 *)

\* Flags are set, an output is shut, a watcher goes on.
LEMMA FlagsSet ==
  ASSUME ControlInv, RunsAdvance, ActiveShrinks,
         watcherPc' \in [Runs -> WatcherAts],
         \A q \in Runs : watcherPc[q] = "off" => watcherPc'[q] = "off",
         UNCHANGED <<endpoint, endpointRun, lastRun, opMu, processor, queueVars, caller,
                     endpointPc, processorPc, budget>>
  PROVE  ControlInv'
<1>1. TypeOK' /\ PcTypes'
  BY DEF ControlInv, TypeOK, PcTypes, RunsAdvance, ActiveShrinks, queueVars
<1>2. UpdatesCounted'
  BY DEF ControlInv, UpdatesCounted, updating
<1>3. UnusedIsFresh'
  BY DEF ControlInv, RunsInv, UnusedIsFresh, RunsAdvance
<1>4. OneRunUp' /\ ClosedBeforeDone'
  BY DEF ControlInv, RunsInv, TypeOK, OneRunUp, ClosedBeforeDone, RunsAdvance, Up
<1>5. StartingIsCurrent' /\ StoppingKnowsRun'
  BY DEF ControlInv, RunsInv, PcTypes, CallerRecords, StartingIsCurrent, StoppingKnowsRun,
         RunsAdvance
<1>6. ProcessorIsOfRun'
  BY DEF ControlInv, RunsInv, ProcessorIsOfRun, Working
<1>7. OpenIsOfRun'
  BY DEF ControlInv, RunsInv, TypeOK, OpenIsOfRun, RunsAdvance, ActiveShrinks
<1> QED
  BY <1>1, <1>2, <1>3, <1>4, <1>5, <1>6, <1>7 DEF ControlInv, RunsInv

\* A processor at work goes on.
LEMMA ProcessorMoves ==
  ASSUME ControlInv, NEW r \in Runs, Working(r),
         NEW at \in ProcessorAts \ {"off", "done"}, ProcessorGoto(r, at),
         queue' \in Seq(Runs), notify' \in BOOLEAN,
         UNCHANGED <<lifecycleVars, active, processor, caller, endpointPc, watcherPc, budget>>
  PROVE  ControlInv'
<1>1. /\ processorPc' \in [Runs -> ProcessorAts]
      /\ \A q \in Runs : Working(q)' <=> Working(q)
      /\ \A q \in Runs : processorPc[q] = "off" => processorPc'[q] = "off"
  BY DEF ControlInv, PcTypes, ProcessorGoto, Working
<1>2. TypeOK' /\ PcTypes'
  BY <1>1 DEF ControlInv, TypeOK, PcTypes, lifecycleVars
<1>3. UpdatesCounted'
  BY DEF ControlInv, UpdatesCounted, updating, lifecycleVars
<1>4. UnusedIsFresh' /\ OneRunUp' /\ StartingIsCurrent' /\ StoppingKnowsRun'
  BY DEF ControlInv, RunsInv, UnusedIsFresh, OneRunUp, StartingIsCurrent, StoppingKnowsRun,
         lifecycleVars, Up
<1>5. ProcessorIsOfRun'
  BY <1>1 DEF ControlInv, RunsInv, TypeOK, ProcessorIsOfRun
<1>6. ClosedBeforeDone' /\ OpenIsOfRun'
  BY DEF ControlInv, RunsInv, ClosedBeforeDone, OpenIsOfRun, lifecycleVars
<1> QED
  BY <1>2, <1>3, <1>4, <1>5, <1>6 DEF ControlInv, RunsInv

\* The goroutine of the run that is up goes on.  It has closed the endpoint when it comes
\* to its processor, shut the output when it is past deactivating, and takes a message
\* itself only if there is no processor.
LEMMA EndpointMoves ==
  ASSUME ControlInv, RunsAdvance, ActiveShrinks,
         NEW r \in Runs, Up(r), endpointPc[r].at # "finish",
         NEW at \in EndpointAts \ {"off", "finish", "end"}, At(r, at),
         at = "inline" => processor = Nil,
         at = "stopProcessor" => runs'[r].closed,
         \/ at \in {"run", "accepted", "inline", "deactivate"}
         \/ ~active'[runs[r].ep]
         \/ endpointPc[r].at \notin {"run", "accepted", "inline", "deactivate"},
         queue' \in Seq(Runs), notify' \in BOOLEAN,
         UNCHANGED <<endpoint, endpointRun, lastRun, opMu, processor, caller, watcherPc,
                     processorPc, budget["update"]>>,
         budget' \in [{"start", "stop", "update", "message"} -> Nat]
  PROVE  ControlInv'
<1>1. /\ endpointPc' \in [Runs -> [at : EndpointAts, waits : Runs \cup {Nil}]]
      /\ endpointPc'[r].at = at
      /\ \A q \in Runs : q # r => endpointPc'[q] = endpointPc[q]
  BY AtEffect DEF ControlInv
<1>2. endpointRun = r /\ \A q \in Runs : q # r => ~Up(q)
  BY DEF ControlInv, RunsInv, OneRunUp
<1>3. TypeOK' /\ PcTypes'
  BY <1>1 DEF ControlInv, TypeOK, PcTypes, RunsAdvance, ActiveShrinks
<1>4. UpdatesCounted'
  BY DEF ControlInv, UpdatesCounted, updating
<1>5. UnusedIsFresh'
  BY <1>1, <1>2 DEF ControlInv, RunsInv, UnusedIsFresh, RunsAdvance, Up
<1>6. OneRunUp' /\ ClosedBeforeDone'
  BY <1>1, <1>2 DEF ControlInv, RunsInv, TypeOK, OneRunUp, ClosedBeforeDone, RunsAdvance, Up
<1>7. StartingIsCurrent' /\ StoppingKnowsRun'
  BY <1>1, <1>2 DEF ControlInv, RunsInv, PcTypes, CallerRecords, StartingIsCurrent,
                    StoppingKnowsRun, RunsAdvance, Up
<1>8. ProcessorIsOfRun'
  <2>1. /\ processor' = processor /\ processor \in Runs \cup {Nil}
        /\ \A q \in Runs : Working(q)' <=> Working(q)
    BY DEF ControlInv, TypeOK, Working
  <2>2. at \in {"run", "accepted", "inline", "deactivate", "drain", "close", "stopProcessor"}
    BY DEF EndpointAts
  <2>3. processor # Nil =>
          /\ Working(processor)
          /\ endpointPc'[processor].at \in {"run", "accepted", "inline", "deactivate", "drain",
                                            "close", "stopProcessor"}
    BY <1>1, <2>1, <2>2 DEF ControlInv, RunsInv, ProcessorIsOfRun
  <2>4. ASSUME NEW p \in Runs, Working(p)
        PROVE  \/ processor = p
               \/ endpointPc'[p].at = "finish" /\ endpointPc'[p].waits = p
    BY <1>1, <2>4 DEF ControlInv, RunsInv, ProcessorIsOfRun
  <2>5. ASSUME NEW q \in Runs
        PROVE  /\ endpointPc'[q].at = "inline" => processor = Nil
               /\ endpointPc'[q].at = "off" => processorPc[q] = "off"
    BY <1>1 DEF ControlInv, RunsInv, ProcessorIsOfRun
  <2> QED
    BY <2>1, <2>3, <2>4, <2>5 DEF ProcessorIsOfRun
<1>9. OpenIsOfRun'
  BY <1>1, <1>2 DEF ControlInv, RunsInv, TypeOK, OpenIsOfRun, RunsAdvance, ActiveShrinks
<1> QED
  BY <1>3, <1>4, <1>5, <1>6, <1>7, <1>8, <1>9 DEF ControlInv, RunsInv

\* A caller goes on, knowing what it must of the current run.
LEMMA CallerMoves ==
  ASSUME ControlInv, RunsAdvance, ActiveShrinks,
         NEW c \in Callers, NEW rec \in CallerRecords, caller' = [caller EXCEPT ![c] = rec],
         (opMu' = c) = (rec.at \notin {"idle", "deactivate", "lock"}),
         \A d \in Callers : d # c => (opMu' = d) = (opMu = d),
         rec.at \in {"epStart", "started", "startFailed", "startFinish"} =>
           /\ rec.run \in Runs /\ endpointRun = rec.run
           /\ endpointPc[rec.run].at = "off"
           /\ rec.at = "startFinish" => runs'[rec.run].closed,
         rec.at = "deactivate" => rec.run \in Runs /\ runs'[rec.run].cancelled,
         rec.at \in {"stopDeactivate", "stopClose", "stopWait", "stopProcessor"} =>
           /\ endpointRun \in {rec.run, Nil}
           /\ rec.run # Nil => runs'[rec.run].cancelled,
         lastRun' \in {lastRun, Nil},
         endpoint' \in Endpoints,
         UNCHANGED <<endpointRun, processor, queueVars, endpointPc, watcherPc, processorPc>>
  PROVE  TypeOK' /\ PcTypes' /\ RunsInv'
<1>1. /\ caller' \in [Callers -> CallerRecords]
      /\ caller'[c] = rec
      /\ \A d \in Callers : d # c => caller'[d] = caller[d]
  BY DEF ControlInv, PcTypes
<1>2. TypeOK' /\ PcTypes'
  <2>1. \A d \in Callers : (opMu' = d) = (caller'[d].at \notin {"idle", "deactivate", "lock"})
    BY <1>1 DEF ControlInv, TypeOK
  <2> QED
    BY <1>1, <2>1 DEF ControlInv, TypeOK, PcTypes, RunsAdvance, ActiveShrinks, queueVars
<1>3. UnusedIsFresh'
  BY NilFacts DEF ControlInv, RunsInv, UnusedIsFresh, RunsAdvance
<1>4. OneRunUp' /\ ClosedBeforeDone'
  BY DEF ControlInv, RunsInv, TypeOK, OneRunUp, ClosedBeforeDone, RunsAdvance, Up
<1>5. StartingIsCurrent'
  BY <1>1 DEF ControlInv, RunsInv, StartingIsCurrent, RunsAdvance
<1>6. StoppingKnowsRun'
  BY <1>1 DEF ControlInv, RunsInv, PcTypes, CallerRecords, StoppingKnowsRun, RunsAdvance
<1>7. ProcessorIsOfRun'
  BY DEF ControlInv, RunsInv, ProcessorIsOfRun, Working
<1>8. OpenIsOfRun'
  BY DEF ControlInv, RunsInv, TypeOK, OpenIsOfRun, RunsAdvance, ActiveShrinks
<1> QED
  BY <1>2, <1>3, <1>4, <1>5, <1>6, <1>7, <1>8 DEF RunsInv

\* A caller that goes on with the same operation leaves the count of updates alone.
LEMMA UpdatesStay ==
  ASSUME ControlInv, NEW c \in Callers, NEW rec \in CallerRecords,
         caller' = [caller EXCEPT ![c] = rec],
         rec.op = "update" <=> caller[c].op = "update",
         rec.op = "update" => rec.at \in {"deactivate", "lock", "stop", "stopDeactivate",
                                          "stopClose", "stopWait", "stopProcessor"},
         budget' \in [{"start", "stop", "update", "message"} -> Nat],
         UNCHANGED <<endpoint, budget["update"]>>
  PROVE  UpdatesCounted'
<1>1. /\ caller'[c] = rec
      /\ \A d \in Callers : d # c => caller'[d] = caller[d]
  BY DEF ControlInv, PcTypes
<1>2. updating' = updating
  BY <1>1 DEF updating
<1> QED
  BY <1>1, <1>2 DEF ControlInv, UpdatesCounted

-----------------------------------------------------------------------------
(* The steps of Start.                                                     *)

LockedAts == CallerAts \ {"idle", "deactivate", "lock"}

\* A caller that is done knows nothing.
LEMMA IdleIsRecord ==
  Idle \in CallerRecords /\ Idle.at = "idle" /\ Idle.op = Nil /\ Nil \notin {"stop", "update"}
BY ServiceAssumption DEF Idle, CallerRecords, CallerAts

\* What is spent on one kind of calls is not spent on another.
LEMMA SpendEffect ==
  ASSUME UpdatesCounted, NEW kind \in {"start", "stop", "update", "message"}, Spend(kind)
  PROVE  /\ budget' \in [{"start", "stop", "update", "message"} -> Nat]
         /\ budget'["update"] = IF kind = "update" THEN budget["update"] - 1 ELSE budget["update"]
BY DEF Spend, UpdatesCounted

\* Start enters its locked part, which nobody else is in.
LEMMA StartLockKeeps ==
  ASSUME ControlInv, NEW c \in Callers, StartLock(c) PROVE ControlInv'
<1>1. PICK rec \in CallerRecords :
        /\ caller' = [caller EXCEPT ![c] = rec]
        /\ rec.at = "start" /\ rec.op = caller[c].op
  BY GotoEffect DEF ControlInv, StartLock, CallerAts
<1>2. RunsAdvance /\ ActiveShrinks
  BY MarkingAdvances, DeactivateShrinks DEF ControlInv, StartLock
<1>3. \A d \in Callers : (opMu' = d) <=> (d = c)
  BY DEF StartLock
<1>4. \A d \in Callers : opMu # d
  BY NilFacts DEF StartLock
<1>5. TypeOK' /\ PcTypes' /\ RunsInv'
  BY <1>1, <1>2, <1>3, <1>4, CallerMoves DEF StartLock, ControlInv, TypeOK
<1>6. caller[c].op # "update"
  BY DEF ControlInv, UpdatesCounted, StartLock
<1>7. UpdatesCounted'
  BY <1>1, <1>6, SpendEffect, UpdatesStay DEF StartLock, ControlInv
<1> QED
  BY <1>5, <1>7 DEF ControlInv

\* A caller that returns gives lifecycleOpMu back.
LEMMA Returns ==
  ASSUME ControlInv, RunsAdvance, ActiveShrinks,
         NEW c \in Callers, caller' = [caller EXCEPT ![c] = Idle],
         caller[c].at \notin {"idle", "deactivate", "lock"}, opMu' = Nil,
         lastRun' \in {lastRun, Nil}, endpoint' \in Endpoints,
         UNCHANGED <<endpointRun, processor, queueVars, endpointPc, watcherPc, processorPc>>
  PROVE  TypeOK' /\ PcTypes' /\ RunsInv'
<1>1. opMu = c
  BY DEF ControlInv, TypeOK
<1>2. (opMu' = c) = (Idle.at \notin {"idle", "deactivate", "lock"})
  BY IdleIsRecord, NilFacts
<1>3. \A d \in Callers : d # c => (opMu' = d) = (opMu = d)
  BY <1>1, NilFacts
<1> QED
  BY <1>2, <1>3, IdleIsRecord, CallerMoves

\* Start returns when a run exists, and changes nothing but its own place.
LEMMA StartRefusedKeeps ==
  ASSUME ControlInv, NEW c \in Callers, StartRefused(c) PROVE ControlInv'
<1>1. caller' = [caller EXCEPT ![c] = Idle] /\ opMu' = Nil
  BY DEF StartRefused
<1>2. RunsAdvance /\ ActiveShrinks
  BY MarkingAdvances, DeactivateShrinks DEF ControlInv, StartRefused
<1>3. opMu = c /\ \A d \in Callers : opMu' # d
  BY <1>1, NilFacts DEF ControlInv, TypeOK, StartRefused
<1>4. TypeOK' /\ PcTypes' /\ RunsInv'
  BY <1>1, <1>2, <1>3, IdleIsRecord, Returns DEF StartRefused, ControlInv, TypeOK
<1>5. UpdatesCounted'
  BY <1>1, IdleIsRecord, UpdatesStay DEF StartRefused, ControlInv, UpdatesCounted
<1> QED
  BY <1>4, <1>5 DEF ControlInv

\* A caller within Start that goes on to another step of Start.
LEMMA StartingMoves ==
  ASSUME ControlInv, RunsAdvance, NEW c \in Callers,
         caller[c].at \in {"epStart", "started", "startFailed"},
         NEW at \in {"started", "startFailed", "startFinish"}, Goto(c, at),
         at = "startFinish" => runs'[caller[c].run].closed,
         UNCHANGED <<endpoint, endpointRun, lastRun, opMu, active, processor, queueVars,
                     endpointPc, watcherPc, processorPc, budget>>
  PROVE  ControlInv'
<1>1. PICK rec \in CallerRecords :
        /\ caller' = [caller EXCEPT ![c] = rec]
        /\ rec.at = at /\ rec.op = caller[c].op /\ rec.run = caller[c].run
  BY GotoEffect DEF ControlInv, CallerAts
<1>2. ActiveShrinks
  BY DeactivateShrinks DEF ControlInv
<1>3. /\ caller[c].run \in Runs /\ endpointRun = caller[c].run
      /\ endpointPc[caller[c].run].at = "off"
  BY DEF ControlInv, RunsInv, StartingIsCurrent
<1>4. opMu' = c /\ opMu = opMu'
  BY DEF ControlInv, TypeOK
<1>5. TypeOK' /\ PcTypes' /\ RunsInv'
  BY <1>1, <1>2, <1>3, <1>4, CallerMoves DEF ControlInv, TypeOK
<1>6. caller[c].op # "update"
  BY DEF ControlInv, UpdatesCounted
<1>7. UpdatesCounted'
  BY <1>1, <1>6, UpdatesStay DEF ControlInv, UpdatesCounted
<1> QED
  BY <1>5, <1>7 DEF ControlInv

\* Start goes on with the run it has made: the endpoint starts or fails, and is closed.
LEMMA StartSteps ==
  ASSUME ControlInv, NEW c \in Callers,
         EndpointStarted(c) \/ StartAbandoned(c) \/ StartClose(c)
  PROVE  ControlInv'
<1>1. CASE EndpointStarted(c) \/ StartAbandoned(c)
  <2>1. RunsAdvance
    BY <1>1, MarkingAdvances DEF ControlInv, EndpointStarted, StartAbandoned, lifecycleVars
  <2> QED
    BY <1>1, <2>1, StartingMoves DEF EndpointStarted, StartAbandoned, lifecycleVars
<1>2. CASE StartClose(c)
  <2>1. caller[c].run \in Runs /\ runs[caller[c].run].ep # Nil
    BY <1>2 DEF ControlInv, RunsInv, StartingIsCurrent, UnusedIsFresh, StartClose
  <2>2. RunsAdvance /\ runs'[caller[c].run].closed
    BY <1>2, <2>1, MarkingAdvances DEF ControlInv, StartClose
  <2> QED
    BY <1>2, <2>2, StartingMoves DEF StartClose
<1> QED
  BY <1>1, <1>2

\* Start makes the next run, which has left no trace yet, the current one.
LEMMA NewRunKeeps ==
  ASSUME ControlInv, NEW c \in Callers, NEW r \in Runs, NewRun(c, r) PROVE ControlInv'
<1> DEFINE rec == [caller[c] EXCEPT !.at = "epStart", !.run = r]
           new == [runs[r] EXCEPT !.ep = endpoint]
<1>1. /\ caller' \in [Callers -> CallerRecords]
      /\ caller'[c].at = "epStart" /\ caller'[c].run = r /\ caller'[c].op = caller[c].op
      /\ \A d \in Callers : d # c => caller'[d] = caller[d]
  <2>1. caller[c] \in CallerRecords /\ caller' = [caller EXCEPT ![c] = rec]
    BY DEF ControlInv, PcTypes, NewRun
  <2>2. /\ rec \in CallerRecords
        /\ rec.at = "epStart" /\ rec.run = r /\ rec.op = caller[c].op
    BY <2>1 DEF CallerRecords, CallerAts
  <2> HIDE DEF rec
  <2> QED
    BY <2>1, <2>2 DEF ControlInv, PcTypes
<1>2. /\ runs' \in [Runs -> RunRecords]
      /\ runs'[r].ep = endpoint /\ ~runs'[r].done
      /\ \A q \in Runs : q # r => runs'[q] = runs[q]
  <2>1. runs[r] \in RunRecords /\ runs' = [runs EXCEPT ![r] = new] /\ endpoint \in Endpoints
    BY DEF ControlInv, TypeOK, NewRun
  <2>2. ~runs[r].done
    BY DEF ControlInv, RunsInv, UnusedIsFresh, NewRun, noRun
  <2>3. new \in RunRecords /\ new.ep = endpoint /\ ~new.done
    BY <2>1, <2>2 DEF RunRecords
  <2> HIDE DEF new
  <2> QED
    BY <2>1, <2>3 DEF ControlInv, TypeOK
<1>3. /\ endpointPc[r].at = "off" /\ watcherPc[r] = "off" /\ processorPc[r] = "off"
      /\ endpointRun = Nil /\ endpointRun' = r /\ lastRun' = r
      /\ UNCHANGED <<endpoint, opMu, active, processor, queueVars, endpointPc, watcherPc,
                     processorPc, budget>>
  BY DEF ControlInv, RunsInv, UnusedIsFresh, ProcessorIsOfRun, NewRun
<1>4. /\ opMu = c /\ opMu' = c
      /\ \A d \in Callers : d # c => caller[d].at \in {"idle", "deactivate", "lock"}
  BY <1>3 DEF ControlInv, TypeOK, NewRun
<1>5. \A q \in Runs : ~Up(q)
  BY <1>3, NilFacts DEF ControlInv, RunsInv, OneRunUp
<1>6. TypeOK' /\ PcTypes'
  <2>1. \A d \in Callers : (opMu' = d) = (caller'[d].at \notin {"idle", "deactivate", "lock"})
    BY <1>1, <1>4
  <2> QED
    BY <1>1, <1>2, <1>3, <2>1 DEF ControlInv, TypeOK, PcTypes, queueVars
<1>7. UpdatesCounted'
  <2>1. updating' = updating /\ caller'[c].op # "update"
    <3>1. caller[c].op # "update"
      BY DEF ControlInv, UpdatesCounted, NewRun
    <3> QED
      BY <1>1, <3>1 DEF updating
  <2> QED
    BY <1>1, <1>3, <2>1 DEF ControlInv, UpdatesCounted
<1>8. UnusedIsFresh' /\ OneRunUp'
  <2>1. endpoint # Nil
    BY NilFacts DEF ControlInv, TypeOK
  <2>2. UnusedIsFresh'
    BY <1>2, <1>3, <2>1 DEF ControlInv, RunsInv, UnusedIsFresh
  <2>3. OneRunUp'
    BY <1>2, <1>3, <1>5 DEF ControlInv, RunsInv, OneRunUp, Up
  <2> QED
    BY <2>2, <2>3
<1>9. StartingIsCurrent' /\ StoppingKnowsRun'
  <2>1. StartingIsCurrent'
    BY <1>1, <1>3, <1>4 DEF StartingIsCurrent
  <2>2. ~runs[r].cancelled
    BY DEF ControlInv, RunsInv, UnusedIsFresh, NewRun, noRun
  <2>3. StoppingKnowsRun'
    BY <1>1, <1>2, <1>4, <2>2 DEF ControlInv, RunsInv, StoppingKnowsRun
  <2> QED
    BY <2>1, <2>3
<1>10. ProcessorIsOfRun'
  BY <1>3 DEF ControlInv, RunsInv, ProcessorIsOfRun, Working
<1>11. ClosedBeforeDone'
  BY <1>2, <1>3 DEF ControlInv, RunsInv, ClosedBeforeDone
<1>12. OpenIsOfRun'
  BY <1>3 DEF ControlInv, RunsInv, OpenIsOfRun
<1> QED
  BY <1>6, <1>7, <1>8, <1>9, <1>10, <1>11, <1>12 DEF ControlInv, RunsInv

\* The last lock region of Start brings the run up, with its processor and its output.
LEMMA RunStartedKeeps ==
  ASSUME ControlInv, NEW c \in Callers, RunStarted(c) PROVE ControlInv'
<1> DEFINE r == caller[c].run
<1>1. r \in Runs /\ endpointRun = r /\ endpointPc[r].at = "off" /\ runs[r].ep # Nil
  BY DEF ControlInv, RunsInv, StartingIsCurrent, UnusedIsFresh, RunStarted
<1>2. (\A q \in Runs : ~Up(q)) /\ processorPc[r] = "off" /\ runs[r].ep \in Endpoints
  BY <1>1 DEF ControlInv, RunsInv, TypeOK, RunRecords, OneRunUp, ProcessorIsOfRun, Up
<1>3. processor = Nil /\ \A q \in Runs : ~Working(q)
  <2>1. processor = Nil
    BY <1>2 DEF ControlInv, RunsInv, TypeOK, ProcessorIsOfRun, Up
  <2> QED
    BY <1>2, <2>1, NilFacts DEF ControlInv, RunsInv, ProcessorIsOfRun, Up
<1>4. \A e \in Endpoints : ~active[e]
  BY <1>1 DEF ControlInv, RunsInv, OpenIsOfRun
<1>5. /\ active' = [active EXCEPT ![runs[r].ep] = TRUE]
      /\ processor' = r /\ processorPc' = [processorPc EXCEPT ![r] = "dequeue"]
      /\ endpointPc' = [endpointPc EXCEPT ![r].at = "run"]
      /\ watcherPc' = [watcherPc EXCEPT ![r] = "wait"]
      /\ opMu' = Nil /\ caller' = [caller EXCEPT ![c] = Idle]
      /\ UNCHANGED <<endpoint, endpointRun, lastRun, runs, queueVars, budget>>
  BY <1>3 DEF RunStarted, activate, startMessageProcessor
<1> HIDE DEF r
<1>6. /\ endpointPc' \in [Runs -> [at : EndpointAts, waits : Runs \cup {Nil}]]
      /\ endpointPc'[r].at = "run"
      /\ \A q \in Runs : q # r => endpointPc'[q] = endpointPc[q]
  BY <1>1, <1>5, AtEffect DEF ControlInv, At, EndpointAts
<1>7. /\ caller' \in [Callers -> CallerRecords] /\ caller'[c] = Idle
      /\ \A d \in Callers : d # c => caller'[d] = caller[d]
  BY <1>5, IdleIsRecord DEF ControlInv, PcTypes
<1>8. /\ opMu = c
      /\ \A d \in Callers : d # c => caller[d].at \in {"idle", "deactivate", "lock"}
  BY DEF ControlInv, TypeOK, RunStarted
<1>9. TypeOK' /\ PcTypes'
  <2>1. \A d \in Callers : (opMu' = d) = (caller'[d].at \notin {"idle", "deactivate", "lock"})
    BY <1>5, <1>7, <1>8, IdleIsRecord, NilFacts
  <2>2. /\ active' \in [Endpoints -> BOOLEAN]
        /\ processorPc' \in [Runs -> ProcessorAts] /\ watcherPc' \in [Runs -> WatcherAts]
    BY <1>1, <1>2, <1>5 DEF ControlInv, TypeOK, PcTypes, ProcessorAts, WatcherAts
  <2> QED
    BY <1>1, <1>5, <1>6, <1>7, <2>1, <2>2 DEF ControlInv, TypeOK, PcTypes, queueVars
<1>10. UpdatesCounted'
  <2>1. caller[c].op # "update"
    BY DEF ControlInv, UpdatesCounted, RunStarted
  <2> QED
    BY <1>5, <2>1, IdleIsRecord, UpdatesStay DEF ControlInv, UpdatesCounted
<1>11. UnusedIsFresh' /\ OneRunUp'
  BY <1>1, <1>2, <1>5, <1>6 DEF ControlInv, RunsInv, PcTypes, UnusedIsFresh, OneRunUp, Up
<1>12. StartingIsCurrent' /\ StoppingKnowsRun'
  <2>1. StartingIsCurrent'
    BY <1>7, <1>8, IdleIsRecord DEF StartingIsCurrent
  <2>2. StoppingKnowsRun'
    BY <1>5, <1>7, <1>8, IdleIsRecord DEF ControlInv, RunsInv, StoppingKnowsRun
  <2> QED
    BY <2>1, <2>2
<1>13. ProcessorIsOfRun'
  <2>1. processorPc'[r] = "dequeue" /\ \A q \in Runs : q # r => processorPc'[q] = processorPc[q]
    BY <1>1, <1>5 DEF ControlInv, PcTypes
  <2> QED
    BY <1>1, <1>2, <1>3, <1>5, <1>6, <2>1
    DEF ControlInv, RunsInv, ProcessorIsOfRun, Working, Up
<1>14. ClosedBeforeDone'
  BY <1>5, <1>6 DEF ControlInv, RunsInv, ClosedBeforeDone
<1>15. OpenIsOfRun'
  BY <1>1, <1>2, <1>4, <1>5, <1>6, NilFacts DEF ControlInv, TypeOK, OpenIsOfRun
<1> QED
  BY <1>9, <1>10, <1>11, <1>12, <1>13, <1>14, <1>15 DEF ControlInv, RunsInv

\* Giving a run up ends it, before anything of it was up.
LEMMA StartFinishKeeps ==
  ASSUME ControlInv, NEW c \in Callers, StartFinish(c) PROVE ControlInv'
<1> DEFINE r == caller[c].run
           new == [runs[r] EXCEPT !.cancelled = TRUE, !.done = TRUE]
<1>1. /\ r \in Runs /\ endpointRun = r /\ endpointPc[r].at = "off" /\ runs[r].ep # Nil
      /\ runs[r].closed
  BY DEF ControlInv, RunsInv, StartingIsCurrent, UnusedIsFresh, StartFinish
<1>2. /\ runs' \in [Runs -> RunRecords]
      /\ runs'[r].ep = runs[r].ep /\ runs'[r].closed /\ runs'[r].cancelled
      /\ \A q \in Runs : q # r => runs'[q] = runs[q]
  <2>1. runs[r] \in RunRecords /\ runs' = [runs EXCEPT ![r] = new]
    BY <1>1 DEF ControlInv, TypeOK, StartFinish, finishEndpointRun
  <2>2. new \in RunRecords /\ new.ep = runs[r].ep /\ new.closed /\ new.cancelled
    BY <1>1, <2>1 DEF RunRecords
  <2> HIDE DEF new, r
  <2> QED
    BY <1>1, <2>1, <2>2 DEF ControlInv, TypeOK
<1>3. endpointRun' = Nil
  BY <1>1 DEF StartFinish, finishEndpointRun
<1>4. /\ opMu' = Nil /\ caller' = [caller EXCEPT ![c] = Idle]
      /\ UNCHANGED <<endpoint, lastRun, active, processor, queueVars, endpointPc, watcherPc,
                     processorPc, budget>>
  BY DEF StartFinish
<1>5. /\ caller' \in [Callers -> CallerRecords] /\ caller'[c] = Idle
      /\ \A d \in Callers : d # c => caller'[d] = caller[d]
  BY <1>4, IdleIsRecord DEF ControlInv, PcTypes
<1>6. /\ opMu = c
      /\ \A d \in Callers : d # c => caller[d].at \in {"idle", "deactivate", "lock"}
  BY DEF ControlInv, TypeOK, StartFinish
<1>7. \A q \in Runs : ~Up(q)
  BY <1>1 DEF ControlInv, RunsInv, OneRunUp, Up
<1> HIDE DEF r
<1>8. TypeOK' /\ PcTypes'
  <2>1. \A d \in Callers : (opMu' = d) = (caller'[d].at \notin {"idle", "deactivate", "lock"})
    BY <1>4, <1>5, <1>6, IdleIsRecord, NilFacts
  <2> QED
    BY <1>2, <1>3, <1>4, <1>5, <2>1 DEF ControlInv, TypeOK, PcTypes, queueVars
<1>9. UpdatesCounted'
  BY <1>4, IdleIsRecord, UpdatesStay DEF ControlInv, UpdatesCounted, StartFinish
<1>10. UnusedIsFresh' /\ OneRunUp'
  <2>1. UnusedIsFresh'
    BY <1>1, <1>2, <1>3, <1>4, NilFacts DEF ControlInv, RunsInv, UnusedIsFresh
  <2>2. OneRunUp'
    BY <1>1, <1>2, <1>3, <1>4, <1>7 DEF ControlInv, RunsInv, OneRunUp, Up
  <2> QED
    BY <2>1, <2>2
<1>11. StartingIsCurrent' /\ StoppingKnowsRun'
  <2>1. StartingIsCurrent'
    BY <1>5, <1>6, IdleIsRecord DEF StartingIsCurrent
  <2>2. StoppingKnowsRun'
    BY <1>2, <1>5, <1>6, IdleIsRecord DEF ControlInv, RunsInv, StoppingKnowsRun
  <2> QED
    BY <2>1, <2>2
<1>12. ProcessorIsOfRun'
  BY <1>4 DEF ControlInv, RunsInv, ProcessorIsOfRun, Working
<1>13. ClosedBeforeDone'
  BY <1>2, <1>4 DEF ControlInv, RunsInv, ClosedBeforeDone
<1>14. OpenIsOfRun'
  BY <1>1, <1>4 DEF ControlInv, RunsInv, OpenIsOfRun
<1> QED
  BY <1>8, <1>9, <1>10, <1>11, <1>12, <1>13, <1>14 DEF ControlInv, RunsInv

-----------------------------------------------------------------------------
(* The steps of Stop and UpdateEndpoint.                                   *)

\* Either call marks the current run as cancelled before it waits for its turn.
LEMMA CancelKeeps ==
  ASSUME ControlInv, NEW c \in Callers, NEW op \in {"stop", "update"},
         cancelCurrentEndpointRun(c, op)
  PROVE  ControlInv'
<1> DEFINE rec == [Idle EXCEPT !.at = IF endpointRun = Nil THEN "lock" ELSE "deactivate",
                               !.op = op, !.run = endpointRun]
<1>1. /\ rec \in CallerRecords /\ rec.op = op /\ rec.run = endpointRun
      /\ rec.at = IF endpointRun = Nil THEN "lock" ELSE "deactivate"
  BY IdleIsRecord DEF ControlInv, TypeOK, CallerRecords, CallerAts
<1>2. caller' = [caller EXCEPT ![c] = rec]
  BY DEF cancelCurrentEndpointRun
<1>3. endpointRun # Nil => endpointRun \in Runs /\ runs[endpointRun].ep # Nil
  BY DEF ControlInv, RunsInv, TypeOK, UnusedIsFresh
<1> HIDE DEF rec
<1>4. RunsAdvance /\ (endpointRun # Nil => runs'[endpointRun].cancelled)
  BY <1>3, MarkingAdvances DEF ControlInv, cancelCurrentEndpointRun
<1>5. ActiveShrinks
  BY DeactivateShrinks DEF ControlInv, cancelCurrentEndpointRun
<1>6. TypeOK' /\ PcTypes' /\ RunsInv'
  <2>1. (opMu' = c) = (rec.at \notin {"idle", "deactivate", "lock"})
    BY <1>1 DEF ControlInv, TypeOK, cancelCurrentEndpointRun
  <2> QED
    <3>1. /\ rec.at = "deactivate" => rec.run \in Runs /\ runs'[rec.run].cancelled
          /\ rec.at \in {"lock", "deactivate"}
      BY <1>1, <1>3, <1>4
    <3>2. /\ endpoint' \in Endpoints /\ lastRun' = lastRun /\ opMu' = opMu
          /\ UNCHANGED <<endpointRun, processor, queueVars, endpointPc, watcherPc, processorPc>>
      BY DEF cancelCurrentEndpointRun, ControlInv, TypeOK
    <3> QED
      BY <1>1, <1>2, <1>4, <1>5, <2>1, <3>1, <3>2, CallerMoves
<1>7. UpdatesCounted'
  <2>1. /\ budget' \in [{"start", "stop", "update", "message"} -> Nat]
        /\ budget'["update"] = IF op = "update" THEN budget["update"] - 1 ELSE budget["update"]
    BY SpendEffect DEF ControlInv, cancelCurrentEndpointRun
  <2>2. caller[c].op # "update"
    BY DEF ControlInv, UpdatesCounted, cancelCurrentEndpointRun
  <2>3. endpoint' = endpoint
    BY DEF cancelCurrentEndpointRun
  <2>4. CASE op = "stop"
    BY <1>1, <1>2, <2>1, <2>2, <2>3, <2>4, UpdatesStay
  <2>5. CASE op = "update"
    <3>1. caller'[c] = rec /\ \A d \in Callers : d # c => caller'[d] = caller[d]
      BY <1>2 DEF ControlInv, PcTypes
    <3>2. updating' = updating \cup {c} /\ c \notin updating
      BY <1>1, <2>2, <2>5, <3>1 DEF updating
    <3>3. /\ IsFiniteSet(updating')
          /\ Cardinality(updating') = Cardinality(updating) + 1
      BY <3>2, FS_AddElement DEF ControlInv, UpdatesCounted
    <3>4. Cardinality(updating) \in Nat /\ endpoint \in Nat
      BY FS_CardinalityType, NilFacts DEF ControlInv, UpdatesCounted, TypeOK
    <3>5. endpoint' + Cardinality(updating') + budget'["update"] = MaxUpdates + 1
      BY <2>1, <2>3, <2>5, <3>3, <3>4 DEF ControlInv, UpdatesCounted
    <3>6. \A d \in Callers : caller'[d].op = "update" =>
            caller'[d].at \in {"deactivate", "lock", "stop", "stopDeactivate", "stopClose",
                               "stopWait", "stopProcessor"}
      BY <1>1, <3>1 DEF ControlInv, UpdatesCounted
    <3> QED
      BY <2>1, <3>3, <3>5, <3>6 DEF UpdatesCounted
  <2> QED
    BY <2>4, <2>5
<1> QED
  BY <1>6, <1>7 DEF ControlInv

\* A caller within Stop or UpdateEndpoint that goes on to another step of it.
LEMMA StoppingMoves ==
  ASSUME ControlInv, RunsAdvance, ActiveShrinks, NEW c \in Callers,
         NEW rec \in CallerRecords, caller' = [caller EXCEPT ![c] = rec],
         caller[c].at \notin {"idle", "start", "epStart", "started", "startFailed", "startFinish"},
         rec.at \in {"lock", "stop", "stopDeactivate", "stopClose", "stopWait", "stopProcessor"},
         rec.op = caller[c].op,
         rec.at \in {"stopDeactivate", "stopClose", "stopWait", "stopProcessor"} =>
           /\ endpointRun \in {rec.run, Nil}
           /\ rec.run # Nil => runs'[rec.run].cancelled,
         (opMu' = c) = (rec.at # "lock"),
         \A d \in Callers : d # c => (opMu' = d) = (opMu = d),
         UNCHANGED <<endpoint, endpointRun, lastRun, processor, queueVars, endpointPc,
                     watcherPc, processorPc, budget>>
  PROVE  ControlInv'
<1>1. TypeOK' /\ PcTypes' /\ RunsInv'
  <2>1. (opMu' = c) = (rec.at \notin {"idle", "deactivate", "lock"})
    OBVIOUS
  <2> QED
    BY <2>1, CallerMoves DEF ControlInv, TypeOK
<1>2. UpdatesCounted'
  <2>1. budget' = budget /\ budget \in [{"start", "stop", "update", "message"} -> Nat]
    BY DEF ControlInv, UpdatesCounted
  <2>2. rec.op = "update" <=> caller[c].op = "update"
    OBVIOUS
  <2> QED
    BY <2>1, <2>2, UpdatesStay
<1> QED
  BY <1>1, <1>2 DEF ControlInv

\* Stop and UpdateEndpoint shut the output, wait their turn and close the endpoint.
LEMMA StopSteps ==
  ASSUME ControlInv, NEW c \in Callers,
         CancelDeactivate(c) \/ StopLock(c) \/ StopDeactivate(c) \/ StopClose(c)
  PROVE  ControlInv'
<1>1. ASSUME NEW at \in {"lock", "stop", "stopClose", "stopWait"}, Goto(c, at)
      PROVE  \E rec \in CallerRecords :
               /\ caller' = [caller EXCEPT ![c] = rec]
               /\ rec.at = at /\ rec.op = caller[c].op /\ rec.run = caller[c].run
  BY <1>1, GotoEffect DEF ControlInv, CallerAts
<1>2. caller[c].at \in {"stopDeactivate", "stopClose"} =>
        /\ endpointRun \in {caller[c].run, Nil}
        /\ caller[c].run # Nil => runs[caller[c].run].cancelled
        /\ caller[c].run \in Runs \cup {Nil} /\ caller[c].ep \in Endpoints \cup {Nil}
        /\ opMu = c
  BY DEF ControlInv, RunsInv, TypeOK, PcTypes, CallerRecords, StoppingKnowsRun
<1>3. CASE CancelDeactivate(c)
  <2>1. PICK rec \in CallerRecords :
          /\ caller' = [caller EXCEPT ![c] = rec]
          /\ rec.at = "lock" /\ rec.op = caller[c].op /\ rec.run = caller[c].run
    BY <1>1, <1>3 DEF CancelDeactivate
  <2>2. caller[c].run \in Runs /\ runs[caller[c].run].ep \in Endpoints
    <3>1. caller[c].run \in Runs /\ runs[caller[c].run].cancelled
      BY <1>3 DEF ControlInv, RunsInv, StoppingKnowsRun, CancelDeactivate
    <3>2. runs[caller[c].run].ep # Nil
      BY <3>1 DEF ControlInv, RunsInv, UnusedIsFresh, noRun
    <3> QED
      BY <3>1, <3>2 DEF ControlInv, TypeOK, RunRecords
  <2>3. RunsAdvance /\ ActiveShrinks
    BY <1>3, <2>2, MarkingAdvances, DeactivateShrinks
    DEF ControlInv, CancelDeactivate, lifecycleVars
  <2>4. opMu # c
    BY <1>3 DEF ControlInv, TypeOK, CancelDeactivate
  <2> QED
    BY <1>3, <2>1, <2>3, <2>4, StoppingMoves DEF CancelDeactivate, lifecycleVars
<1>4. CASE StopLock(c)
  <2>1. PICK rec \in CallerRecords :
          /\ caller' = [caller EXCEPT ![c] = rec]
          /\ rec.at = "stop" /\ rec.op = caller[c].op /\ rec.run = caller[c].run
    BY <1>1, <1>4 DEF StopLock
  <2>2. RunsAdvance /\ ActiveShrinks
    BY <1>4, MarkingAdvances, DeactivateShrinks DEF ControlInv, StopLock
  <2>3. /\ opMu' = c
        /\ \A d \in Callers : d # c => (opMu' = d) = (opMu = d)
    BY <1>4, NilFacts DEF StopLock
  <2> QED
    BY <1>4, <2>1, <2>2, <2>3, StoppingMoves DEF StopLock
<1>5. CASE StopDeactivate(c)
  <2>1. PICK rec \in CallerRecords :
          /\ caller' = [caller EXCEPT ![c] = rec]
          /\ rec.at = "stopClose" /\ rec.op = caller[c].op /\ rec.run = caller[c].run
    BY <1>1, <1>5 DEF StopDeactivate
  <2>2. ActiveShrinks
    BY <1>5, DeactivateShrinks DEF ControlInv, StopDeactivate
  <2>3. RunsAdvance /\ runs' = runs
    BY <1>5, MarkingAdvances DEF ControlInv, StopDeactivate, lifecycleVars
  <2> QED
    BY <1>2, <1>5, <2>1, <2>2, <2>3, StoppingMoves DEF StopDeactivate, lifecycleVars
<1>6. CASE StopClose(c)
  <2>1. PICK rec \in CallerRecords :
          /\ caller' = [caller EXCEPT ![c] = rec]
          /\ rec.at = "stopWait" /\ rec.op = caller[c].op /\ rec.run = caller[c].run
    BY <1>1, <1>6 DEF StopClose
  <2>2. caller[c].run # Nil => caller[c].run \in Runs /\ runs[caller[c].run].ep # Nil
    <3>1. caller[c].run # Nil => caller[c].run \in Runs /\ runs[caller[c].run].cancelled
      BY <1>2, <1>6 DEF StopClose
    <3> QED
      BY <3>1 DEF ControlInv, RunsInv, UnusedIsFresh, noRun
  <2>3. RunsAdvance
    BY <1>6, <2>2, MarkingAdvances DEF ControlInv, StopClose
  <2>4. caller[c].run # Nil => runs'[caller[c].run].cancelled
    BY <1>2, <1>6, <2>2, <2>3 DEF StopClose, RunsAdvance
  <2>5. ActiveShrinks
    BY <1>6, DeactivateShrinks DEF ControlInv, StopClose
  <2> QED
    BY <1>2, <1>6, <2>1, <2>3, <2>4, <2>5, StoppingMoves DEF StopClose
<1> QED
  BY <1>3, <1>4, <1>5, <1>6

\* Under the lock the run to stop is looked up again, and cancelled.
LEMMA StopCurrentKeeps ==
  ASSUME ControlInv, NEW c \in Callers, stopCurrentEndpoint(c) PROVE ControlInv'
<1>1. PICK run : run = IF endpointRun = Nil THEN lastRun ELSE endpointRun
  OBVIOUS
<1> DEFINE rec == [caller[c] EXCEPT !.at = "stopDeactivate", !.run = run, !.ep = endpoint]
<1>2. run # Nil => run \in Runs /\ runs[run].ep # Nil
  BY <1>1 DEF ControlInv, RunsInv, TypeOK, UnusedIsFresh
<1>3. /\ rec \in CallerRecords /\ rec.at = "stopDeactivate" /\ rec.op = caller[c].op
      /\ rec.run = run
  <2>1. caller[c] \in CallerRecords /\ endpoint \in Endpoints /\ run \in Runs \cup {Nil}
    BY <1>1 DEF ControlInv, TypeOK, PcTypes
  <2> QED
    BY <2>1 DEF CallerRecords, CallerAts
<1>4. caller' = [caller EXCEPT ![c] = rec]
  BY <1>1 DEF stopCurrentEndpoint
<1> HIDE DEF rec
<1>5. RunsAdvance /\ (run # Nil => runs'[run].cancelled)
  BY <1>1, <1>2, MarkingAdvances DEF ControlInv, stopCurrentEndpoint
<1>6. ActiveShrinks
  BY DeactivateShrinks DEF ControlInv, stopCurrentEndpoint
<1>7. /\ opMu' = opMu /\ opMu = c /\ caller[c].at = "stop"
      /\ UNCHANGED <<endpoint, endpointRun, lastRun, processor, queueVars, endpointPc,
                     watcherPc, processorPc, budget>>
  BY DEF ControlInv, TypeOK, stopCurrentEndpoint
<1> QED
  BY <1>1, <1>3, <1>4, <1>5, <1>6, <1>7, StoppingMoves

\* When the run to stop is done, no processor is installed any more.
LEMMA StoppedHasNoProcessor ==
  ASSUME ControlInv, NEW c \in Callers, StopWait(c)
  PROVE  processor = Nil /\ processor' = Nil /\ runs' = runs
<1>1. /\ endpointRun \in {caller[c].run, Nil}
      /\ caller[c].run # Nil => runs[caller[c].run].done
  BY DEF ControlInv, RunsInv, StoppingKnowsRun, StopWait
<1>2. endpointRun = Nil
  BY <1>1 DEF ControlInv, RunsInv, OneRunUp
<1>3. processor = Nil
  BY <1>2, NilFacts DEF ControlInv, RunsInv, TypeOK, OneRunUp, ProcessorIsOfRun, Up
<1> QED
  BY <1>3 DEF StopWait, uninstallProcessor

\* Stop, once the run is done, has no processor left to wait for.
LEMMA StopWaitKeeps ==
  ASSUME ControlInv, NEW c \in Callers, StopWait(c) PROVE ControlInv'
<1> DEFINE rec == [caller[c] EXCEPT !.at = "stopProcessor", !.waits = processor]
<1>1. processor' = processor /\ runs' = runs
  BY StoppedHasNoProcessor
<1>2. /\ rec \in CallerRecords /\ rec.at = "stopProcessor" /\ rec.op = caller[c].op
      /\ rec.run = caller[c].run
  <2>1. caller[c] \in CallerRecords /\ processor \in Runs \cup {Nil}
    BY DEF ControlInv, TypeOK, PcTypes
  <2> QED
    BY <2>1 DEF CallerRecords, CallerAts
<1>3. caller' = [caller EXCEPT ![c] = rec]
  BY DEF StopWait
<1> HIDE DEF rec
<1>4. RunsAdvance /\ ActiveShrinks
  BY <1>1, MarkingAdvances, DeactivateShrinks DEF ControlInv, StopWait
<1>5. /\ endpointRun \in {caller[c].run, Nil}
      /\ caller[c].run # Nil => runs'[caller[c].run].cancelled
  BY <1>1 DEF ControlInv, RunsInv, StoppingKnowsRun, StopWait
<1>6. /\ opMu' = opMu /\ opMu = c /\ caller[c].at = "stopWait"
      /\ UNCHANGED <<endpoint, endpointRun, lastRun, queueVars, endpointPc, watcherPc,
                     processorPc, budget>>
  BY DEF ControlInv, TypeOK, StopWait
<1> QED
  BY <1>1, <1>2, <1>3, <1>4, <1>5, <1>6, StoppingMoves

\* Stop returns, or UpdateEndpoint installs the endpoint it was called with.
LEMMA StopReturnKeeps ==
  ASSUME ControlInv, NEW c \in Callers, StopReturn(c) PROVE ControlInv'
<1>1. /\ caller' = [caller EXCEPT ![c] = Idle] /\ opMu' = Nil
      /\ caller[c].at = "stopProcessor" /\ caller[c].op \in {"stop", "update"}
      /\ UNCHANGED <<endpointRun, runs, active, processor, queueVars, endpointPc, watcherPc,
                     processorPc, budget>>
  BY DEF StopReturn
<1>2. RunsAdvance /\ ActiveShrinks
  BY <1>1, MarkingAdvances, DeactivateShrinks DEF ControlInv
<1>3. UpdatesCounted' /\ endpoint' \in Endpoints /\ lastRun' \in {lastRun, Nil}
  <2>1. CASE caller[c].op = "stop"
    <3>1. endpoint' = endpoint /\ lastRun' = lastRun
      BY <2>1 DEF StopReturn
    <3> QED
      BY <2>1, <3>1, <1>1, IdleIsRecord, UpdatesStay DEF ControlInv, TypeOK, UpdatesCounted
  <2>2. CASE caller[c].op = "update"
    <3>1. endpoint' = endpoint + 1 /\ lastRun' = Nil
      BY <2>2 DEF StopReturn
    <3>2. caller'[c] = Idle /\ \A d \in Callers : d # c => caller'[d] = caller[d]
      BY <1>1 DEF ControlInv, PcTypes
    <3>3. updating' = updating \ {c} /\ c \in updating
      BY <2>2, <3>2, IdleIsRecord DEF updating
    <3>4. /\ IsFiniteSet(updating')
          /\ Cardinality(updating') = Cardinality(updating) - 1
      BY <3>3, FS_RemoveElement DEF ControlInv, UpdatesCounted
    <3>5. /\ Cardinality(updating) \in Nat /\ Cardinality(updating') \in Nat
          /\ endpoint \in Nat \ {0} /\ MaxUpdates \in Nat
          /\ budget["update"] \in Nat /\ budget' = budget
      BY <1>1, <3>4, FS_CardinalityType, ServiceAssumption
      DEF ControlInv, UpdatesCounted, TypeOK, Endpoints
    <3>6. endpoint' + Cardinality(updating') + budget'["update"] = MaxUpdates + 1
      BY <3>1, <3>4, <3>5 DEF ControlInv, UpdatesCounted
    <3>7. endpoint' \in Endpoints
      BY <3>1, <3>5, <3>6 DEF Endpoints
    <3> QED
      BY <3>1, <3>2, <3>4, <3>5, <3>6, <3>7, IdleIsRecord DEF ControlInv, UpdatesCounted
  <2> QED
    BY <2>1, <2>2, <1>1
<1> QED
  BY <1>1, <1>2, <1>3, Returns DEF ControlInv

-----------------------------------------------------------------------------
(* The steps of runEndpoint.                                               *)

\* The goroutine of a run that is up hands messages over, or winds the run up as far as
\* closing its endpoint.
LEMMA EndpointSteps ==
  ASSUME ControlInv, NEW r \in Runs,
         \/ HandleMessage(r) \/ Enqueue(r) \/ HandleInline(r) \/ InlineHandled(r)
         \/ RunReturns(r) \/ EndDeactivate(r) \/ waitForMessageQueueDrain(r) \/ EndClose(r)
  PROVE  ControlInv'
<1>0. /\ budget \in [{"start", "stop", "update", "message"} -> Nat]
      /\ queue \in Seq(Runs) /\ notify \in BOOLEAN /\ active \in [Endpoints -> BOOLEAN]
  BY DEF ControlInv, UpdatesCounted, TypeOK
<1>1. CASE HandleMessage(r)
  <2>1. RunsAdvance /\ ActiveShrinks
    BY <1>1, MarkingAdvances, DeactivateShrinks DEF ControlInv, HandleMessage, lifecycleVars
  <2>2. budget' \in [{"start", "stop", "update", "message"} -> Nat]
        /\ budget'["update"] = budget["update"]
    BY <1>1, SpendEffect DEF ControlInv, HandleMessage
  <2> QED
    BY <1>0, <1>1, <2>1, <2>2, EndpointMoves
    DEF HandleMessage, EndpointAts, Up, lifecycleVars, queueVars
<1>2. CASE Enqueue(r)
  <2>1. RunsAdvance /\ ActiveShrinks
    BY <1>2, MarkingAdvances, DeactivateShrinks DEF ControlInv, Enqueue, lifecycleVars
  <2>2. CASE queue' = Append(queue, r) /\ notify' = TRUE
    <3>1. Append(queue, r) \in Seq(Runs)
      BY <1>0, AppendProperties
    <3> QED
      BY <1>0, <1>2, <2>1, <2>2, <3>1, EndpointMoves DEF Enqueue, EndpointAts, Up, lifecycleVars
  <2>3. CASE UNCHANGED queueVars
    BY <1>0, <1>2, <2>1, <2>3, EndpointMoves
    DEF Enqueue, EndpointAts, Up, lifecycleVars, queueVars
  <2> QED
    BY <1>2, <2>2, <2>3 DEF Enqueue
<1>3. CASE HandleInline(r)
  <2>1. RunsAdvance /\ ActiveShrinks
    BY <1>3, MarkingAdvances, DeactivateShrinks DEF ControlInv, HandleInline, lifecycleVars
  <2> QED
    BY <1>0, <1>3, <2>1, EndpointMoves
    DEF HandleInline, EndpointAts, Up, lifecycleVars, queueVars
<1>4. CASE InlineHandled(r)
  <2>1. RunsAdvance /\ ActiveShrinks
    BY <1>4, MarkingAdvances, DeactivateShrinks DEF ControlInv, InlineHandled, lifecycleVars
  <2> QED
    BY <1>0, <1>4, <2>1, EndpointMoves
    DEF InlineHandled, EndpointAts, Up, lifecycleVars, queueVars
<1>5. CASE RunReturns(r)
  <2>1. runs[r].ep # Nil
    BY <1>5 DEF ControlInv, RunsInv, UnusedIsFresh, RunReturns
  <2>2. RunsAdvance /\ ActiveShrinks
    BY <1>5, <2>1, MarkingAdvances, DeactivateShrinks DEF ControlInv, RunReturns
  <2> QED
    BY <1>0, <1>5, <2>2, EndpointMoves DEF RunReturns, EndpointAts, Up, queueVars
<1>6. CASE EndDeactivate(r)
  <2>1. runs[r].ep \in Endpoints
    BY <1>6 DEF ControlInv, RunsInv, TypeOK, RunRecords, UnusedIsFresh, EndDeactivate
  <2>2. RunsAdvance /\ ActiveShrinks /\ ~active'[runs[r].ep]
    BY <1>6, <2>1, MarkingAdvances, DeactivateShrinks
    DEF ControlInv, EndDeactivate, lifecycleVars
  <2> QED
    BY <1>0, <1>6, <2>2, EndpointMoves
    DEF EndDeactivate, EndpointAts, Up, lifecycleVars, queueVars
<1>7. CASE waitForMessageQueueDrain(r)
  <2>1. RunsAdvance /\ ActiveShrinks
    BY <1>7, MarkingAdvances, DeactivateShrinks
    DEF ControlInv, waitForMessageQueueDrain, lifecycleVars
  <2> QED
    BY <1>0, <1>7, <2>1, EndpointMoves
    DEF waitForMessageQueueDrain, EndpointAts, Up, lifecycleVars, queueVars
<1>8. CASE EndClose(r)
  <2>1. runs[r].ep # Nil
    BY <1>8 DEF ControlInv, RunsInv, UnusedIsFresh, EndClose
  <2>2. RunsAdvance /\ ActiveShrinks /\ runs'[r].closed
    BY <1>8, <2>1, MarkingAdvances, DeactivateShrinks DEF ControlInv, EndClose
  <2> QED
    BY <1>0, <1>8, <2>2, EndpointMoves DEF EndClose, EndpointAts, Up, queueVars
<1> QED
  BY <1>1, <1>2, <1>3, <1>4, <1>5, <1>6, <1>7, <1>8

\* At the end of a run the processor that is installed, if any, is the run's own.
LEMMA EndStopProcessorKeeps ==
  ASSUME ControlInv, NEW r \in Runs, EndStopProcessor(r) PROVE ControlInv'
<1>1. /\ endpointPc[r].at = "stopProcessor" /\ runs[r].closed /\ runs[r].ep # Nil
      /\ endpointRun = r /\ (\A q \in Runs : q # r => ~Up(q))
  BY DEF ControlInv, RunsInv, OneRunUp, UnusedIsFresh, ClosedBeforeDone, EndStopProcessor, Up
<1>2. processor \in {Nil, r}
  BY <1>1 DEF ControlInv, RunsInv, TypeOK, ProcessorIsOfRun, Up
<1>3. \A p \in Runs : Working(p) => processor = p /\ p = r
  BY <1>1, <1>2, NilFacts DEF ControlInv, RunsInv, ProcessorIsOfRun, Up
<1>4. /\ endpointPc' \in [Runs -> [at : EndpointAts, waits : Runs \cup {Nil}]]
      /\ endpointPc'[r].at = "finish" /\ endpointPc'[r].waits = processor
      /\ \A q \in Runs : q # r => endpointPc'[q] = endpointPc[q]
  BY DEF ControlInv, TypeOK, PcTypes, EndStopProcessor, EndpointAts
<1>5. /\ runs' \in [Runs -> RunRecords]
      /\ \A q \in Runs : /\ runs'[q].ep = runs[q].ep /\ runs'[q].done = runs[q].done
                         /\ runs'[q].cancelled = runs[q].cancelled
                         /\ runs'[q].closed = runs[q].closed
                         /\ runs[q].ep = Nil => runs'[q] = runs[q]
  <2>1. CASE processor = Nil
    BY <2>1 DEF ControlInv, TypeOK, EndStopProcessor, uninstallProcessor
  <2>2. CASE processor = r
    <3> DEFINE new == [runs[r] EXCEPT !.processorCancelled = TRUE]
    <3>1. runs' = [runs EXCEPT ![r] = new] /\ runs \in [Runs -> RunRecords]
      BY <2>2, NilFacts DEF ControlInv, TypeOK, EndStopProcessor, uninstallProcessor
    <3>2. /\ new \in RunRecords /\ new.ep = runs[r].ep /\ new.done = runs[r].done
          /\ new.cancelled = runs[r].cancelled /\ new.closed = runs[r].closed
      BY <3>1 DEF RunRecords
    <3> HIDE DEF new
    <3> QED
      BY <1>1, <3>1, <3>2
  <2> QED
    BY <1>2, <2>1, <2>2
<1>6. /\ processor' = Nil
      /\ UNCHANGED <<endpoint, endpointRun, lastRun, opMu, active, queueVars, caller,
                     watcherPc, processorPc, budget>>
  BY DEF EndStopProcessor, uninstallProcessor
<1>7. TypeOK' /\ PcTypes'
  BY <1>4, <1>5, <1>6 DEF ControlInv, TypeOK, PcTypes, queueVars
<1>8. UpdatesCounted'
  BY <1>6 DEF ControlInv, UpdatesCounted, updating
<1>9. UnusedIsFresh' /\ OneRunUp'
  BY <1>1, <1>4, <1>5, <1>6 DEF ControlInv, RunsInv, TypeOK, UnusedIsFresh, OneRunUp, Up
<1>10. StartingIsCurrent' /\ StoppingKnowsRun'
  BY <1>1, <1>4, <1>5, <1>6
  DEF ControlInv, RunsInv, PcTypes, CallerRecords, StartingIsCurrent, StoppingKnowsRun
<1>11. ProcessorIsOfRun'
  <2>1. \A q \in Runs : Working(q)' <=> Working(q)
    BY <1>6 DEF Working
  <2>2. \A q \in Runs : endpointPc'[q].at = "off" => processorPc'[q] = "off"
    BY <1>4, <1>6 DEF ControlInv, RunsInv, ProcessorIsOfRun
  <2> QED
    BY <1>3, <1>4, <1>6, <2>1, <2>2 DEF ProcessorIsOfRun
<1>12. ClosedBeforeDone'
  BY <1>1, <1>4, <1>5 DEF ControlInv, RunsInv, ClosedBeforeDone
<1>13. OpenIsOfRun'
  BY <1>1, <1>4, <1>5, <1>6 DEF ControlInv, RunsInv, TypeOK, OpenIsOfRun
<1> QED
  BY <1>7, <1>8, <1>9, <1>10, <1>11, <1>12, <1>13 DEF ControlInv, RunsInv

\* The last step of a run: its processor is gone, and nobody is starting another run yet.
LEMMA EndFinishKeeps ==
  ASSUME ControlInv, NEW r \in Runs, EndFinish(r) PROVE ControlInv'
<1> DEFINE new == [runs[r] EXCEPT !.cancelled = TRUE, !.done = TRUE]
<1>1. /\ endpointPc[r].at = "finish" /\ runs[r].closed /\ runs[r].ep # Nil
      /\ endpointRun = r /\ (\A q \in Runs : q # r => ~Up(q))
  BY DEF ControlInv, RunsInv, OneRunUp, UnusedIsFresh, ClosedBeforeDone, EndFinish, Up
<1>2. processor = Nil
  BY <1>1 DEF ControlInv, RunsInv, TypeOK, ProcessorIsOfRun, Up
<1>3. \A p \in Runs : ~Working(p)
  <2>1. \A p \in Runs : Working(p) => endpointPc[p].at = "finish" /\ endpointPc[p].waits = p
    BY <1>2, NilFacts DEF ControlInv, RunsInv, ProcessorIsOfRun
  <2>2. \A p \in Runs : Working(p) => p = r
    BY <1>1, <2>1 DEF Up
  <2>3. Working(r) => processorPc[r] = "done"
    BY <2>1, NilFacts DEF EndFinish, ProcessorGone
  <2> QED
    BY <2>2, <2>3 DEF Working
<1>4. /\ endpointPc' \in [Runs -> [at : EndpointAts, waits : Runs \cup {Nil}]]
      /\ endpointPc'[r].at = "end"
      /\ \A q \in Runs : q # r => endpointPc'[q] = endpointPc[q]
  BY DEF ControlInv, PcTypes, EndFinish, EndpointAts
<1>5. /\ runs' \in [Runs -> RunRecords]
      /\ runs'[r].ep = runs[r].ep /\ runs'[r].closed /\ runs'[r].cancelled /\ runs'[r].done
      /\ \A q \in Runs : q # r => runs'[q] = runs[q]
  <2>1. runs[r] \in RunRecords /\ runs' = [runs EXCEPT ![r] = new]
    BY DEF ControlInv, TypeOK, EndFinish, finishEndpointRun
  <2>2. new \in RunRecords /\ new.ep = runs[r].ep /\ new.closed /\ new.cancelled /\ new.done
    BY <1>1, <2>1 DEF RunRecords
  <2> HIDE DEF new
  <2> QED
    BY <2>1, <2>2 DEF ControlInv, TypeOK
<1>6. /\ endpointRun' = Nil
      /\ UNCHANGED <<endpoint, lastRun, opMu, active, processor, queueVars, caller,
                     watcherPc, processorPc, budget>>
  BY <1>1 DEF EndFinish, finishEndpointRun
<1>7. TypeOK' /\ PcTypes'
  BY <1>4, <1>5, <1>6 DEF ControlInv, TypeOK, PcTypes, queueVars
<1>8. UpdatesCounted'
  BY <1>6 DEF ControlInv, UpdatesCounted, updating
<1>9. UnusedIsFresh' /\ OneRunUp'
  <2>1. UnusedIsFresh'
    BY <1>1, <1>4, <1>5, <1>6, NilFacts DEF ControlInv, RunsInv, UnusedIsFresh
  <2>2. OneRunUp'
    BY <1>1, <1>4, <1>5, <1>6 DEF ControlInv, RunsInv, OneRunUp, Up
  <2> QED
    BY <2>1, <2>2
<1>10. StartingIsCurrent' /\ StoppingKnowsRun'
  <2>1. \A c \in Callers : caller[c].at \notin {"epStart", "started", "startFailed", "startFinish"}
    BY <1>1 DEF ControlInv, RunsInv, StartingIsCurrent
  <2>2. StartingIsCurrent'
    BY <1>6, <2>1 DEF StartingIsCurrent
  <2>3. StoppingKnowsRun'
    BY <1>5, <1>6 DEF ControlInv, RunsInv, PcTypes, CallerRecords, StoppingKnowsRun
  <2> QED
    BY <2>2, <2>3
<1>11. ProcessorIsOfRun'
  <2>1. \A q \in Runs : endpointPc'[q].at = "off" => processorPc'[q] = "off"
    BY <1>4, <1>6 DEF ControlInv, RunsInv, ProcessorIsOfRun
  <2> QED
    BY <1>2, <1>3, <1>6, <2>1 DEF ProcessorIsOfRun, Working
<1>12. ClosedBeforeDone'
  BY <1>1, <1>4, <1>5 DEF ControlInv, RunsInv, ClosedBeforeDone
<1>13. OpenIsOfRun'
  <2>1. \A e \in Endpoints : ~active[e]
    BY <1>1 DEF ControlInv, RunsInv, OpenIsOfRun
  <2> QED
    BY <1>6, <2>1 DEF OpenIsOfRun
<1> QED
  BY <1>7, <1>8, <1>9, <1>10, <1>11, <1>12, <1>13 DEF ControlInv, RunsInv

-----------------------------------------------------------------------------
(* The steps of the watcher, of the message processor and of the context.  *)

\* The context of a run is cancelled, and closeEndpointOnContext shuts the run's own output
\* and closes its endpoint.
LEMMA WatcherSteps ==
  ASSUME ControlInv, NEW r \in Runs, CancelContext(r) \/ WatcherStep(r)
  PROVE  ControlInv'
<1>1. runs[r].ep \in Endpoints /\ runs[r].ep # Nil
  BY DEF ControlInv, RunsInv, TypeOK, RunRecords, UnusedIsFresh, CancelContext, WatcherStep,
         WatcherWakes, WatcherDeactivate, WatcherClose
<1>2. ASSUME NEW at \in WatcherAts \ {"off"}, watcherPc[r] # "off", WatcherGoto(r, at)
      PROVE  /\ watcherPc' \in [Runs -> WatcherAts]
             /\ \A q \in Runs : watcherPc[q] = "off" => watcherPc'[q] = "off"
  BY <1>2 DEF ControlInv, PcTypes, WatcherGoto
<1>3. CASE CancelContext(r)
  <2>1. RunsAdvance /\ ActiveShrinks
    BY <1>1, <1>3, MarkingAdvances, DeactivateShrinks DEF ControlInv, CancelContext
  <2> QED
    BY <1>3, <2>1, FlagsSet DEF CancelContext, pcVars, ControlInv, PcTypes
<1>4. CASE WatcherWakes(r)
  <2>1. RunsAdvance /\ ActiveShrinks
    BY <1>1, <1>4, MarkingAdvances, DeactivateShrinks DEF ControlInv, WatcherWakes
  <2> QED
    BY <1>2, <1>4, <2>1, FlagsSet DEF WatcherWakes, WatcherAts
<1>5. CASE WatcherDeactivate(r)
  <2>1. RunsAdvance /\ ActiveShrinks
    BY <1>1, <1>5, MarkingAdvances, DeactivateShrinks
    DEF ControlInv, WatcherDeactivate, lifecycleVars
  <2> QED
    BY <1>2, <1>5, <2>1, FlagsSet DEF WatcherDeactivate, WatcherAts, lifecycleVars
<1>6. CASE WatcherClose(r)
  <2>1. RunsAdvance /\ ActiveShrinks
    BY <1>1, <1>6, MarkingAdvances, DeactivateShrinks DEF ControlInv, WatcherClose
  <2> QED
    BY <1>2, <1>6, <2>1, FlagsSet DEF WatcherClose, WatcherAts
<1> QED
  BY <1>3, <1>4, <1>5, <1>6 DEF WatcherStep

\* The message processor takes, handles and discards messages.
LEMMA ProcessorSteps ==
  ASSUME ControlInv, NEW r \in Runs,
         Dequeue(r) \/ Processed(r) \/ ProcessorNotified(r) \/ ProcessorStops(r)
           \/ discardQueuedMessages(r)
  PROVE  ControlInv'
<1>0. queue \in Seq(Runs) /\ notify \in BOOLEAN
  BY DEF ControlInv, TypeOK
<1>1. CASE Dequeue(r)
  <2>1. CASE queue = <<>>
    BY <1>0, <1>1, <2>1, ProcessorMoves DEF Dequeue, Working, ProcessorAts
  <2>2. CASE queue # <<>>
    <3>1. Tail(queue) \in Seq(Runs)
      BY <1>0, <2>2, HeadTailProperties
    <3> QED
      BY <1>0, <1>1, <2>2, <3>1, ProcessorMoves DEF Dequeue, Working, ProcessorAts
  <2> QED
    BY <2>1, <2>2
<1>2. CASE Processed(r)
  BY <1>0, <1>2, ProcessorMoves DEF Processed, Working, ProcessorAts
<1>3. CASE ProcessorNotified(r)
  BY <1>0, <1>3, ProcessorMoves DEF ProcessorNotified, Working, ProcessorAts
<1>4. CASE ProcessorStops(r)
  BY <1>0, <1>4, ProcessorMoves DEF ProcessorStops, Working, ProcessorAts, queueVars
<1>5. CASE discardQueuedMessages(r)
  <2>1. <<>> \in Seq(Runs)
    OBVIOUS
  <2> QED
    BY <1>0, <1>5, <2>1, ProcessorMoves DEF discardQueuedMessages, Working, ProcessorAts
<1> QED
  BY <1>1, <1>2, <1>3, <1>4, <1>5

\* A processor that exits uninstalls itself, and no other.
LEMMA ProcessorExitKeeps ==
  ASSUME ControlInv, NEW r \in Runs, ProcessorExit(r) PROVE ControlInv'
<1>1. /\ processorPc' \in [Runs -> ProcessorAts]
      /\ processorPc'[r] = "done"
      /\ \A q \in Runs : q # r => processorPc'[q] = processorPc[q]
  BY DEF ControlInv, PcTypes, ProcessorExit, ProcessorGoto, ProcessorAts
<1>2. /\ processor' \in Runs \cup {Nil}
      /\ processor' = IF processor = r THEN Nil ELSE processor
  BY DEF ControlInv, TypeOK, ProcessorExit
<1>3. Working(r) /\ ~Working(r)' /\ \A q \in Runs : q # r => (Working(q)' <=> Working(q))
  BY <1>1 DEF Working, ProcessorExit
<1>4. UNCHANGED <<lifecycleVars, active, queueVars, caller, endpointPc, watcherPc, budget>>
  BY DEF ProcessorExit
<1>5. TypeOK' /\ PcTypes'
  BY <1>1, <1>2, <1>4 DEF ControlInv, TypeOK, PcTypes, lifecycleVars, queueVars
<1>6. UpdatesCounted'
  BY <1>4 DEF ControlInv, UpdatesCounted, updating, lifecycleVars
<1>7. UnusedIsFresh' /\ OneRunUp' /\ StartingIsCurrent' /\ StoppingKnowsRun'
  BY <1>4 DEF ControlInv, RunsInv, UnusedIsFresh, OneRunUp, StartingIsCurrent,
              StoppingKnowsRun, lifecycleVars, Up
<1>8. ProcessorIsOfRun'
  <2>1. \A q \in Runs : endpointPc'[q].at = "off" => processorPc'[q] = "off"
    BY <1>1, <1>3, <1>4 DEF ControlInv, RunsInv, ProcessorIsOfRun, Working
  <2>2. processor' # Nil => processor' = processor /\ processor # r
    BY <1>2
  <2>3. \A p \in Runs : Working(p)' => Working(p) /\ p # r
    BY <1>3
  <2> QED
    BY <1>2, <1>3, <1>4, <2>1, <2>2, <2>3 DEF ControlInv, RunsInv, TypeOK, ProcessorIsOfRun
<1>9. ClosedBeforeDone' /\ OpenIsOfRun'
  BY <1>4 DEF ControlInv, RunsInv, ClosedBeforeDone, OpenIsOfRun, lifecycleVars
<1> QED
  BY <1>5, <1>6, <1>7, <1>8, <1>9 DEF ControlInv, RunsInv

-----------------------------------------------------------------------------
(* The invariant of the specification.                                     *)

\* In the beginning nothing runs.
LEMMA ControlInit == Init => ControlInv
<1> SUFFICES ASSUME Init PROVE ControlInv
  OBVIOUS
<1>1. noRun \in RunRecords /\ ~noRun.done /\ ~noRun.closed
  BY DEF noRun, RunRecords
<1>2. TypeOK /\ PcTypes
  <2>1. \A c \in Callers : (opMu = c) = (caller[c].at \notin {"idle", "deactivate", "lock"})
    BY NilFacts, IdleIsRecord DEF Init
  <2>2. [at |-> "off", waits |-> Nil] \in [at : EndpointAts, waits : Runs \cup {Nil}]
    BY DEF EndpointAts
  <2>3. TypeOK
    <3>1. runs \in [Runs -> RunRecords] /\ active \in [Endpoints -> BOOLEAN]
      BY <1>1 DEF Init
    <3>2. queue \in Seq(Runs) /\ notify \in BOOLEAN
      BY EmptySeq DEF Init
    <3>3. endpoint \in Endpoints /\ {endpointRun, lastRun, processor} \subseteq Runs \cup {Nil}
      BY NilFacts DEF Init
    <3> QED
      BY <2>1, <3>1, <3>2, <3>3 DEF TypeOK
  <2>4. PcTypes
    BY <2>2, IdleIsRecord DEF Init, PcTypes, WatcherAts, ProcessorAts
  <2> QED
    BY <2>3, <2>4
<1>3. UpdatesCounted
  <2>1. updating = {}
    BY IdleIsRecord DEF Init, updating
  <2> QED
    BY <2>1, FS_EmptySet, ServiceAssumption, IdleIsRecord DEF Init, UpdatesCounted
<1>4. RunsInv
  BY <1>1, NilFacts, IdleIsRecord
  DEF Init, RunsInv, UnusedIsFresh, OneRunUp, StartingIsCurrent, StoppingKnowsRun,
      ProcessorIsOfRun, ClosedBeforeDone, OpenIsOfRun, Up, Working
<1> QED
  BY <1>2, <1>3, <1>4 DEF ControlInv

\* Every step keeps the invariant.
LEMMA ControlStep == ControlInv /\ [Next]_vars => ControlInv'
<1> SUFFICES ASSUME ControlInv, [Next]_vars PROVE ControlInv'
  OBVIOUS
<1>1. ASSUME NEW c \in Callers, Call(c) PROVE ControlInv'
  BY <1>1, StartLockKeeps, CancelKeeps DEF Call
<1>2. ASSUME NEW c \in Callers, CallerStep(c) PROVE ControlInv'
  BY <1>2, StartRefusedKeeps, NewRunKeeps, StartSteps, RunStartedKeeps, StartFinishKeeps,
     StopSteps, StopCurrentKeeps, StopWaitKeeps, StopReturnKeeps DEF CallerStep
<1>3. ASSUME NEW r \in Runs, HandleMessage(r) \/ RunReturns(r) \/ EndpointStep(r)
      PROVE  ControlInv'
  BY <1>3, EndpointSteps, EndStopProcessorKeeps, EndFinishKeeps DEF EndpointStep
<1>4. ASSUME NEW r \in Runs, CancelContext(r) \/ WatcherStep(r) PROVE ControlInv'
  BY <1>4, WatcherSteps
<1>5. ASSUME NEW r \in Runs, ProcessorStep(r) PROVE ControlInv'
  BY <1>5, ProcessorSteps, ProcessorExitKeeps DEF ProcessorStep
<1>6. CASE UNCHANGED vars
  <2>1. RunsAdvance /\ ActiveShrinks
    BY <1>6, MarkingAdvances, DeactivateShrinks DEF ControlInv, vars, lifecycleVars
  <2> QED
    BY <1>6, <2>1, FlagsSet DEF ControlInv, PcTypes, vars, lifecycleVars, pcVars
<1> QED
  BY <1>1, <1>2, <1>3, <1>4, <1>5, <1>6 DEF Next

\* Every state keeps it.
THEOREM ControlAlways == Spec => []ControlInv
BY ControlInit, ControlStep, PTL DEF Spec

\* The variables of the service have their types, and lifecycleOpMu is held by the caller that
\* is in Start or in the locked part of Stop or UpdateEndpoint, for any number of callers,
\* runs, calls and messages.
THEOREM TypeCorrectness == Spec => []TypeOK
<1>1. ControlInv => TypeOK
  BY DEF ControlInv
<1> QED
  BY <1>1, ControlAlways, PTL

\* When a run is done, its endpoint is closed, its Run has returned, its processor is gone
\* and its output is shut until a later run opens it.
THEOREM DoneRunsAreQuiet == Spec => []DoneIsQuiet
<1>1. ControlInv => DoneIsQuiet
  <2> SUFFICES ASSUME ControlInv, NEW r \in Runs, runs[r].done
               PROVE  /\ runs[r].closed
                      /\ endpointPc[r].at \in {"off", "end"}
                      /\ processorPc[r] \in {"off", "done"}
                      /\ active[runs[r].ep] => endpointRun # Nil
    BY DEF DoneIsQuiet
  <2>1. runs[r].ep \in Endpoints
    BY DEF ControlInv, RunsInv, TypeOK, RunRecords, UnusedIsFresh, noRun
  <2>2. endpointRun # r
    BY NilFacts DEF ControlInv, RunsInv, OneRunUp
  <2>3. ~Up(r)
    BY <2>2 DEF ControlInv, RunsInv, OneRunUp
  <2>4. ~Working(r)
    BY <2>3, NilFacts DEF ControlInv, RunsInv, ProcessorIsOfRun, Up
  <2> QED
    BY <2>1, <2>3, <2>4
    DEF ControlInv, RunsInv, ClosedBeforeDone, OpenIsOfRun, Up, Working
<1> QED
  BY <1>1, ControlAlways, PTL

-----------------------------------------------------------------------------
(* The messages.                                                           *)

handling == {p \in Runs : processorPc[p] = "handle"}

\* A processor works for the current run.
LEMMA WorkingIsCurrent ==
  ASSUME ControlInv, NEW p \in Runs, Working(p)
  PROVE  endpointRun = p /\ Up(p)
BY NilFacts DEF ControlInv, RunsInv, ProcessorIsOfRun, OneRunUp, Up

\* One goroutine at a time works on a message: the processor of the current run, or the
\* current run's endpoint when there is no processor.
THEOREM MessagesHandledSerially == Spec => []HandledSerially
<1>1. ControlInv => HandledSerially
  <2> SUFFICES ASSUME ControlInv PROVE HandledSerially
    OBVIOUS
  <2> DEFINE inline == {q \in Runs : endpointPc[q].at = "inline"}
             workers == handling \cup {MaxRuns + r : r \in inline}
  <2>1. \A p \in handling : p = endpointRun
    BY WorkingIsCurrent DEF handling, Working
  <2>2. \A q \in inline : q = endpointRun
    BY DEF ControlInv, RunsInv, OneRunUp, Up
  <2>3. handling = {} \/ inline = {}
    <3> SUFFICES ASSUME NEW p \in handling, NEW q \in inline PROVE FALSE
      OBVIOUS
    <3>1. processor = Nil /\ p = q /\ Working(p) /\ p \in Runs
      BY <2>1, <2>2 DEF ControlInv, RunsInv, ProcessorIsOfRun, handling, Working
    <3> QED
      BY <3>1, NilFacts DEF ControlInv, RunsInv, ProcessorIsOfRun
  <2>4. workers \subseteq {endpointRun} \/ workers \subseteq {MaxRuns + endpointRun}
    BY <2>1, <2>2, <2>3
  <2>5. PICK x : workers \subseteq {x}
    BY <2>4
  <2>6. IsFiniteSet({x}) /\ Cardinality({x}) = 1
    BY FS_Singleton
  <2>7. Cardinality(workers) <= 1
    BY <2>5, <2>6, FS_Subset
  <2> QED
    BY <2>7 DEF HandledSerially, handling
<1> QED
  BY <1>1, ControlAlways, PTL

\* The messages at work can be counted.
LEMMA HandlingFinite ==
  ASSUME ControlInv PROVE IsFiniteSet(handling) /\ Cardinality(handling) \in Nat
<1>1. handling \subseteq Runs /\ IsFiniteSet(Runs)
  BY FS_Interval, ServiceAssumption DEF Runs, handling
<1> QED
  BY <1>1, FS_Subset, FS_CardinalityType

\* The count is exact in every step of a processor: what it takes from the queue it is at
\* work on, and what it has handled or discards it counts off.
LEMMA ProcessorCounts ==
  ASSUME ControlInv, ControlInv', CountIsExact, NEW r \in Runs, ProcessorStep(r)
  PROVE  CountIsExact'
<1>0. /\ queue \in Seq(Runs) /\ processorPc \in [Runs -> ProcessorAts]
      /\ queueWG = Len(queue) + Cardinality(handling)
  BY DEF ControlInv, TypeOK, PcTypes, CountIsExact, handling
<1>1. IsFiniteSet(handling) /\ Cardinality(handling) \in Nat /\ Len(queue) \in Nat
  BY <1>0, HandlingFinite, LenProperties
<1> SUFFICES queueWG' = Len(queue') + Cardinality(handling')
  BY DEF CountIsExact, ControlInv, handling
<1>2. ASSUME NEW at, ProcessorGoto(r, at), at # "handle", processorPc[r] # "handle"
      PROVE  handling' = handling
  BY <1>0, <1>2 DEF ProcessorGoto, handling
<1>3. CASE Dequeue(r)
  <2>1. CASE queue = <<>>
    BY <1>0, <1>2, <1>3, <2>1 DEF Dequeue
  <2>2. CASE queue # <<>>
    <3>1. handling' = handling \cup {r} /\ r \notin handling /\ queue' = Tail(queue)
          /\ queueWG' = queueWG
      BY <1>0, <1>3, <2>2 DEF Dequeue, ProcessorGoto, handling
    <3>2. Len(queue') = Len(queue) - 1
      BY <1>0, <2>2, <3>1, HeadTailProperties
    <3>3. Cardinality(handling') = Cardinality(handling) + 1
      BY <1>1, <3>1, FS_AddElement
    <3>4. queueWG' = queueWG
      BY <3>1
    <3> QED
      BY <1>0, <1>1, <3>2, <3>3, <3>4
  <2> QED
    BY <2>1, <2>2
<1>4. CASE Processed(r)
  <2>1. /\ handling' = handling \ {r} /\ r \in handling /\ queue' = queue
        /\ queueWG' = queueWG - 1
    BY <1>0, <1>4 DEF Processed, ProcessorGoto, handling
  <2>2. Cardinality(handling') = Cardinality(handling) - 1
    BY <1>1, <2>1, FS_RemoveElement
  <2> QED
    BY <1>0, <1>1, <2>1, <2>2
<1>5. CASE discardQueuedMessages(r)
  <2>1. handling' = handling /\ queue' = <<>> /\ queueWG' = queueWG - Len(queue)
    BY <1>2, <1>5 DEF discardQueuedMessages
  <2>2. Len(queue') = 0
    BY <2>1, EmptySeq
  <2> QED
    BY <1>0, <1>1, <2>1, <2>2
<1>6. CASE ProcessorNotified(r) \/ ProcessorStops(r) \/ ProcessorExit(r)
  <2>1. handling' = handling /\ queue' = queue /\ queueWG' = queueWG
    BY <1>2, <1>6 DEF ProcessorNotified, ProcessorStops, ProcessorExit, queueVars
  <2> QED
    BY <1>0, <2>1
<1> QED
  BY <1>3, <1>4, <1>5, <1>6 DEF ProcessorStep

\* The count is exact when a message is queued.
LEMMA EnqueueCounts ==
  ASSUME ControlInv, ControlInv', CountIsExact, NEW r \in Runs, Enqueue(r)
  PROVE  CountIsExact'
<1>0. queue \in Seq(Runs) /\ queueWG = Len(queue) + Cardinality(handling)
  BY DEF ControlInv, TypeOK, CountIsExact, handling
<1>1. Cardinality(handling) \in Nat /\ Len(queue) \in Nat
  BY <1>0, HandlingFinite, LenProperties
<1>2. handling' = handling
  BY DEF Enqueue, handling
<1> SUFFICES queueWG' = Len(queue') + Cardinality(handling')
  BY DEF CountIsExact, ControlInv, handling
<1>3. CASE queue' = Append(queue, r) /\ queueWG' = queueWG + 1
  <2>1. Len(queue') = Len(queue) + 1
    BY <1>0, <1>3, AppendProperties
  <2> QED
    BY <1>0, <1>1, <1>2, <1>3, <2>1
<1>4. CASE UNCHANGED queueVars
  BY <1>0, <1>2, <1>4 DEF queueVars
<1> QED
  BY <1>3, <1>4 DEF Enqueue

\* The other steps leave the queue and the messages at work alone.
LEMMA OthersDoNotCount ==
  ASSUME ControlInv, ControlInv', CountIsExact, [Next]_vars,
         \A r \in Runs : ~Enqueue(r) /\ ~ProcessorStep(r)
  PROVE  CountIsExact'
<1>1. queue' = queue /\ queueWG' = queueWG
  BY DEF Next, Call, CallerStep, EndpointStep, WatcherStep, vars, queueVars,
         StartLock, StartRefused, NewRun, EndpointStarted, RunStarted, StartAbandoned, StartClose,
         StartFinish, CancelDeactivate, StopLock, stopCurrentEndpoint, StopDeactivate, StopClose,
         StopWait, StopReturn, cancelCurrentEndpointRun, CancelContext, HandleMessage,
         HandleInline, InlineHandled, RunReturns, EndDeactivate, waitForMessageQueueDrain,
         EndClose, EndStopProcessor, EndFinish, WatcherWakes, WatcherDeactivate, WatcherClose
<1>2. CASE \E c \in Callers : RunStarted(c)
  <2>1. PICK c \in Callers : RunStarted(c)
    BY <1>2
  <2> DEFINE r == caller[c].run
  <2>2. r \in Runs /\ processorPc[r] = "off"
    BY <2>1 DEF ControlInv, RunsInv, StartingIsCurrent, ProcessorIsOfRun, RunStarted
  <2>3. processorPc' \in {processorPc, [processorPc EXCEPT ![r] = "dequeue"]}
    BY <2>1 DEF RunStarted, startMessageProcessor
  <2>4. handling' = handling
    BY <2>2, <2>3 DEF ControlInv, PcTypes, handling
  <2> QED
    BY <1>1, <2>4 DEF CountIsExact, ControlInv, handling
<1>3. CASE \A c \in Callers : ~RunStarted(c)
  <2>1. processorPc' = processorPc
    BY <1>3 DEF Next, Call, CallerStep, EndpointStep, WatcherStep, vars, queueVars, pcVars,
         StartLock, StartRefused, NewRun, EndpointStarted, StartAbandoned, StartClose,
         StartFinish, CancelDeactivate, StopLock, stopCurrentEndpoint, StopDeactivate, StopClose,
         StopWait, StopReturn, cancelCurrentEndpointRun, CancelContext, HandleMessage,
         HandleInline, InlineHandled, RunReturns, EndDeactivate, waitForMessageQueueDrain,
         EndClose, EndStopProcessor, EndFinish, WatcherWakes, WatcherDeactivate, WatcherClose
  <2> QED
    BY <1>1, <2>1 DEF CountIsExact, ControlInv
<1> QED
  BY <1>2, <1>3

\* messageQueueWG counts exactly the messages that are queued or being handled, in every
\* state of every instance: Done never goes below zero, and whoever waits for the queue to drain
\* waits for those messages.
THEOREM MessagesAreCounted == Spec => []CountIsExact
<1>1. Init => CountIsExact
  <2> SUFFICES ASSUME Init PROVE CountIsExact
    OBVIOUS
  <2>1. TypeOK /\ handling = {}
    BY ControlInit DEF ControlInv, Init, handling
  <2>2. Cardinality(handling) = 0 /\ Len(queue) = 0 /\ queueWG = 0
    BY <2>1, FS_EmptySet, EmptySeq DEF Init
  <2> QED
    BY <2>1, <2>2 DEF CountIsExact, handling
<1>2. ControlInv /\ ControlInv' /\ CountIsExact /\ [Next]_vars => CountIsExact'
  BY ProcessorCounts, EnqueueCounts, OthersDoNotCount
<1> QED
  BY <1>1, <1>2, ControlAlways, PTL DEF Spec

-----------------------------------------------------------------------------
(* Which steps change what.                                                *)

\* Each goroutine changes its own place; Start places those of the run it brings up.
LEMMA WhoMoves ==
  ASSUME [Next]_vars
  PROVE  /\ \/ UNCHANGED endpointPc
            \/ \E c \in Callers : RunStarted(c)
            \/ \E r \in Runs : HandleMessage(r) \/ RunReturns(r) \/ EndpointStep(r)
         /\ \/ UNCHANGED watcherPc
            \/ \E c \in Callers : RunStarted(c)
            \/ \E r \in Runs : WatcherStep(r)
         /\ \/ UNCHANGED processorPc
            \/ \E c \in Callers : RunStarted(c)
            \/ \E r \in Runs : ProcessorStep(r)
         /\ \/ UNCHANGED queueWG
            \/ \E r \in Runs : Enqueue(r) \/ Processed(r) \/ discardQueuedMessages(r)
         /\ \/ UNCHANGED active
            \/ \E c \in Callers : RunStarted(c) \/ CancelDeactivate(c) \/ StopDeactivate(c)
            \/ \E r \in Runs : EndDeactivate(r) \/ WatcherDeactivate(r)
         /\ \/ UNCHANGED processor
            \/ \E c \in Callers : RunStarted(c) \/ StopWait(c)
            \/ \E r \in Runs : EndStopProcessor(r) \/ ProcessorExit(r)
         /\ \/ UNCHANGED <<runs, endpointRun>>
            \/ \E c \in Callers :
                 \/ \E r \in Runs : NewRun(c, r)
                 \/ \E op \in {"stop", "update"} : cancelCurrentEndpointRun(c, op)
                 \/ StartClose(c) \/ StartFinish(c) \/ stopCurrentEndpoint(c) \/ StopClose(c)
                 \/ StopWait(c)
            \/ \E r \in Runs : \/ CancelContext(r) \/ RunReturns(r) \/ EndClose(r)
                               \/ EndStopProcessor(r) \/ EndFinish(r)
                               \/ WatcherWakes(r) \/ WatcherClose(r)
<1>1. \/ UNCHANGED endpointPc
      \/ \E c \in Callers : RunStarted(c)
      \/ \E r \in Runs : HandleMessage(r) \/ RunReturns(r) \/ EndpointStep(r)
  BY DEF Next, Call, CallerStep, WatcherStep, ProcessorStep, vars, lifecycleVars,
         queueVars, pcVars, StartLock, StartRefused, NewRun, EndpointStarted,
         StartAbandoned, StartClose, StartFinish, CancelDeactivate, StopLock,
         stopCurrentEndpoint, StopDeactivate, StopClose, StopWait, StopReturn,
         cancelCurrentEndpointRun, CancelContext, WatcherWakes, WatcherDeactivate,
         WatcherClose, Dequeue, Processed, ProcessorNotified, ProcessorStops,
         discardQueuedMessages, ProcessorExit
<1>2. \/ UNCHANGED watcherPc
      \/ \E c \in Callers : RunStarted(c)
      \/ \E r \in Runs : WatcherStep(r)
  BY DEF Next, Call, CallerStep, EndpointStep, ProcessorStep, vars, lifecycleVars,
         queueVars, pcVars, StartLock, StartRefused, NewRun, EndpointStarted,
         StartAbandoned, StartClose, StartFinish, CancelDeactivate, StopLock,
         stopCurrentEndpoint, StopDeactivate, StopClose, StopWait, StopReturn,
         cancelCurrentEndpointRun, CancelContext, HandleMessage, RunReturns, Enqueue,
         HandleInline, InlineHandled, EndDeactivate, waitForMessageQueueDrain, EndClose,
         EndStopProcessor, EndFinish, Dequeue, Processed, ProcessorNotified,
         ProcessorStops, discardQueuedMessages, ProcessorExit
<1>3. \/ UNCHANGED processorPc
      \/ \E c \in Callers : RunStarted(c)
      \/ \E r \in Runs : ProcessorStep(r)
  BY DEF Next, Call, CallerStep, EndpointStep, WatcherStep, vars, lifecycleVars,
         queueVars, pcVars, StartLock, StartRefused, NewRun, EndpointStarted,
         StartAbandoned, StartClose, StartFinish, CancelDeactivate, StopLock,
         stopCurrentEndpoint, StopDeactivate, StopClose, StopWait, StopReturn,
         cancelCurrentEndpointRun, CancelContext, HandleMessage, RunReturns, Enqueue,
         HandleInline, InlineHandled, EndDeactivate, waitForMessageQueueDrain, EndClose,
         EndStopProcessor, EndFinish, WatcherWakes, WatcherDeactivate, WatcherClose
<1>4. \/ UNCHANGED queueWG
      \/ \E r \in Runs : Enqueue(r) \/ Processed(r) \/ discardQueuedMessages(r)
  BY DEF Next, Call, CallerStep, EndpointStep, WatcherStep, ProcessorStep, vars,
         lifecycleVars, queueVars, pcVars, StartLock, StartRefused, NewRun,
         EndpointStarted, RunStarted, StartAbandoned, StartClose, StartFinish,
         CancelDeactivate, StopLock, stopCurrentEndpoint, StopDeactivate, StopClose,
         StopWait, StopReturn, cancelCurrentEndpointRun, CancelContext, HandleMessage,
         RunReturns, HandleInline, InlineHandled, EndDeactivate,
         waitForMessageQueueDrain, EndClose, EndStopProcessor, EndFinish, WatcherWakes,
         WatcherDeactivate, WatcherClose, Dequeue, ProcessorNotified, ProcessorStops,
         ProcessorExit
<1>5. \/ UNCHANGED active
      \/ \E c \in Callers : RunStarted(c) \/ CancelDeactivate(c) \/ StopDeactivate(c)
      \/ \E r \in Runs : EndDeactivate(r) \/ WatcherDeactivate(r)
  BY DEF Next, Call, CallerStep, EndpointStep, WatcherStep, ProcessorStep, vars,
         lifecycleVars, queueVars, pcVars, StartLock, StartRefused, NewRun,
         EndpointStarted, StartAbandoned, StartClose, StartFinish, StopLock,
         stopCurrentEndpoint, StopClose, StopWait, StopReturn, cancelCurrentEndpointRun,
         CancelContext, HandleMessage, RunReturns, Enqueue, HandleInline, InlineHandled,
         waitForMessageQueueDrain, EndClose, EndStopProcessor, EndFinish, WatcherWakes,
         WatcherClose, Dequeue, Processed, ProcessorNotified, ProcessorStops,
         discardQueuedMessages, ProcessorExit
<1>6. \/ UNCHANGED processor
      \/ \E c \in Callers : RunStarted(c) \/ StopWait(c)
      \/ \E r \in Runs : EndStopProcessor(r) \/ ProcessorExit(r)
  BY DEF Next, Call, CallerStep, EndpointStep, WatcherStep, ProcessorStep, vars,
         lifecycleVars, queueVars, pcVars, StartLock, StartRefused, NewRun,
         EndpointStarted, StartAbandoned, StartClose, StartFinish, CancelDeactivate,
         StopLock, stopCurrentEndpoint, StopDeactivate, StopClose, StopReturn,
         cancelCurrentEndpointRun, CancelContext, HandleMessage, RunReturns, Enqueue,
         HandleInline, InlineHandled, EndDeactivate, waitForMessageQueueDrain, EndClose,
         EndFinish, WatcherWakes, WatcherDeactivate, WatcherClose, Dequeue, Processed,
         ProcessorNotified, ProcessorStops, discardQueuedMessages
<1>7. \/ UNCHANGED <<runs, endpointRun>>
      \/ \E c \in Callers :
           \/ \E r \in Runs : NewRun(c, r)
           \/ \E op \in {"stop", "update"} : cancelCurrentEndpointRun(c, op)
           \/ StartClose(c) \/ StartFinish(c) \/ stopCurrentEndpoint(c) \/ StopClose(c)
           \/ StopWait(c)
      \/ \E r \in Runs : \/ CancelContext(r) \/ RunReturns(r) \/ EndClose(r)
                         \/ EndStopProcessor(r) \/ EndFinish(r)
                         \/ WatcherWakes(r) \/ WatcherClose(r)
  BY DEF Next, Call, CallerStep, EndpointStep, WatcherStep, ProcessorStep, vars,
         lifecycleVars, queueVars, pcVars, StartLock, StartRefused, EndpointStarted,
         RunStarted, StartAbandoned, CancelDeactivate, StopLock, StopDeactivate,
         StopReturn, HandleMessage, Enqueue, HandleInline, InlineHandled, EndDeactivate,
         waitForMessageQueueDrain, WatcherDeactivate, Dequeue, Processed,
         ProcessorNotified, ProcessorStops, discardQueuedMessages, ProcessorExit
<1> QED
  BY <1>1, <1>2, <1>3, <1>4, <1>5, <1>6, <1>7

\* What a run has been through, it stays with: its endpoint and its flags.  Another run
\* becomes current only when there is none, and stops being current when it is done.
RunPersists(r) ==
  /\ runs[r].ep # Nil => runs'[r].ep = runs[r].ep
  /\ runs[r].ep = Nil /\ runs'[r].ep # Nil =>
       endpointRun = Nil /\ endpointRun' = r /\ ~runs'[r].closed
  /\ runs[r].cancelled => runs'[r].cancelled
  /\ runs[r].closed => runs'[r].closed
  /\ runs[r].done => runs'[r].done
  /\ runs[r].processorCancelled => runs'[r].processorCancelled
  /\ runs'[r].processorCancelled /\ ~runs[r].processorCancelled =>
       endpointPc'[r].at = "finish"
  /\ endpointRun = r => endpointRun' = r \/ runs'[r].done

\* Every run does so in every step.
LEMMA RunsPersist ==
  ASSUME ControlInv, [Next]_vars PROVE \A r \in Runs : RunPersists(r)
<1>0. runs \in [Runs -> RunRecords] /\ endpointRun \in Runs \cup {Nil}
  BY DEF ControlInv, TypeOK
<1>1. CASE UNCHANGED <<runs, endpointRun>>
  BY <1>1 DEF RunPersists
<1>2. ASSUME RunsAdvance, endpointRun' = endpointRun PROVE \A r \in Runs : RunPersists(r)
  BY <1>2 DEF RunsAdvance, RunPersists
<1>3. ASSUME NEW c \in Callers, NEW q \in Runs, NewRun(c, q)
      PROVE  \A r \in Runs : RunPersists(r)
  <2>1. runs[q] = noRun
    BY <1>3 DEF ControlInv, RunsInv, UnusedIsFresh, NewRun
  <2>2. /\ endpointRun = Nil /\ endpointRun' = q /\ runs[q].ep = Nil
        /\ ~runs'[q].closed /\ ~runs[q].cancelled /\ ~runs[q].closed /\ ~runs[q].done
        /\ ~runs[q].processorCancelled /\ ~runs'[q].processorCancelled
        /\ \A r \in Runs : r # q => runs'[r] = runs[r]
    <3>1. runs' = [runs EXCEPT ![q] = [runs[q] EXCEPT !.ep = endpoint]]
      BY <1>3 DEF NewRun
    <3>2. runs'[q] = [noRun EXCEPT !.ep = endpoint]
      BY <1>0, <2>1, <3>1
    <3> QED
      BY <1>0, <1>3, <2>1, <3>1, <3>2 DEF NewRun, noRun
  <2> QED
    BY <2>2, NilFacts DEF RunPersists
<1>4. ASSUME NEW q \in Runs, runs' = [runs EXCEPT ![q].cancelled = TRUE, ![q].done = TRUE]
      PROVE  \A r \in Runs : RunPersists(r) \/ (r # q /\ endpointRun = r)
  <2> DEFINE new == [runs[q] EXCEPT !.cancelled = TRUE, !.done = TRUE]
  <2>1. runs' = [runs EXCEPT ![q] = new] /\ runs[q] \in RunRecords
    BY <1>0, <1>4
  <2>2. /\ new.ep = runs[q].ep /\ new.cancelled /\ new.done /\ new.closed = runs[q].closed
        /\ new.processorCancelled = runs[q].processorCancelled
    BY <2>1 DEF RunRecords
  <2> HIDE DEF new
  <2> QED
    BY <1>0, <2>1, <2>2 DEF RunPersists
<1>5. ASSUME NEW c \in Callers, StartFinish(c) PROVE \A r \in Runs : RunPersists(r)
  BY <1>4, <1>5 DEF ControlInv, RunsInv, StartingIsCurrent, StartFinish, finishEndpointRun
<1>6. ASSUME NEW q \in Runs, EndFinish(q) PROVE \A r \in Runs : RunPersists(r)
  <2>1. endpointRun = q
    BY <1>6 DEF ControlInv, RunsInv, OneRunUp, EndFinish, Up
  <2> QED
    BY <1>4, <1>6, <2>1 DEF EndFinish, finishEndpointRun
<1>7. ASSUME NEW q \in Runs, EndStopProcessor(q) PROVE \A r \in Runs : RunPersists(r)
  <2>1. endpointRun' = endpointRun /\ processor \in {Nil, q} /\ endpointPc'[q].at = "finish"
    BY <1>7 DEF ControlInv, RunsInv, TypeOK, PcTypes, ProcessorIsOfRun, OneRunUp,
                EndStopProcessor, Up
  <2>2. CASE processor = Nil
    BY <1>7, <2>1, <2>2 DEF EndStopProcessor, uninstallProcessor, RunPersists
  <2>3. CASE processor = q
    <3> DEFINE new == [runs[q] EXCEPT !.processorCancelled = TRUE]
    <3>1. runs' = [runs EXCEPT ![q] = new] /\ runs[q] \in RunRecords
      BY <1>0, <1>7, <2>3, NilFacts DEF EndStopProcessor, uninstallProcessor
    <3>2. /\ new.ep = runs[q].ep /\ new.cancelled = runs[q].cancelled
          /\ new.done = runs[q].done /\ new.closed = runs[q].closed
          /\ new.processorCancelled
      BY <3>1 DEF RunRecords
    <3> HIDE DEF new
    <3> QED
      BY <1>0, <2>1, <3>1, <3>2 DEF RunPersists
  <2> QED
    BY <2>1, <2>2, <2>3
<1>8. ASSUME NEW c \in Callers, StopWait(c) PROVE \A r \in Runs : RunPersists(r)
  BY <1>1, <1>8, StoppedHasNoProcessor DEF StopWait
<1>9. ASSUME NEW c \in Callers,
             \/ \E op \in {"stop", "update"} : cancelCurrentEndpointRun(c, op)
             \/ StartClose(c) \/ stopCurrentEndpoint(c) \/ StopClose(c)
      PROVE  RunsAdvance /\ endpointRun' = endpointRun
  <2>1. ASSUME NEW r \in Runs \cup {Nil}, r \in {endpointRun, lastRun} PROVE r # Nil => runs[r].ep # Nil
    BY <2>1 DEF ControlInv, RunsInv, UnusedIsFresh
  <2>2. CASE \E op \in {"stop", "update"} : cancelCurrentEndpointRun(c, op)
    BY <1>0, <2>1, <2>2, MarkingAdvances DEF ControlInv, cancelCurrentEndpointRun
  <2>3. CASE StartClose(c)
    BY <2>3, MarkingAdvances
    DEF ControlInv, RunsInv, StartingIsCurrent, UnusedIsFresh, StartClose
  <2>4. CASE stopCurrentEndpoint(c)
    <3>1. PICK run : run = IF endpointRun = Nil THEN lastRun ELSE endpointRun
      OBVIOUS
    <3>2. run \in Runs \cup {Nil} /\ (run # Nil => runs[run].ep # Nil)
      BY <2>1, <3>1 DEF ControlInv, TypeOK
    <3> QED
      BY <2>4, <3>1, <3>2, MarkingAdvances DEF ControlInv, stopCurrentEndpoint
  <2>5. CASE StopClose(c)
    <3>1. caller[c].run # Nil => caller[c].run \in Runs /\ runs[caller[c].run].cancelled
      BY <2>5 DEF ControlInv, RunsInv, PcTypes, CallerRecords, StoppingKnowsRun, StopClose
    <3>2. caller[c].run # Nil => runs[caller[c].run].ep # Nil
      BY <3>1 DEF ControlInv, RunsInv, UnusedIsFresh, noRun
    <3> QED
      BY <2>5, <3>1, <3>2, MarkingAdvances DEF ControlInv, StopClose
  <2> QED
    BY <1>9, <2>2, <2>3, <2>4, <2>5
<1>10. ASSUME NEW r \in Runs,
              \/ CancelContext(r) \/ RunReturns(r) \/ EndClose(r) \/ WatcherWakes(r)
              \/ WatcherClose(r)
       PROVE  RunsAdvance /\ endpointRun' = endpointRun
  <2>1. runs[r].ep # Nil
    BY <1>10 DEF ControlInv, RunsInv, UnusedIsFresh, CancelContext, RunReturns, EndClose,
                 WatcherWakes, WatcherClose
  <2> QED
    BY <1>10, <2>1, MarkingAdvances DEF ControlInv, CancelContext, RunReturns, EndClose,
                                        WatcherWakes, WatcherClose
<1> QED
  BY <1>1, <1>2, <1>3, <1>5, <1>6, <1>7, <1>8, <1>9, <1>10, WhoMoves

\* How far the goroutine of a run can get in a step.
LEMMA EndpointGoes ==
  ASSUME ControlInv, [Next]_vars, NEW r \in Runs
  PROVE  /\ endpointPc[r].at \in {"finish", "end"} => endpointPc'[r].at \in {"finish", "end"}
         /\ endpointPc'[r].at = "off" => endpointPc[r].at = "off"
         /\ endpointPc'[r].at \in {"close", "stopProcessor", "finish"} =>
              \/ endpointPc[r].at \in {"close", "stopProcessor", "finish"}
              \/ runs[r].cancelled
              \/ queueWG = 0 /\ UNCHANGED queueWG
         /\ endpointPc'[r].at # "off" /\ endpointPc[r].at = "off" =>
              \E c \in Callers : RunStarted(c) /\ caller[c].run = r
         /\ endpointPc[r].at = "end" => endpointPc'[r].at = "end"
         /\ endpointPc'[r].at \in {"run", "accepted", "inline"} =>
              \/ endpointPc[r].at \in {"run", "accepted", "inline"}
              \/ \E c \in Callers : RunStarted(c) /\ caller[c].run = r
         /\ endpointPc'[r].at \in {"run", "accepted", "inline", "deactivate", "drain"} =>
              \/ endpointPc[r].at \in {"run", "accepted", "inline", "deactivate", "drain"}
              \/ \E c \in Callers : RunStarted(c) /\ caller[c].run = r
<1>0. endpointPc \in [Runs -> [at : EndpointAts, waits : Runs \cup {Nil}]]
  BY DEF ControlInv, PcTypes
<1>1. CASE UNCHANGED endpointPc
  BY <1>1
<1>2. ASSUME NEW c \in Callers, RunStarted(c)
      PROVE  /\ caller[c].run \in Runs /\ endpointPc[caller[c].run].at = "off"
             /\ endpointPc'[caller[c].run].at = "run"
             /\ \A q \in Runs : q # caller[c].run => endpointPc'[q] = endpointPc[q]
  <2>1. caller[c].run \in Runs /\ endpointPc[caller[c].run].at = "off"
    BY <1>2 DEF ControlInv, RunsInv, StartingIsCurrent, RunStarted
  <2> QED
    BY <1>0, <1>2, <2>1, AtEffect DEF ControlInv, RunStarted, At, EndpointAts
<1>3. CASE \E c \in Callers : RunStarted(c)
  BY <1>2, <1>3
<1>4. ASSUME NEW q \in Runs, HandleMessage(q) \/ RunReturns(q) \/ EndpointStep(q)
      PROVE  /\ \A p \in Runs : p # q => endpointPc'[p] = endpointPc[p]
             /\ endpointPc[q].at # "off" /\ endpointPc'[q].at # "off"
             /\ endpointPc[q].at \in {"finish", "end"} => endpointPc'[q].at \in {"finish", "end"}
             /\ endpointPc'[q].at \in {"close", "stopProcessor", "finish"} =>
                  \/ endpointPc[q].at \in {"close", "stopProcessor", "finish"}
                  \/ runs[q].cancelled
                  \/ queueWG = 0 /\ UNCHANGED queueWG
             /\ endpointPc[q].at # "end"
             /\ endpointPc'[q].at \in {"run", "accepted", "inline"} =>
                  endpointPc[q].at \in {"run", "accepted", "inline"}
             /\ endpointPc'[q].at \in {"run", "accepted", "inline", "deactivate", "drain"} =>
                  endpointPc[q].at \in {"run", "accepted", "inline", "deactivate", "drain"}
  BY <1>0, <1>4 DEF EndpointStep, HandleMessage, RunReturns, Enqueue, HandleInline, InlineHandled,
                    EndDeactivate, waitForMessageQueueDrain, EndClose, EndStopProcessor,
                    EndFinish, At, queueVars
<1>5. CASE \E q \in Runs : HandleMessage(q) \/ RunReturns(q) \/ EndpointStep(q)
  BY <1>4, <1>5
<1> QED
  BY <1>1, <1>3, <1>5, WhoMoves

\* A watcher that is going to shut the output has seen its run cancelled; a watcher starts
\* with its run.
LEMMA WatcherGoes ==
  ASSUME ControlInv, [Next]_vars, NEW r \in Runs
  PROVE  /\ watcherPc'[r] = "deactivate" => watcherPc[r] = "deactivate" \/ runs[r].cancelled
         /\ watcherPc[r] = "off" /\ watcherPc'[r] # "off" => endpointPc'[r].at # "off"
<1>0. watcherPc \in [Runs -> WatcherAts]
  BY DEF ControlInv, PcTypes
<1>1. ASSUME NEW c \in Callers, RunStarted(c)
      PROVE  /\ watcherPc'[caller[c].run] = "wait" /\ endpointPc'[caller[c].run].at = "run"
             /\ \A q \in Runs : q # caller[c].run => watcherPc'[q] = watcherPc[q]
  <2>1. caller[c].run \in Runs
    BY <1>1 DEF ControlInv, RunsInv, StartingIsCurrent, RunStarted
  <2> QED
    BY <1>0, <1>1, <2>1, AtEffect DEF ControlInv, RunStarted, At, EndpointAts
<1>2. ASSUME NEW q \in Runs, WatcherStep(q)
      PROVE  /\ \A p \in Runs : p # q => watcherPc'[p] = watcherPc[p]
             /\ watcherPc[q] # "off"
             /\ watcherPc'[q] = "deactivate" => runs[q].cancelled
  BY <1>0, <1>2 DEF WatcherStep, WatcherWakes, WatcherDeactivate, WatcherClose, WatcherGoto
<1> QED
  BY <1>1, <1>2, WhoMoves

\* A processor stops because its run or it is cancelled.
LEMMA ProcessorGoes ==
  ASSUME ControlInv, [Next]_vars, NEW r \in Runs,
         processorPc'[r] \in {"discard", "exit", "done"}
  PROVE  processorPc[r] \in {"discard", "exit", "done"} \/ ProcessorContextDone(r)
<1>0. processorPc \in [Runs -> ProcessorAts]
  BY DEF ControlInv, PcTypes
<1>1. ASSUME NEW c \in Callers, RunStarted(c)
      PROVE  \A q \in Runs : processorPc'[q] \in {processorPc[q], "dequeue"}
  BY <1>0, <1>1 DEF RunStarted, startMessageProcessor
<1>2. ASSUME NEW q \in Runs, ProcessorStep(q)
      PROVE  /\ \A p \in Runs : p # q => processorPc'[p] = processorPc[p]
             /\ processorPc'[q] \in {"discard", "exit", "done"} =>
                  processorPc[q] \in {"discard", "exit", "done"} \/ ProcessorContextDone(q)
  BY <1>0, <1>2 DEF ProcessorStep, Dequeue, Processed, ProcessorNotified, ProcessorStops,
                    discardQueuedMessages, ProcessorExit, ProcessorGoto
<1> QED
  BY <1>1, <1>2, WhoMoves

\* Every step keeps the reasons to shut an output or to stop a processor.
LEMMA ReasonsStep ==
  ReasonsInv /\ ControlInv' /\ CountIsExact' /\ [Next]_vars => ReasonsInv'
<1> SUFFICES ASSUME ReasonsInv, ControlInv', CountIsExact', [Next]_vars PROVE ReasonsInv'
  OBVIOUS
<1>0. ControlInv /\ CountIsExact
  BY DEF ReasonsInv
<1>1. \A r \in Runs : RunPersists(r)
  BY <1>0, RunsPersist
<1>2. EndedIsDone'
  BY <1>1 DEF ReasonsInv, EndedIsDone, RunPersists
<1>3. WatchedIsStarted'
  BY <1>0, WatcherGoes, EndpointGoes DEF ReasonsInv, WatchedIsStarted
<1>4. WhyShut'
  <2> SUFFICES ASSUME NEW r \in Runs
               PROVE  /\ watcherPc'[r] = "deactivate" => runs'[r].cancelled
                      /\ processorPc'[r] \in {"discard", "exit", "done"} =>
                           runs'[r].cancelled \/ runs'[r].processorCancelled
                      /\ runs'[r].processorCancelled => endpointPc'[r].at \in {"finish", "end"}
                      /\ endpointPc'[r].at \in {"close", "stopProcessor", "finish"}
                           /\ ~runs'[r].cancelled => queueWG' = 0
    BY DEF WhyShut
  <2>1. watcherPc'[r] = "deactivate" => runs'[r].cancelled
    BY <1>0, <1>1, WatcherGoes DEF ReasonsInv, WhyShut, RunPersists
  <2>2. processorPc'[r] \in {"discard", "exit", "done"} =>
          runs'[r].cancelled \/ runs'[r].processorCancelled
    BY <1>0, <1>1, ProcessorGoes DEF ReasonsInv, WhyShut, RunPersists, ProcessorContextDone
  <2>3. runs'[r].processorCancelled => endpointPc'[r].at \in {"finish", "end"}
    BY <1>0, <1>1, EndpointGoes DEF ReasonsInv, WhyShut, RunPersists
  <2>4. ASSUME endpointPc'[r].at \in {"close", "stopProcessor", "finish"}, ~runs'[r].cancelled
        PROVE  queueWG' = 0
    <3>1. ~runs[r].cancelled
      BY <1>1, <2>4 DEF RunPersists
    <3>2. CASE queueWG = 0 /\ UNCHANGED queueWG
      BY <3>2
    <3>3. CASE endpointPc[r].at \in {"close", "stopProcessor", "finish"}
      <4>1. queueWG = 0 /\ endpointRun = r
        BY <1>0, <3>1, <3>3 DEF ReasonsInv, WhyShut, ControlInv, RunsInv, OneRunUp, Up
      <4>2. Len(queue) = 0 /\ handling = {}
        <5>1. Len(queue) \in Nat
          BY <1>0, LenProperties DEF ControlInv, TypeOK
        <5>2. Cardinality(handling) \in Nat /\ IsFiniteSet(handling)
          BY <1>0, HandlingFinite
        <5>3. 0 = Len(queue) + Cardinality(handling)
          BY <4>1 DEF ReasonsInv, CountIsExact, handling
        <5>4. Len(queue) = 0 /\ Cardinality(handling) = 0
          BY <5>1, <5>2, <5>3
        <5> QED
          BY <5>2, <5>4, FS_EmptySet
      <4>3. ASSUME NEW q \in Runs PROVE ~Enqueue(q) /\ ~Processed(q)
        BY <1>0, <3>3, <4>1, <4>2
        DEF Enqueue, Processed, handling, ControlInv, RunsInv, OneRunUp, Up
      <4>4. ASSUME NEW q \in Runs, discardQueuedMessages(q) PROVE queueWG' = 0
        BY <4>1, <4>2, <4>4 DEF discardQueuedMessages
      <4> QED
        BY <4>1, <4>3, <4>4, WhoMoves
    <3> QED
      BY <1>0, <2>4, <3>1, <3>2, <3>3, EndpointGoes
  <2> QED
    BY <2>1, <2>2, <2>3, <2>4
<1> QED
  BY <1>0, <1>2, <1>3, <1>4 DEF ReasonsInv

\* They hold in the beginning.
LEMMA ReasonsInit == Init => ReasonsInv
<1> SUFFICES ASSUME Init PROVE ReasonsInv
  OBVIOUS
<1>1. ControlInv
  BY ControlInit
<1>2. CountIsExact
  <2>1. handling = {}
    BY DEF Init, handling
  <2>2. Cardinality(handling) = 0 /\ Len(queue) = 0 /\ queueWG = 0
    BY <2>1, FS_EmptySet, EmptySeq DEF Init
  <2> QED
    BY <1>1, <2>2 DEF CountIsExact, ControlInv, handling
<1>3. EndedIsDone /\ WatchedIsStarted /\ WhyShut
  BY DEF Init, EndedIsDone, WatchedIsStarted, WhyShut, noRun
<1> QED
  BY <1>1, <1>2, <1>3 DEF ReasonsInv

\* A run that is no longer current is done, and whoever shuts an output or stops a processor
\* has a reason to, in every state.
THEOREM ReasonsAlways == Spec => []ReasonsInv
BY ReasonsInit, ReasonsStep, ControlAlways, MessagesAreCounted, PTL DEF Spec

\* The processor discards a non-empty queue only for a run that was cancelled: an endpoint that
\* ends by itself has waited until its messages were handled, and no other can queue any.
THEOREM EndedEndpointLosesNothing == Spec => []NothingLostUncancelled
<1>1. ReasonsInv => NothingLostUncancelled
  <2> SUFFICES ASSUME ReasonsInv, NEW r \in Runs, processorPc[r] = "discard",
                      ~runs[r].cancelled
               PROVE  queue = <<>>
    BY DEF NothingLostUncancelled
  <2>1. Up(r) /\ endpointRun = r
    BY WorkingIsCurrent DEF ReasonsInv, Working
  <2>2. endpointPc[r].at = "finish"
    BY <2>1 DEF ReasonsInv, WhyShut, Up
  <2>3. queueWG = 0 /\ queueWG = Len(queue) + Cardinality(handling) /\ queue \in Seq(Runs)
    BY <2>2 DEF ReasonsInv, WhyShut, CountIsExact, TypeOK, handling
  <2>4. Len(queue) \in Nat /\ Cardinality(handling) \in Nat
    BY <2>3, LenProperties, HandlingFinite DEF ReasonsInv
  <2>5. Len(queue) = 0
    BY <2>3, <2>4
  <2> QED
    BY <2>3, <2>5, EmptySeq
<1> QED
  BY <1>1, ReasonsAlways, PTL

-----------------------------------------------------------------------------
(* What is heard, where a closed endpoint cannot be started again.         *)

\* The endpoint of a run gets closed by the run's own Start, watcher and goroutine, or by
\* Stop.
LEMMA ClosedBy ==
  ASSUME ControlInv, [Next]_vars, NEW r \in Runs, runs'[r].closed, ~runs[r].closed
  PROVE  \/ Up(r) \/ watcherPc[r] = "close"
         \/ \E c \in Callers : caller[c].at \in {"startFailed", "stopClose"}
<1>0. runs \in [Runs -> RunRecords] /\ caller \in [Callers -> CallerRecords]
  BY DEF ControlInv, TypeOK, PcTypes
<1>1. CASE UNCHANGED <<runs, endpointRun>>
  BY <1>1
<1>2. ASSUME NEW c \in Callers, NEW q \in Runs PROVE ~NewRun(c, q)
  <2> SUFFICES ASSUME NewRun(c, q) PROVE FALSE
    OBVIOUS
  <2>1. runs[q] = noRun /\ runs' = [runs EXCEPT ![q] = [runs[q] EXCEPT !.ep = endpoint]]
    BY DEF ControlInv, RunsInv, UnusedIsFresh, NewRun
  <2>2. ~runs'[q].closed
    BY <1>0, <2>1 DEF noRun
  <2> QED
    BY <1>0, <2>1, <2>2
<1>3. ASSUME NEW c \in Callers,
             \/ \E op \in {"stop", "update"} : cancelCurrentEndpointRun(c, op)
             \/ stopCurrentEndpoint(c)
      PROVE  FALSE
  <2>1. PICK run : runs' = IF run = Nil THEN runs ELSE Cancelled(run)
    BY <1>3 DEF cancelCurrentEndpointRun, stopCurrentEndpoint
  <2> QED
    BY <1>0, <2>1 DEF Cancelled, RunRecords
<1>4. ASSUME NEW c \in Callers, StartFinish(c) \/ StopWait(c) PROVE FALSE
  BY <1>0, <1>4, StoppedHasNoProcessor DEF StartFinish, finishEndpointRun, RunRecords
<1>5. ASSUME NEW c \in Callers, StartClose(c) \/ StopClose(c)
      PROVE  caller[c].at \in {"startFailed", "stopClose"}
  BY <1>5 DEF StartClose, StopClose
<1>6. ASSUME NEW q \in Runs,
             CancelContext(q) \/ RunReturns(q) \/ EndFinish(q) \/ WatcherWakes(q)
      PROVE  FALSE
  BY <1>0, <1>6 DEF CancelContext, RunReturns, EndFinish, finishEndpointRun, WatcherWakes, RunRecords
<1>7. ASSUME NEW q \in Runs, EndStopProcessor(q) PROVE FALSE
  BY <1>0, <1>7 DEF EndStopProcessor, uninstallProcessor, RunRecords
<1>8. ASSUME NEW q \in Runs, EndClose(q) PROVE Up(r)
  BY <1>0, <1>8 DEF EndClose, closeEndpoint, Up
<1>9. ASSUME NEW q \in Runs, WatcherClose(q) PROVE watcherPc[r] = "close"
  BY <1>0, <1>9 DEF WatcherClose, closeEndpoint
<1> QED
  BY <1>1, <1>2, <1>3, <1>4, <1>5, <1>6, <1>7, <1>8, <1>9, WhoMoves

\* A caller whose endpoint has just started found it open, or was there before.
LEMMA StartedBy ==
  ASSUME ControlInv, [Next]_vars, Restartable = FALSE, NEW c \in Callers,
         caller'[c].at = "started"
  PROVE  /\ caller'[c].run = caller[c].run /\ caller[c].at \in {"epStart", "started"}
         /\ caller[c].at # "started" =>
              UNCHANGED runs /\ ~EndpointClosed(runs[caller[c].run].ep)
<1>0. caller \in [Callers -> CallerRecords]
  BY DEF ControlInv, PcTypes
<1>1. ASSUME NEW d \in Callers, Call(d) \/ CallerStep(d), caller'[d].at = "started"
      PROVE  EndpointStarted(d)
  <2>1. ASSUME NEW at, Goto(d, at) PROVE at = "started"
    BY <1>0, <1>1, <2>1 DEF Goto, CallerRecords
  <2>2. ~(caller' = [caller EXCEPT ![d] = Idle])
    BY <1>0, <1>1, IdleIsRecord
  <2>3. ASSUME NEW op \in {"stop", "update"}, cancelCurrentEndpointRun(d, op) PROVE FALSE
    <3> DEFINE at == IF endpointRun = Nil THEN "lock" ELSE "deactivate"
    <3>1. caller'[d] = [Idle EXCEPT !.at = at, !.op = op, !.run = endpointRun]
      BY <1>0, <2>3 DEF cancelCurrentEndpointRun
    <3> QED
      BY <1>1, <3>1 DEF Idle
  <2>4. \A q \in Runs : ~NewRun(d, q)
    BY <1>0, <1>1 DEF NewRun, CallerRecords
  <2>5. ~stopCurrentEndpoint(d) /\ ~StopWait(d)
    BY <1>0, <1>1 DEF stopCurrentEndpoint, StopWait, CallerRecords
  <2>6. ~StartRefused(d) /\ ~RunStarted(d) /\ ~StartFinish(d) /\ ~StopReturn(d)
    BY <2>2 DEF StartRefused, RunStarted, StartFinish, StopReturn
  <2>7. ~StartLock(d) /\ ~StartAbandoned(d) /\ ~StartClose(d) /\ ~CancelDeactivate(d)
        /\ ~StopLock(d) /\ ~StopDeactivate(d) /\ ~StopClose(d)
    BY <2>1 DEF StartLock, StartAbandoned, StartClose, CancelDeactivate, StopLock,
                StopDeactivate, StopClose
  <2> QED
    BY <1>1, <2>3, <2>4, <2>5, <2>6, <2>7 DEF Call, CallerStep
<1>2. ASSUME NEW d \in Callers, d # c, Call(d) \/ CallerStep(d)
      PROVE  caller'[c] = caller[c]
  BY <1>0, <1>2
  DEF Call, CallerStep, StartLock, StartRefused, NewRun, EndpointStarted, RunStarted,
      StartAbandoned, StartClose, StartFinish, CancelDeactivate, StopLock, stopCurrentEndpoint,
      StopDeactivate, StopClose, StopWait, StopReturn, cancelCurrentEndpointRun, Goto
<1>3. CASE EndpointStarted(c)
  <2>1. caller' = [caller EXCEPT ![c].at = "started"] \/ caller' = [caller EXCEPT ![c].at = "startFailed"]
    BY <1>3 DEF EndpointStarted, Goto
  <2>2. caller' = [caller EXCEPT ![c].at = "started"] /\ caller'[c].run = caller[c].run
    BY <1>0, <2>1 DEF CallerRecords
  <2>3. ~(caller' = [caller EXCEPT ![c].at = "startFailed"])
    BY <1>0 DEF CallerRecords
  <2> QED
    BY <1>3, <2>2, <2>3 DEF EndpointStarted, Goto, lifecycleVars
<1>4. CASE \A d \in Callers : ~Call(d) /\ ~CallerStep(d)
  <2>1. caller' = caller
    BY <1>4
    DEF Next, EndpointStep, WatcherStep, ProcessorStep, vars, pcVars, CancelContext,
        HandleMessage, RunReturns, Enqueue, HandleInline, InlineHandled, EndDeactivate,
        waitForMessageQueueDrain, EndClose, EndStopProcessor, EndFinish, WatcherWakes,
        WatcherDeactivate, WatcherClose, Dequeue, Processed, ProcessorNotified,
        ProcessorStops, discardQueuedMessages, ProcessorExit
  <2> QED
    BY <2>1
<1> QED
  BY <1>1, <1>2, <1>3, <1>4

\* An endpoint that has started is still open when Start comes to open its output.
LEMMA StartedStaysOpen ==
  ASSUME ReasonsInv, StartedIsOpen, Restartable = FALSE, [Next]_vars
  PROVE  StartedIsOpen'
<1>0. ControlInv
  BY DEF ReasonsInv
<1> SUFFICES ASSUME NEW c \in Callers, caller'[c].at = "started",
                    NEW q \in Runs, runs'[q].ep = runs'[caller'[c].run].ep, runs'[q].closed
             PROVE  FALSE
  BY DEF StartedIsOpen, EndpointClosed
<1>1. PICK r : r = caller[c].run
  OBVIOUS
<1>2. caller'[c].run = r /\ caller[c].at \in {"epStart", "started"}
  BY <1>0, <1>1, StartedBy
<1>3. r \in Runs /\ endpointRun = r /\ endpointPc[r].at = "off" /\ runs[r].ep # Nil
  BY <1>0, <1>1, <1>2 DEF ControlInv, RunsInv, StartingIsCurrent, UnusedIsFresh
<1>4. caller[c].at = "started" /\ ~EndpointClosed(runs[r].ep)
  BY <1>0, <1>1, <1>2, StartedBy DEF StartedIsOpen, EndpointClosed
<1>5. RunPersists(r) /\ RunPersists(q)
  BY <1>0, <1>3, RunsPersist
<1>6. runs[q].ep = runs[r].ep
  BY <1>2, <1>3, <1>5, NilFacts DEF RunPersists
<1>7. ~runs[q].closed
  BY <1>4, <1>6 DEF EndpointClosed
<1>8. ~Up(q)
  BY <1>0, <1>3 DEF ControlInv, RunsInv, OneRunUp, Up
<1>9. watcherPc[q] # "close"
  <2>1. q = r => watcherPc[q] = "off"
    BY <1>3 DEF ReasonsInv, WatchedIsStarted
  <2>2. q # r => runs[q].closed
    BY <1>0, <1>3, <1>6 DEF ReasonsInv, EndedIsDone, ControlInv, RunsInv, ClosedBeforeDone
  <2> QED
    BY <1>7, <2>1, <2>2
<1>10. \A d \in Callers : caller[d].at \notin {"startFailed", "stopClose"}
  BY <1>0, <1>4 DEF ControlInv, TypeOK
<1> QED
  BY <1>0, <1>7, <1>8, <1>9, <1>10, ClosedBy

\* A run that comes up has its endpoint for itself: the earlier runs are done and have closed
\* theirs.
LEMMA OwnEndpointKept ==
  ASSUME ReasonsInv, StartedIsOpen, OwnEndpoint, [Next]_vars
  PROVE  OwnEndpoint'
<1>0. ControlInv
  BY DEF ReasonsInv
<1> SUFFICES ASSUME NEW r \in Runs, NEW q \in Runs, Up(r)', q # r
             PROVE  runs'[q].ep # runs'[r].ep
  BY DEF OwnEndpoint
<1>1. RunPersists(r) /\ RunPersists(q)
  BY <1>0, RunsPersist
<1>2. CASE Up(r)
  <2>1. endpointRun = r /\ runs[r].ep # Nil /\ runs[q].ep # runs[r].ep
    BY <1>0, <1>2 DEF ControlInv, RunsInv, OneRunUp, UnusedIsFresh, OwnEndpoint, Up
  <2> QED
    BY <1>1, <2>1, NilFacts DEF RunPersists
<1>3. CASE ~Up(r)
  <2>1. PICK c \in Callers : RunStarted(c) /\ caller[c].run = r
    BY <1>0, <1>3, EndpointGoes DEF Up
  <2>2. endpointRun = r /\ runs[r].ep # Nil /\ runs' = runs /\ ~EndpointClosed(runs[r].ep)
    BY <1>0, <2>1
    DEF ControlInv, RunsInv, StartingIsCurrent, UnusedIsFresh, StartedIsOpen, RunStarted
  <2>3. runs[q].ep = runs[r].ep => runs[q].closed
    BY <1>0, <2>2 DEF ReasonsInv, EndedIsDone, ControlInv, RunsInv, ClosedBeforeDone
  <2> QED
    BY <2>2, <2>3 DEF EndpointClosed
<1> QED
  BY <1>2, <1>3

\* Nobody shuts the output of a run that has not been cancelled while its endpoint delivers.
LEMMA OpenKept ==
  ASSUME ReasonsInv, OwnEndpoint, DeliveringIsOpen, [Next]_vars
  PROVE  DeliveringIsOpen'
<1>0. ControlInv /\ active \in [Endpoints -> BOOLEAN]
  BY DEF ReasonsInv, ControlInv, TypeOK
<1> SUFFICES ASSUME NEW r \in Runs, ~runs'[r].cancelled,
                    endpointPc'[r].at \in {"run", "accepted", "inline"}
             PROVE  active'[runs'[r].ep]
  BY DEF DeliveringIsOpen
<1>1. RunPersists(r)
  BY <1>0, RunsPersist
<1>2. CASE \E c \in Callers : RunStarted(c) /\ caller[c].run = r
  <2>1. PICK c \in Callers : RunStarted(c) /\ caller[c].run = r
    BY <1>2
  <2>2. runs' = runs /\ active' = [active EXCEPT ![runs[r].ep] = TRUE]
    BY <2>1 DEF RunStarted, activate
  <2>3. runs[r].ep \in Endpoints
    BY <1>0, <2>1 DEF ControlInv, RunsInv, TypeOK, RunRecords, StartingIsCurrent, UnusedIsFresh,
                      RunStarted
  <2> QED
    BY <1>0, <2>2, <2>3
<1>3. CASE endpointPc[r].at \in {"run", "accepted", "inline"}
  <2>1. Up(r) /\ endpointRun = r /\ runs[r].ep # Nil /\ ~runs[r].cancelled
    BY <1>0, <1>1, <1>3
    DEF ControlInv, RunsInv, OneRunUp, UnusedIsFresh, RunPersists, Up
  <2>2. active[runs[r].ep] /\ runs'[r].ep = runs[r].ep /\ runs[r].ep \in Endpoints
    BY <1>0, <1>1, <1>3, <2>1
    DEF DeliveringIsOpen, RunPersists, ControlInv, TypeOK, RunRecords
  <2>3. ASSUME NEW e, deactivate(e), e # runs[r].ep PROVE active'[runs[r].ep]
    BY <1>0, <2>2, <2>3 DEF deactivate
  <2>4. ASSUME NEW q \in Runs, runs[q].cancelled PROVE runs[q].ep # runs[r].ep
    BY <2>1, <2>4 DEF OwnEndpoint
  <2>5. ASSUME NEW c \in Callers, RunStarted(c) PROVE active'[runs[r].ep]
    BY <1>0, <2>2, <2>5 DEF RunStarted, activate
  <2>6. ASSUME NEW c \in Callers, CancelDeactivate(c) PROVE active'[runs[r].ep]
    BY <1>0, <2>3, <2>4, <2>6 DEF ControlInv, RunsInv, StoppingKnowsRun, CancelDeactivate
  <2>7. ASSUME NEW c \in Callers, StopDeactivate(c) PROVE FALSE
    BY <1>0, <2>1, <2>7, NilFacts DEF ControlInv, RunsInv, StoppingKnowsRun, StopDeactivate
  <2>8. ASSUME NEW q \in Runs, EndDeactivate(q) PROVE FALSE
    <3>1. q = r
      BY <1>0, <2>1, <2>8 DEF ControlInv, RunsInv, OneRunUp, EndDeactivate, Up
    <3> QED
      BY <1>3, <2>8, <3>1 DEF EndDeactivate
  <2>9. ASSUME NEW q \in Runs, WatcherDeactivate(q) PROVE active'[runs[r].ep]
    BY <2>3, <2>4, <2>9 DEF ReasonsInv, WhyShut, WatcherDeactivate
  <2> QED
    BY <2>2, <2>5, <2>6, <2>7, <2>8, <2>9, WhoMoves
<1> QED
  BY <1>0, <1>2, <1>3, EndpointGoes

\* Nobody stops the processor of a run that has not been cancelled while its endpoint delivers
\* or waits for its messages to be handled.
LEMMA ProcessorKept ==
  ASSUME ReasonsInv, HasProcessor, [Next]_vars
  PROVE  HasProcessor'
<1>0. ControlInv
  BY DEF ReasonsInv
<1> SUFFICES ASSUME NEW r \in Runs, ~runs'[r].cancelled,
                    endpointPc'[r].at \in {"run", "accepted", "inline", "deactivate", "drain"}
             PROVE  processor' = r
  BY DEF HasProcessor
<1>1. ~runs[r].cancelled
  BY <1>0, RunsPersist DEF RunPersists
<1>2. ASSUME NEW c \in Callers, RunStarted(c)
      PROVE  processor' = caller[c].run /\ endpointPc[caller[c].run].at = "off" /\ endpointRun = caller[c].run
  <2>1. endpointPc[caller[c].run].at = "off" /\ endpointRun = caller[c].run
    BY <1>0, <1>2 DEF ControlInv, RunsInv, StartingIsCurrent, RunStarted
  <2>2. processor = Nil
    BY <1>0, <2>1 DEF ControlInv, RunsInv, TypeOK, OneRunUp, ProcessorIsOfRun, Up
  <2> QED
    BY <1>2, <2>1, <2>2 DEF RunStarted, startMessageProcessor
<1>3. CASE \E c \in Callers : RunStarted(c) /\ caller[c].run = r
  BY <1>2, <1>3
<1>4. CASE endpointPc[r].at \in {"run", "accepted", "inline", "deactivate", "drain"}
  <2>1. Up(r) /\ endpointRun = r /\ processor = r
    BY <1>0, <1>1, <1>4 DEF ControlInv, RunsInv, OneRunUp, HasProcessor, Up
  <2>2. ASSUME NEW c \in Callers, RunStarted(c) PROVE processor' = r
    BY <1>2, <2>1, <2>2
  <2>3. ASSUME NEW c \in Callers, StopWait(c) PROVE FALSE
    BY <1>0, <2>1, <2>3, StoppedHasNoProcessor, NilFacts
  <2>4. ASSUME NEW q \in Runs, EndStopProcessor(q) PROVE FALSE
    <3>1. q = r
      BY <1>0, <2>1, <2>4 DEF ControlInv, RunsInv, OneRunUp, EndStopProcessor, Up
    <3> QED
      BY <1>4, <2>4, <3>1 DEF EndStopProcessor
  <2>5. ASSUME NEW q \in Runs, ProcessorExit(q) PROVE processor' = r
    <3>1. q # r
      BY <1>1, <1>4, <2>5 DEF ReasonsInv, WhyShut, ProcessorExit
    <3> QED
      BY <2>1, <2>5, <3>1 DEF ProcessorExit
  <2> QED
    BY <2>1, <2>2, <2>3, <2>4, <2>5, WhoMoves
<1> QED
  BY <1>0, <1>3, <1>4, EndpointGoes

\* A run that nobody has stopped is heard, where an endpoint that is closed cannot be started
\* again: as long as its endpoint delivers its output is open and it has its own processor,
\* whatever the goroutines of earlier runs still have to do.
THEOREM UnstoppedRunIsHeard ==
  ASSUME Restartable = FALSE
  PROVE  Spec => []RunIsHeard
<1>1. Init => HeardInv
  <2> SUFFICES ASSUME Init PROVE HeardInv
    OBVIOUS
  <2>1. OwnEndpoint /\ StartedIsOpen /\ DeliveringIsOpen /\ HasProcessor
    BY IdleIsRecord
    DEF Init, OwnEndpoint, StartedIsOpen, DeliveringIsOpen, HasProcessor, Up
  <2> QED
    BY <2>1, ReasonsInit DEF HeardInv
<1>2. HeardInv /\ ReasonsInv' /\ [Next]_vars => HeardInv'
  BY StartedStaysOpen, OwnEndpointKept, OpenKept, ProcessorKept DEF HeardInv
<1>3. HeardInv => RunIsHeard
  BY DEF HeardInv, DeliveringIsOpen, HasProcessor, RunIsHeard
<1> QED
  BY <1>1, <1>2, <1>3, ReasonsAlways, PTL DEF Spec
=============================================================================
