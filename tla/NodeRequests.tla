---------------------------- MODULE NodeRequests ----------------------------
(***************************************************************************)
(* The node answering requests (pkg/node/node.go): ISO requests and the    *)
(* NMEA Request, Command, Write Fields and Read Fields group functions,    *)
(* handled by the process goroutine of module Node.                        *)
(*                                                                         *)
(* A handler reads the node's fields under the read lock, then calls the   *)
(* application's configuration provider and sends what it built, without   *)
(* the lock: every lock region, provider call and publication is a step.   *)
(* A PGN is its name; a configuration string is a value; the addressee of  *)
(* an answer, which is always the requester, is left out.                  *)
(***************************************************************************)
EXTENDS Node, SequencesExt

CONSTANTS Requests,         \* the requests on the bus
          ConfigValues,     \* the configuration strings
          InitialValues,    \* those the configuration may start with
          LongValues,       \* those EncodeStringLAU refuses
          BadValue,         \* bytes that are no STRING_LAU
          TransmitPGNs,     \* the list given to SetSupportedPGNs
          ReceivePGNs,
          ProviderMayFail,  \* whether the provider can return an error
          MaxEdits,         \* bounds for TLC: changes by the application itself,
          MaxRequests       \* and the last messages that may be requests

Fields == 1..3

Parameters == [parameter : Fields \cup {0, Nil}, value : ConfigValues \cup {BadValue}]

\* params of a Request group function are counted only.
RequestTypes == {"isoRequest", "request", "nmeaCommand", "writeFields", "readFields"}

\* What the handler of a request has read; then, for the properties, what the
\* configuration was and whether the provider took the change.
Jobs == [req : Requests, src : Address, moving : BOOLEAN, listed : BOOLEAN,
         info : [Fields -> ConfigValues] \cup {Nil},
         before : [Fields -> ConfigValues], applied : BOOLEAN]

ASSUME RequestsAssumption ==
  /\ \A m \in Requests : /\ m = [type |-> m.type, pgn |-> m.pgn, target |-> m.target,
                                  params |-> m.params, selections |-> m.selections]
                         /\ m.type \in RequestTypes
                         /\ m.target \in Address
                         /\ m.params \in Seq(Parameters)
                         /\ m.selections \in Nat
  /\ LongValues \cup InitialValues \subseteq ConfigValues
  /\ BadValue \notin ConfigValues
  /\ Nil \notin Jobs \cup [Fields -> ConfigValues] \cup Fields
  /\ TransmitPGNs \in Seq(ToSet(TransmitPGNs))
  /\ ReceivePGNs \in Seq(ToSet(ReceivePGNs))
  /\ ProviderMayFail \in BOOLEAN
  /\ {MaxEdits, MaxRequests} \subseteq Nat

VARIABLES
  configProvider,   \* whether a provider is configured
  config,           \* what the provider holds: the application's
  edits,            \* changes left to the application
  job,              \* the request in hand and what its handler has read
  responses,        \* the handler's result
  edited,           \* history: the fields the application has changed since the
                    \* request in hand was taken
  published         \* history: the last answer put on the bus, with its job

requestVars == <<configProvider, config, edits, job, responses, edited, published>>
allVars == <<vars, requestVars>>

InitRequests ==
  /\ Init
  /\ configProvider = FALSE
  /\ config \in {[k \in Fields |-> v] : v \in InitialValues}
  /\ edits = MaxEdits
  /\ job = Nil
  /\ responses = <<>>
  /\ edited = {}
  /\ published = Nil

\* What the process goroutine leaves alone while it answers.
nodeVars == <<addressVars, configVars, heartbeatSeq, runVars, wakeUp, claimTicker,
              heartbeatTicker, msg, snap, out, ret, otherVars, historyVars, budget,
              registryVars>>

-----------------------------------------------------------------------------
(* The application.                                                        *)

\* The provider is set, or cleared, at any time; a handler keeps the one it has read.
SetConfigurationProvider ==
  /\ configProvider' \in BOOLEAN
  /\ UNCHANGED <<vars, config, edits, job, responses, edited, published>>

\* The application changes its configuration itself, at any time.
EditConfiguration(k, v) ==
  /\ edits > 0
  /\ v # config[k]
  /\ edits' = edits - 1
  /\ config' = [config EXCEPT ![k] = v]
  /\ edited' = edited \cup {k}
  /\ UNCHANGED <<vars, configProvider, job, responses, published>>

-----------------------------------------------------------------------------
(* The PGN lists.                                                          *)

mergePGNs(configured, managed) ==
  FoldLeft(LAMBDA merged, p : IF p \in ToSet(merged) THEN merged ELSE Append(merged, p),
           <<>>, configured \o managed)

\* Mutant: the Configuration Information is never listed.
managedTransmitPGNsNoConfig(configured, hasProvider, hasHeartbeat) ==
  mergePGNs(configured, <<"ISOAcknowledgement", "ISOAddressClaim", "NMEAGroupFunction",
                          "PGNList", "ProductInformation">>
                        \o IF hasHeartbeat THEN <<"Heartbeat">> ELSE <<>>)

managedTransmitPGNs(configured, hasProvider, hasHeartbeat) ==
  mergePGNs(configured, <<"ISOAcknowledgement", "ISOAddressClaim", "NMEAGroupFunction",
                          "PGNList", "ProductInformation">>
                        \o (IF hasProvider THEN <<"ConfigurationInformation">> ELSE <<>>)
                        \o IF hasHeartbeat THEN <<"Heartbeat">> ELSE <<>>)

managedReceivePGNs(configured) ==
  mergePGNs(configured, <<"ISOAcknowledgement", "ISORequest", "ISOAddressClaim",
                          "ISOCommandedAddress", "NMEAGroupFunction">>)

-----------------------------------------------------------------------------
(* Building the answers.  An answer has a PGN, a code and a source.        *)

Answer(pgn, code, src) == [pgn |-> pgn, code |-> code, src |-> src, list |-> <<>>]
PgnList(code, list, src) == [pgn |-> "PGNList", code |-> code, src |-> src, list |-> list]

buildIsoNak(src)       == Answer("ISOAcknowledgement", "nak", src)
buildNmeaGroupNak(src) == Answer("NMEAGroupFunction", "nak", src)

\* The handler returns: what it built goes to sendProcessResponses.
Done(list) ==
  /\ responses' = list
  /\ pc' = IF list = <<>> THEN "top" ELSE "send"

\* The handler goes on with the provider or with another lock region.
GoOn(at) == pc' = at /\ UNCHANGED responses

\* Mutant: a broadcast is refused like a request to this node.
NaksBroadcasts(m) == /\ ~readOnly
                     /\ addressClaimed
                     /\ m.target \in {GlobalAddress, networkAddress}

\* processUnsupportedGroupFunction answers what was sent to this node only.
Naks(m) == /\ ~readOnly
           /\ addressClaimed
           /\ m.target = networkAddress

processUnsupportedGroupFunction(m) ==
  Done(IF Naks(m) THEN <<buildNmeaGroupNak(networkAddress)>> ELSE <<>>)

\* Mutant: the node answers before it has an address.
IsoRequestAcceptedUnclaimed(m) ==
  /\ m.pgn # Nil
  /\ ~readOnly
  /\ m.target \in {GlobalAddress, networkAddress}

IsoRequestAccepted(m) ==
  /\ m.pgn # Nil
  /\ ~readOnly
  /\ addressClaimed
  /\ m.target \in {GlobalAddress, networkAddress}

\* PGNs the node has no answer for are not answered at all.
processIsoRequest(m) ==
  LET src == networkAddress
  IN  IF ~IsoRequestAccepted(m) THEN Done(<<>>)
      ELSE \/ /\ m.pgn \in {"ISOAddressClaim", "ProductInformation"}
              /\ Done(<<Answer(m.pgn, "reply", src)>>)
           \/ /\ m.pgn = "PGNList"
              /\ Done(<<PgnList("transmit",
                          managedTransmitPGNs(TransmitPGNs, configProvider, heartbeatEnabled),
                          src),
                        PgnList("receive", managedReceivePGNs(ReceivePGNs), src)>>)
           \/ /\ m.pgn = "ConfigurationInformation"
              /\ IF configProvider THEN GoOn("get") ELSE Done(<<buildIsoNak(src)>>)
           \/ /\ m.pgn \notin {"ISOAddressClaim", "ProductInformation", "PGNList",
                               "ConfigurationInformation"}
              /\ Done(<<>>)

\* The guard Write Fields and Read Fields share: a broadcast is not accepted.
FieldsAccepted(m) ==
  /\ ~readOnly
  /\ addressClaimed
  /\ configProvider
  /\ m.target = networkAddress
  /\ m.selections = 0

processNmeaWriteFieldsGroupFunction(m) ==
  \/ m.pgn = Nil /\ Done(<<>>)
  \/ /\ m.pgn \notin {Nil, "ConfigurationInformation"}
     /\ processUnsupportedGroupFunction(m)
  \/ /\ m.pgn = "ConfigurationInformation"
     /\ IF FieldsAccepted(m) THEN GoOn("get") ELSE Done(<<>>)

processNmeaReadFieldsGroupFunction(m) ==
  IF m.pgn = "ConfigurationInformation" /\ FieldsAccepted(m)
  THEN GoOn("get") ELSE Done(<<>>)

processNmeaRequestGroupFunction(m) ==
  \/ m.pgn = Nil /\ Done(<<>>)
  \/ m.pgn # Nil /\ m.params # <<>> /\ processUnsupportedGroupFunction(m)
  \/ m.pgn # Nil /\ m.params = <<>> /\ processIsoRequest(m)

\* A command of the Configuration Information is handled as a Write Fields.  The
\* limit of 255 parameters is out of a bounded instance's reach and left out.
processNmeaCommandGroupFunction(m) ==
  \/ m.pgn = Nil /\ Done(<<>>)
  \/ /\ m.pgn = "ConfigurationInformation"
     /\ m.params # <<>>
     /\ processNmeaWriteFieldsGroupFunction([m EXCEPT !.selections = 0])
  \/ /\ m.pgn # Nil
     /\ m.pgn # "ConfigurationInformation" \/ m.params = <<>>
     /\ processUnsupportedGroupFunction(m)

-----------------------------------------------------------------------------
(* The process goroutine.                                                  *)

\* processPGN up to the end of the handler's first lock region.
TakeRequest ==
  /\ pc = "wait"
  /\ pgnIn # <<>>
  /\ Head(pgnIn) \in Requests
  /\ LET m == Head(pgnIn)
     IN  /\ job' = [req |-> m, src |-> networkAddress,
                    moving |-> addressState = "Claiming" /\ addressClaimed,
                    listed |-> configProvider, info |-> Nil,
                    before |-> config, applied |-> FALSE]
         /\ \/ m.type = "isoRequest" /\ processIsoRequest(m)
            \/ m.type = "request" /\ processNmeaRequestGroupFunction(m)
            \/ m.type = "nmeaCommand" /\ processNmeaCommandGroupFunction(m)
            \/ m.type = "writeFields" /\ processNmeaWriteFieldsGroupFunction(m)
            \/ m.type = "readFields" /\ processNmeaReadFieldsGroupFunction(m)
  /\ pgnIn' = Tail(pgnIn)
  /\ edited' = {}
  /\ published' = Nil
  /\ UNCHANGED <<nodeVars, configProvider, config, edits>>

InProcess == UNCHANGED <<nodeVars, pgnIn, configProvider, edits, edited, published>>

Writes == job.req.type \in {"nmeaCommand", "writeFields"}

\* Parameters without a number are skipped.
Named == {i \in DOMAIN job.req.params : job.req.params[i].parameter # Nil}

\* The places at which a request names field k.
Given(req, k) == {i \in DOMAIN req.params : req.params[i].parameter = k}

\* The parameters a Write Fields cannot store.
Unstorable == {i \in Named : \/ job.req.params[i].value = BadValue
                             \/ job.req.params[i].parameter \notin Fields}

\* The parameters a Read Fields cannot report.
Unreadable == {i \in Named : \/ job.req.params[i].parameter \notin Fields
                             \/ config[job.req.params[i].parameter] \in LongValues}

\* Mutant: the fields that are not named are emptied.
ChangedBlank ==
  [k \in Fields |->
     IF Given(job.req, k) = {} THEN CHOOSE v \in ConfigValues : TRUE
     ELSE job.req.params[Max(Given(job.req, k))].value]

\* The configuration with the named fields replaced, later ones winning.
Changed ==
  [k \in Fields |->
     IF Given(job.req, k) = {} THEN config[k]
     ELSE job.req.params[Max(Given(job.req, k))].value]

\* A Write Fields checks every parameter before anything is stored.
BuildWrite ==
  IF Unstorable # {}
  THEN GoOn("refuse") /\ UNCHANGED job
  ELSE GoOn("set") /\ job' = [job EXCEPT !.info = Changed]

\* An unknown parameter ends a Read Fields without an answer.
BuildRead ==
  /\ IF Unreadable = {}
     THEN Done(<<Answer("NMEAGroupFunction", "reply", job.src)>>)
     ELSE IF job.req.params[Min(Unreadable)].parameter \in Fields
          THEN GoOn("refuse") ELSE Done(<<>>)
  /\ UNCHANGED job

GetSucceeds ==
  \/ Writes /\ BuildWrite
  \/ job.req.type = "readFields" /\ BuildRead
  \/ /\ job.req.type \in {"isoRequest", "request"}
     /\ Done(<<Answer("ConfigurationInformation", "reply", job.src)>>)
     /\ UNCHANGED job

GetFails ==
  /\ ProviderMayFail
  /\ \/ Writes /\ GoOn("refuse")
     \/ job.req.type = "readFields" /\ Done(<<>>)
     \/ /\ job.req.type \in {"isoRequest", "request"}
        /\ Done(<<buildIsoNak(job.src)>>)
  /\ UNCHANGED job

GetConfigurationInfo ==
  /\ pc = "get"
  /\ GetSucceeds \/ GetFails
  /\ InProcess
  /\ UNCHANGED config

\* Where the result of processNmeaWriteFieldsGroupFunction goes: a command throws
\* it away and acknowledges, whenever there is one.
WriteReturns(list) ==
  IF job.req.type = "nmeaCommand" /\ list # <<>> THEN GoOn("ack") ELSE Done(list)

\* Mutant: the provider's error is taken for success.
SetConfigurationInfoUnchecked ==
  /\ pc = "set"
  /\ \/ config' = job.info
     \/ ProviderMayFail /\ UNCHANGED config
  /\ job' = [job EXCEPT !.applied = (config' = job.info)]
  /\ WriteReturns(<<Answer("NMEAGroupFunction", "reply", job.src)>>)
  /\ InProcess

SetConfigurationInfo ==
  /\ pc = "set"
  /\ \/ /\ config' = job.info
        /\ job' = [job EXCEPT !.applied = TRUE]
        /\ WriteReturns(<<Answer("NMEAGroupFunction", "reply", job.src)>>)
     \/ /\ ProviderMayFail
        /\ GoOn("refuse")
        /\ UNCHANGED <<config, job>>
  /\ InProcess

\* The lock region of processUnsupportedGroupFunction, after a provider call.
Refuse ==
  /\ pc = "refuse"
  /\ WriteReturns(IF Naks(job.req) THEN <<buildNmeaGroupNak(networkAddress)>> ELSE <<>>)
  /\ InProcess
  /\ UNCHANGED <<config, job>>

\* The source of a command's acknowledgement is read once more.
AcknowledgeCommand ==
  /\ pc = "ack"
  /\ Done(<<Answer("NMEAGroupFunction", "ack", networkAddress)>>)
  /\ InProcess
  /\ UNCHANGED <<config, job>>

\* Only readOnly is looked at again.
sendProcessResponses ==
  /\ pc = "send"
  /\ IF readOnly THEN pc' = "top" /\ responses' = <<>> ELSE GoOn("publish")
  /\ InProcess
  /\ UNCHANGED <<config, job>>

\* publisher.Write; an error is logged and the next answer is sent.
PublishResponse ==
  /\ pc = "publish"
  /\ \/ published' = [answer |-> Head(responses), job |-> job, won |-> won]
     \/ WriteMayFail /\ published' = Nil
  /\ responses' = Tail(responses)
  /\ pc' = IF Tail(responses) = <<>> THEN "top" ELSE "publish"
  /\ UNCHANGED <<nodeVars, pgnIn, configProvider, config, edits, edited, job>>

-----------------------------------------------------------------------------

Answering ==
  \/ TakeRequest \/ GetConfigurationInfo \/ SetConfigurationInfo \/ Refuse
  \/ AcknowledgeCommand \/ sendProcessResponses \/ PublishResponse

NextRequests ==
  \/ Next /\ UNCHANGED requestVars
  \/ \E m \in Requests : /\ budget.message <= MaxRequests
                         /\ CallbackBegin(m)
                         /\ UNCHANGED requestVars
  \/ Answering
  \/ SetConfigurationProvider
  \/ \E k \in Fields, v \in ConfigValues : EditConfiguration(k, v)

SpecRequests == InitRequests /\ [][NextRequests]_allVars

-----------------------------------------------------------------------------
(* Properties.                                                             *)

RequestPcs == {"get", "set", "refuse", "ack", "send", "publish"}
PGNs == {"ISOAcknowledgement", "ISOAddressClaim", "NMEAGroupFunction", "PGNList",
         "ProductInformation", "ConfigurationInformation"}

\* The state has its types, the goroutine has answers exactly where it sends
\* them, and the new configuration exactly where it stores it.
RequestsTypeOK ==
  /\ pc \in Pcs \cup RequestPcs
  /\ configProvider \in BOOLEAN
  /\ config \in [Fields -> ConfigValues]
  /\ job \in Jobs \cup {Nil}
  /\ pc \in RequestPcs => job # Nil
  /\ pc = "set" => job.info # Nil
  /\ (pc \in {"send", "publish"}) = (responses # <<>>)
  /\ \A i \in DOMAIN responses : responses[i].pgn \in PGNs

\* Beside the types: an answer leaves from the address that was asked, and group functions, whose
\* errors a broadcast would multiply, are only answered when they were sent to
\* this node; between the handler's reading of the address and the publication
\* the application may claim another address or turn the node read-only.
AnswersComeFromAsked ==
  /\ RequestsTypeOK
  /\ published # Nil =>
       LET answer == published.answer
           asked  == published.job.req.target
       IN  IF answer.pgn = "NMEAGroupFunction" THEN answer.src = asked
           ELSE asked \in {answer.src, GlobalAddress}

\* The node answers only from an address whose claim has run its time, whatever
\* claims, retries and calls come before and during the answer.  A request taken
\* while the application is moving a claimed node to another address is left
\* out: ClaimAddress keeps the node claimed during that claim.
AnswersFromWonAddress ==
  published # Nil /\ ~published.job.moving
    => published.answer.src = published.won

\* A positive reply to a Write Fields is sent only when the provider has taken
\* the change, and a negative one only when it has not: invalid parameters,
\* provider errors and replies come in every combination.
RepliesTellTheTruth ==
  published # Nil /\ published.job.req.type = "writeFields" =>
    published.job.applied = (published.answer.code = "reply")

\* A command is acknowledged only when the provider has taken the change.  This
\* does not hold: processNmeaCommandGroupFunction acknowledges a refused write too.
AcknowledgedIsApplied ==
  published # Nil /\ published.answer.code = "ack" => published.job.applied

\* What a write means field k to be.
Wanted(j, k) == IF Given(j.req, k) = {} THEN j.before[k]
                ELSE j.req.params[Max(Given(j.req, k))].value

\* The configuration as the handling of a request should leave it, wherever the
\* application has not changed it meanwhile.
LeftBy(j, written) ==
  \A k \in Fields \ edited : config[k] = IF written THEN Wanted(j, k) ELSE j.before[k]

\* A write is all or nothing, and a Write Fields answers which: when the answer
\* leaves, every field the request names has its new value and no other has
\* changed, or no field has, though a parameter, the provider's read or its
\* store can fail and the application changes fields between any two of the
\* steps.  A field the application itself changes meanwhile is left out: a
\* change it makes between the provider's read and its store is overwritten.
WritesAreWhole ==
  published # Nil =>
    LET j == published.job
    IN  \/ j.req.type = "writeFields" /\ LeftBy(j, published.answer.code = "reply")
        \/ j.req.type = "nmeaCommand" /\ \E written \in BOOLEAN : LeftBy(j, written)
        \/ j.req.type \notin {"writeFields", "nmeaCommand"} /\ LeftBy(j, FALSE)

\* Every PGN the node answers with is one it lists as transmitted to a device that
\* asks, and the lists it sends name no PGN twice.
AnswersAreAdvertised ==
  published # Nil =>
    LET list == published.answer.list
    IN  /\ published.answer.pgn \in
             ToSet(managedTransmitPGNs(TransmitPGNs, published.job.listed, FALSE))
        /\ Len(list) = Cardinality(ToSet(list))
=============================================================================
