--------------------------- MODULE MCNodeRequests ---------------------------
EXTENDS NodeRequests

CONSTANTS u, w   \* two configuration strings

Param(k, v) == [parameter |-> k, value |-> v]
Ask(type, pgn, target, params) ==
  [type |-> type, pgn |-> pgn, target |-> target, params |-> params, selections |-> 0]

Config == "ConfigurationInformation"

\* Requests of every kind to this node (0) and to everybody, and the ways to get a
\* parameter wrong.
MCRequests ==
  {Ask("isoRequest", p, 0, <<>>) : p \in {"PGNList", Config}}
  \cup {Ask("isoRequest", p, GlobalAddress, <<>>) : p \in {"ISOAddressClaim", "Other", Nil}}
  \cup {Ask("request", Config, 0, <<>>), Ask("request", Nil, 0, <<>>),
        Ask("request", Config, GlobalAddress, <<Param(1, u)>>)}
  \cup {Ask("nmeaCommand", p, 0, <<Param(1, w)>>) : p \in {Config, "Other", Nil}}
  \cup {Ask("writeFields", Config, 0, <<Param(1, w), Param(k, w)>>) : k \in {0, 2, Nil}}
  \cup {Ask("writeFields", Config, 0, <<Param(1, BadValue)>>),
        Ask("writeFields", "Other", GlobalAddress, <<Param(1, u)>>),
        Ask("writeFields", Nil, 0, <<>>),
        [Ask("writeFields", Config, 0, <<Param(1, w)>>) EXCEPT !.selections = 1]}
  \cup {Ask("readFields", Config, 0, <<Param(k, u), Param(2, u)>>) : k \in {0, 1}}
  \cup {Ask("readFields", "Other", 0, <<>>)}

MCTransmit == <<"ProductInformation", "Application", "Application">>
MCReceive  == <<"Application", "ISORequest">>
=============================================================================
