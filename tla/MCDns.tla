------------------------------- MODULE MCDns -------------------------------
(***************************************************************************)
(* Small instances of the resolvers and the nameserver for TLC.            *)
(***************************************************************************)
EXTENDS DnsSystem

CONSTANTS d1, d2, d3

TwoCalls   == {d1, d2}
ThreeCalls == {d1, d2, d3}

Line(n)  == [octet |-> n, newline |-> TRUE]
Short(n) == [octet |-> n, newline |-> FALSE]

\* No server, as many as calls, more than calls, one named twice; a last line
\* without a newline, of one digit (refused) and of two (read as another address).
SomeFiles == { <<>>,
               <<Line(11), Line(22)>>,
               <<Line(11), Line(22), Line(33), Line(44)>>,
               <<Line(11), Line(11), Line(22)>>,
               <<Line(11), Short(2)>>,
               <<Line(11), Short(22)>> }
OneFile   == {<<Line(11), Line(22)>>}

BothModes   == BOOLEAN
WithR       == {TRUE}
AllNet      == {"loss", "duplication"}
OnlyLoss    == {"loss"}
NoLoss      == {}
AllServer   == {"start", "send", "uninit"}
NoServer    == {}
OnlyUninit  == {"uninit"}
=============================================================================
