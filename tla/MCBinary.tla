------------------------------- MODULE MCBinary -------------------------------
(* An instance of Binary for TLC, in units of 30 seconds: the first of     *)
(* three targets cannot always be read, the second is downloaded.          *)
EXTENDS Binary

MCFeeds == {"download"}
MCTargets == <<"bridge-voter", "outcome-voter", "visor">>
MCChildren == {"bridge-voter", "outcome-voter"}
MCDownloaded == {"outcome-voter"}
MCStatFails == {"bridge-voter"}
MCPublishes == [f \in Feeds |-> {DownloadLine(c, t) : c \in Downloaded, t \in Times}]
MCLines == UNION {Publishes[f] : f \in Feeds}
MCMatches == [line : MCLines, pat : 1 .. 1]
MCOrder(m) == m.pat
MCNone == {}
MCClock == Times
=============================================================================
