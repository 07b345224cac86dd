--------------------------- MODULE MCLogCollectors ---------------------------
(* Instances of LogCollectors for TLC.                                     *)
EXTENDS LogCollectors

L(tags, votes, comp, at) ==
    [tags |-> tags, votes |-> votes, pair |-> FALSE, comp |-> comp, at |-> at]

Sent(n, at) == L({"ok"}, n, "none", at)
Fail == L({"fail"}, NoCapture, "none", 4)
Provider(tags) == [L(tags \cup {"provider"}, NoCapture, "none", 4) EXCEPT !.pair = TRUE]
OracleSent(at) == L({"ok"}, NoCapture, "none", at)
Warn == L({"warn"}, NoCapture, "none", 4)
Crit == L({"crit"}, NoCapture, "none", 4)
Respawn(c) == L({"restart"}, NoCapture, c, 4)
Download(c, at) == L({"download"}, NoCapture, c, at)

\* The patterns of env/vpub-exporter.env.example: one scanned line tells the
\* votes sent and the votes failed, and matches both patterns.
Scanned(n) == L({"ok", "fail"}, n, "none", 4)

\* Patterns whose captures are not there.
Uncaptured == L({"ok", "fail"}, NoCapture, "none", 7)
Unpaired == L({"provider", "ok"}, 1, "none", NoStamp)

MCFeedsVote == {"bridge", "oracle"}
MCFeedsAll == {"bridge", "oracle", "outcome", "visor", "download"}
MCFeedsBridge == {"bridge"}

MCPublishes == [f \in Feeds |->
    CASE f = "bridge" -> {Sent(2, 3), Sent(0, 7), Uncaptured, Unpaired, Provider({"ok"})}
      [] f = "oracle" -> {OracleSent(7), Fail}
      [] f = "outcome" -> {Warn, Crit, L({"warn", "crit"}, NoCapture, "none", 4)}
      [] f = "visor" -> {Respawn("bridge-voter"), Crit,
                         L({"restart", "crit"}, NoCapture, "other", 4)}
      [] f = "download" -> {Download("bridge-voter", 3), Download("bridge-voter", 7),
                            Download("bridge-voter", NoStamp), Download("other", 7)}]
MCPublishesExample == [f \in Feeds |-> {Scanned(1), Sent(2, 3)}]
\* Scans that sent no votes, without end, beside a few votes of the oracle.
MCPublishesLive == [f \in Feeds |-> IF f = "bridge" THEN {Sent(0, 7)} ELSE {OracleSent(7), Fail}]

MCLines == UNION {Publishes[f] : f \in Feeds}
MCMatches == [line : MCLines, pat : 1 .. 3]
MCOrder(m) == m.pat
MCChildren == {"bridge-voter"}
MCNone == {}
MCClock == {8}

\* The safety run leaves stopping to the live one, and writes lines for one
\* collector only: they share nothing.
OneCollector ==
    /\ ~cancelled
    /\ \A f, g \in {h \in Feeds : due[h] # {} \/ restarts[h] > 0} : Collector[f] = Collector[g]
=============================================================================
