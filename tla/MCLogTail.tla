------------------------------ MODULE MCLogTail ------------------------------
(* Instances of LogTail for TLC: an "ok" line matches one pattern, a       *)
(* "both" line two, an "html" line is the continuation of an HTTP error    *)
(* page that contains words a pattern matches.                             *)
EXTENDS LogTail

MCBoth == {"both"}
MCBothHtml == {"both", "html"}
MCOk == {"ok"}
MCStamped == {"ok", "both"} \cap Lines
MCHits == [l \in Lines |->
    CASE l = "ok" -> {1} [] l = "both" -> {1, 2} [] l = "html" -> {2}]
MCHitsOne == [l \in Lines |-> {1}]
=============================================================================
