------------------------------ MODULE MCExporter ------------------------------
(* An instance of Exporter for TLC: a full environment, and those that     *)
(* differ from it in one or two places.                                    *)
EXTENDS Exporter

MCEnvKey == [n \in {"a-b", "a.b", "c"} |-> IF n = "c" THEN "C" ELSE "A_B"]

Full ==
    [listen |-> "set", service |-> "set", interval |-> 30,
     visorDir |-> Unset, componentDir |-> Unset, legacy |-> Unset, targets |-> <<>>,
     binaryURL |-> Unset, statePath |-> Unset, token |-> Unset, channel |-> Unset,
     names |-> <<>>, url |-> [k \in {"A_B", "C"} |-> Unset],
     patterns |-> [k \in PatternKinds |-> <<>>], disagreement |-> <<>>]

Pair(n, p) == [name |-> n, path |-> p]
Pairs == {Pair("visor", "p"), Pair("visor", Unset), Pair("bridge-voter", "q"),
          Pair("unknown", "p"), Pair(Unset, "p")}

Invalid ==
    {[Full EXCEPT !.listen = Unset], [Full EXCEPT !.service = Unset],
     [Full EXCEPT !.interval = 0],
     [Full EXCEPT !.names = <<"c", Unset, "a-b">>, !.url["C"] = "u"]}
Endpoints ==
    {[Full EXCEPT !.names = n, !.url["A_B"] = "u", !.url["C"] = "v"] :
        n \in {<<"c">>, <<"a-b", "a.b">>, <<Unset>>}}
Binaries ==
    {[Full EXCEPT !.legacy = l, !.targets = t, !.binaryURL = "u"] :
        l \in {Unset, "old"}, t \in {<<p, q>> : p \in Pairs, q \in Pairs}}
Logs ==
    {[Full EXCEPT !.patterns["provider_fail"] = p, !.disagreement = q, !.visorDir = "d"] :
        p \in {<<>>, <<Unset>>, <<"x", Unset>>}, q \in {<<>>, <<"y">>}}
Slacks == {[Full EXCEPT !.token = t, !.channel = c, !.statePath = "s"] :
              t \in {Unset, "t"}, c \in {Unset, "c"}}

MCEnvs == Invalid \cup Endpoints \cup Binaries \cup Logs \cup Slacks
=============================================================================
