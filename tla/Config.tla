-------------------------------- MODULE Config --------------------------------
(***************************************************************************)
(* What internal/config makes of the flags and the environment, as pure    *)
(* operators: Load returns a configuration or an error.  An environment is *)
(* what is left of it when the text is cut at its separators and trimmed:  *)
(* Unset for the empty string, a sequence for a list.                      *)
(***************************************************************************)
EXTENDS Integers, Sequences, SequencesExt

CONSTANT
    EnvKey      \* endpoint name -> the part of a variable's name made of it

\* The empty string.
Unset == ""

AllComponents == {"visor", "bridge-voter", "reference-oracle-publisher", "outcome-voter"}
PatternKinds == {"vote_ok", "vote_fail", "provider_fail", "oracle_ok", "oracle_fail",
                 "log_warn", "log_crit"}

\* What the variables may hold.
Environment ==
    [listen : STRING, service : STRING, interval : Int,
     visorDir : STRING, componentDir : STRING, legacy : STRING,
     targets : Seq([name : STRING, path : STRING]),
     binaryURL : STRING, statePath : STRING, token : STRING, channel : STRING,
     names : Seq(STRING), url : [{EnvKey[n] : n \in DOMAIN EnvKey} -> STRING],
     patterns : [PatternKinds -> Seq(STRING)], disagreement : Seq(STRING)]

\* Every default is a value of its own; none of them is Unset.
Default == "default"

OrDefault(v) == IF v = Unset THEN Default ELSE v

\* Mutant of SetTarget: whatever has a name is taken.
SetAnyTarget(targets, pair) ==
    IF pair.name \in AllComponents
    THEN [targets EXCEPT ![pair.name] = pair.path] ELSE targets

\* One pair of VPUB_BINARY_TARGETS: a pair without "=", without a name or a
\* path, or of an unknown component, is dropped.
SetTarget(targets, pair) ==
    IF pair.name \in AllComponents /\ pair.path # Unset
    THEN [targets EXCEPT ![pair.name] = pair.path]
    ELSE targets

\* The defaults, the legacy path over the visor's, the pairs over both.
BinaryTargets(env) ==
    FoldLeft(SetTarget,
             [c \in AllComponents |-> IF c = "visor" THEN OrDefault(env.legacy) ELSE Default],
             env.targets)

\* The loop of splitOrDefault: what is blank is dropped.
KeepNonBlank(kept, v) == IF v = Unset THEN kept ELSE Append(kept, v)
NonBlank(list) == FoldLeft(KeepNonBlank, <<>>, list)

SplitOrDefault(raw) == IF NonBlank(raw) = <<>> THEN <<Default>> ELSE NonBlank(raw)

\* The variable that replaced VPUB_DISAGREEMENT_PATTERNS wins, if it is set.
Coalesce(raw, old) == IF raw = <<>> THEN old ELSE raw

Patterns(env) ==
    [k \in PatternKinds |->
        SplitOrDefault(IF k = "provider_fail" THEN Coalesce(env.patterns[k], env.disagreement)
                       ELSE env.patterns[k])]

Configuration(env) ==
    LET names == NonBlank(env.names)
    IN  [listen |-> env.listen, service |-> env.service, interval |-> env.interval,
         visorDir |-> OrDefault(env.visorDir), componentDir |-> OrDefault(env.componentDir),
         targets |-> BinaryTargets(env), binaryURL |-> env.binaryURL,
         statePath |-> env.statePath, token |-> env.token, channel |-> env.channel,
         names |-> names,
         urls |-> [n \in {names[k] : k \in DOMAIN names} |-> env.url[EnvKey[n]]],
         patterns |-> Patterns(env)]

Validate(cfg) ==
    /\ cfg.listen # Unset /\ cfg.service # Unset
    /\ cfg.interval > 0
    /\ cfg.visorDir # Unset /\ cfg.componentDir # Unset
    /\ \A k \in DOMAIN cfg.names : cfg.urls[cfg.names[k]] # Unset

NoConfig == [error |-> TRUE]

Load(env) ==
    IF Validate(Configuration(env)) THEN Configuration(env) ELSE NoConfig

HasBridgeRPC(cfg) == cfg.names # <<>>
HasBridgeState(cfg) == cfg.statePath # Unset
HasSlack(cfg) == cfg.token # Unset
HasBinaryRemote(cfg) == cfg.binaryURL # Unset

-----------------------------------------------------------------------------
(***************************************************************************)
(* What the order of resolution in Load's comment comes to: a component's  *)
(* binary is that of the last usable pair that names it, else the legacy   *)
(* path if it is the visor, else the default; so all four always have one. *)
(***************************************************************************)
ResolvedTarget(env, c) ==
    LET usable == {k \in DOMAIN env.targets :
                      env.targets[k].name = c /\ env.targets[k].path # Unset}
    IN  IF usable # {} THEN env.targets[Max(usable)].path
        ELSE IF c = "visor" /\ env.legacy # Unset THEN env.legacy ELSE Default
=============================================================================
