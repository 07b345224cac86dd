---------------------------- MODULE BridgeRPCProofs ----------------------------
(***************************************************************************)
(* What holds of the bridge RPC collector for any number of endpoints and  *)
(* slots and whatever the endpoints answer: its probes are bounded and end *)
(* with their tick, each endpoint is checked once, and a failed tick       *)
(* counts one error.                                                       *)
(***************************************************************************)
EXTENDS BridgeRPC, TLAPS, FiniteSetTheorems

USE RunTickerAssumption, BridgeRPCAssumption
    DEF RunTickerAssumption, BridgeRPCAssumption, Names, Statuses, Kinds, NoError, Ahead

-----------------------------------------------------------------------------
(* Types, in the parts one step changes.                                   *)

LoopTypeOK ==
    /\ next \in 1 .. N + 1
    /\ firstErr \in Kinds \cup {NoError}

ProbeTypeOK ==
    /\ probe \in [Names -> {"none", "running", "answered", "counted", "leaving", "released"}]
    /\ status \in [Names -> Statuses]
    /\ up \in [Names -> {0, 1}]
    /\ check \in [Names -> [Statuses -> Nat]]

\* Every step keeps the types of the ticker loop.
LEMMA TickerTypes ==
    ASSUME TypeOK, [Next]_vars
    PROVE  TickerTypeOK'
<1> USE DEF TypeOK, TickerTypeOK
<1>1. CASE Begin
  BY <1>1 DEF Begin, BeginTick
<1>2. CASE Finish
  <2>1. errors' \in [Kinds -> Nat]
    BY <1>2 DEF Finish, EndTick
  <2>2. phase' = "select" /\ UNCHANGED <<cancelled, ticks>>
    BY <1>2 DEF Finish, EndTick
  <2> QED
    BY <2>1, <2>2
<1>3. CASE Return \/ CancelTicker
  BY <1>3 DEF Return, CancelTicker
<1>4. CASE UNCHANGED tickerVars
  BY <1>4 DEF tickerVars
<1> QED
  BY <1>1, <1>2, <1>3, <1>4
     DEF Next, Loop, Tick, Skip, Start, Cancel, Probe, Answer, Count, Report, Release, Done, vars

\* Every step keeps the types of the tick and of its probes.
LEMMA ProbeTypes ==
    ASSUME TypeOK, [Next]_vars
    PROVE  LoopTypeOK' /\ ProbeTypeOK'
<1> USE DEF TypeOK, LoopTypeOK, ProbeTypeOK
<1>1. CASE Begin \/ Skip \/ Start
  <2>1. LoopTypeOK'
    <3>1. CASE Begin
      BY <3>1 DEF Begin
    <3>2. CASE Skip \/ Start
      <4>1. next \in Names /\ next' = next + 1 /\ firstErr' = firstErr
        BY <3>2 DEF Skip, Start
      <4> QED
        BY <4>1
    <3> QED
      BY <1>1, <3>1, <3>2
  <2>2. UNCHANGED <<status, up, check>>
    BY <1>1 DEF Begin, Skip, Start
  <2>3. probe' = probe \/ probe' = [probe EXCEPT ![next] = "running"]
    BY <1>1 DEF Begin, Skip, Start
  <2> QED
    BY <2>1, <2>2, <2>3
<1>2. CASE \/ Finish \/ Cancel \/ UNCHANGED vars
           \/ Return /\ UNCHANGED <<probeVars, up, check>>
  BY <1>2 DEF Finish, Cancel, vars, probeVars
<1>3. ASSUME NEW n \in Names, Answer(n)
      PROVE  LoopTypeOK' /\ ProbeTypeOK'
  <2>1. PICK s \in Outcomes :
           /\ status' = [status EXCEPT ![n] = s]
           /\ up' = [up EXCEPT ![n] = IF s = "ok" THEN 1 ELSE 0]
    BY <1>3 DEF Answer
  <2>2. status' \in [Names -> Statuses]
    BY <2>1
  <2>3. up' \in [Names -> {0, 1}]
    BY <2>1
  <2>4. /\ UNCHANGED <<next, firstErr, check>>
        /\ probe' = [probe EXCEPT ![n] = "answered"]
    BY <1>3 DEF Answer
  <2> QED
    BY <2>2, <2>3, <2>4
<1>4. ASSUME NEW n \in Names, Count(n)
      PROVE  LoopTypeOK' /\ ProbeTypeOK'
  <2>1. check' \in [Names -> [Statuses -> Nat]]
    <3>1. check' = [check EXCEPT ![n] = [check[n] EXCEPT ![status[n]] = check[n][status[n]] + 1]]
      BY <1>4 DEF Count
    <3>2. status[n] \in Statuses /\ check[n] \in [Statuses -> Nat]
      OBVIOUS
    <3>3. [check[n] EXCEPT ![status[n]] = check[n][status[n]] + 1] \in [Statuses -> Nat]
      BY <3>2
    <3> QED
      BY <3>1, <3>3
  <2>2. probe' \in [Names -> {"none", "running", "answered", "counted", "leaving", "released"}]
    BY <1>4 DEF Count
  <2> QED
    BY <1>4, <2>1, <2>2 DEF Count
<1>5. ASSUME NEW n \in Names, Report(n)
      PROVE  LoopTypeOK' /\ ProbeTypeOK'
  BY <1>5 DEF Report
<1>6. ASSUME NEW n \in Names, Release(n) \/ Done(n)
      PROVE  LoopTypeOK' /\ ProbeTypeOK'
  BY <1>6 DEF Release, Done
<1> QED
  BY <1>1, <1>2, <1>3, <1>4, <1>5, <1>6 DEF Next, Loop, Tick, Probe

-----------------------------------------------------------------------------
(* The slots.                                                              *)

\* The probes that run are finitely many.
LEMMA RunningFinite ==
    ASSUME TRUE
    PROVE  IsFiniteSet(Running) /\ IsFiniteSet(Running')
<1>1. IsFiniteSet(Names)
  BY FS_Interval
<1>2. Running \subseteq Names /\ Running' \subseteq Names
  BY DEF Running
<1> QED
  BY <1>1, <1>2, FS_Subset

\* A slot is taken with its probe and given back with it.
LEMMA SlotsInv ==
    ASSUME IInv, [Next]_vars
    PROVE  Bounded' /\ NotStarted' /\ slots' \in 0 .. Parallel
<1> USE DEF IInv
<1>1. CASE Begin
  <2>1. /\ phase # "busy" /\ \A n \in Names : probe[n] = "none"
        /\ slots' = 0 /\ probe' = probe
    BY <1>1 DEF Begin, BeginTick, Bounded
  <2>2. Running' = {}
    BY <2>1 DEF Running
  <2> QED
    BY <2>1, <2>2, FS_EmptySet DEF Bounded, NotStarted
<1>2. CASE Start
  <2>1. /\ next \in HasURL /\ slots < Parallel /\ slots' = slots + 1
        /\ probe' = [probe EXCEPT ![next] = "running"]
        /\ next' = next + 1 /\ phase = "busy" /\ phase' = phase
    BY <1>2 DEF Start, tickerVars
  <2>2. probe[next] = "none" /\ next \notin Running
    BY <2>1 DEF NotStarted, Running
  <2>3. Running' = Running \cup {next}
    BY <2>1, <2>2 DEF Running, TypeOK
  <2>4. Cardinality(Running') = Cardinality(Running) + 1
    BY <2>2, <2>3, RunningFinite, FS_AddElement
  <2>5. slots' \in 0 .. Parallel
    BY <2>1 DEF TypeOK
  <2>6. NotStarted'
    BY <2>1 DEF NotStarted, TypeOK
  <2> QED
    BY <2>1, <2>4, <2>5, <2>6 DEF Bounded, TypeOK
<1>3. ASSUME NEW n \in Names, Release(n)
      PROVE  Bounded' /\ NotStarted' /\ slots' \in 0 .. Parallel
  <2>1. /\ probe[n] = "leaving" /\ slots' = slots - 1
        /\ probe' = [probe EXCEPT ![n] = "released"]
        /\ next' = next /\ phase' = phase
    BY <1>3 DEF Release, tickerVars
  <2>2. n \in Running /\ Running' = Running \ {n}
    BY <2>1 DEF Running, TypeOK
  <2>3. Cardinality(Running') = Cardinality(Running) - 1
    BY <2>2, RunningFinite, FS_RemoveElement
  <2>4. Cardinality(Running') \in Nat
    BY RunningFinite, FS_CardinalityType
  <2>5. slots' \in 0 .. Parallel
    BY <2>1, <2>3, <2>4 DEF TypeOK, Bounded
  <2>6. NotStarted' /\ phase = "busy"
    BY <2>1 DEF NotStarted, TypeOK, Bounded
  <2> QED
    BY <2>1, <2>3, <2>5, <2>6 DEF Bounded, TypeOK
<1>4. ASSUME NEW n \in Names, Answer(n) \/ Count(n) \/ Report(n)
      PROVE  Bounded' /\ NotStarted' /\ slots' \in 0 .. Parallel
  <2>1. /\ n \in Running /\ slots' = slots /\ next' = next /\ phase' = phase
        /\ \E s \in {"answered", "counted", "leaving"} : probe' = [probe EXCEPT ![n] = s]
        /\ probe[n] # "none"
    <3>1. CASE Answer(n)
      BY <3>1 DEF Answer, Running, tickerVars
    <3>2. CASE Count(n)
      BY <3>2 DEF Count, Running, tickerVars
    <3>3. CASE Report(n)
      BY <3>3 DEF Report, Running, tickerVars
    <3> QED
      BY <1>4, <3>1, <3>2, <3>3
  <2>2. Running' = Running
    BY <2>1 DEF Running, TypeOK
  <2>3. NotStarted' /\ phase = "busy"
    BY <2>1 DEF NotStarted, TypeOK, Bounded
  <2> QED
    BY <2>1, <2>2, <2>3 DEF Bounded, TypeOK
<1>5. ASSUME NEW n \in Names, Done(n)
      PROVE  Bounded' /\ NotStarted' /\ slots' \in 0 .. Parallel
  <2>1. /\ probe[n] = "released" /\ slots' = slots
        /\ probe' = [probe EXCEPT ![n] = "none"]
        /\ next' = next /\ phase' = phase
    BY <1>5 DEF Done, tickerVars
  <2>2. Running' = Running
    BY <2>1 DEF Running, TypeOK
  <2>3. NotStarted' /\ phase = "busy"
    BY <2>1 DEF NotStarted, TypeOK, Bounded
  <2> QED
    BY <2>1, <2>2, <2>3 DEF Bounded, TypeOK
<1>6. CASE \/ Skip \/ Finish \/ Cancel \/ UNCHANGED vars
           \/ Return /\ UNCHANGED <<probeVars, up, check>>
  <2>1. slots' = slots /\ probe' = probe
    BY <1>6 DEF Skip, Finish, Cancel, probeVars, vars
  <2>2. Running' = Running
    BY <2>1 DEF Running
  <2>3. /\ next' = next \/ next' = next + 1
        /\ phase # "busy" \/ phase' = phase \/ \A n \in Names : probe[n] = "none"
        /\ phase' = "busy" => phase = "busy"
    BY <1>6 DEF Skip, Finish, EndTick, Return, Cancel, CancelTicker, probeVars, vars, tickerVars
  <2>4. NotStarted'
    BY <2>1, <2>3 DEF NotStarted, TypeOK
  <2> QED
    <3>1. phase' # "busy" => \A n \in Names : probe'[n] = "none"
      BY <2>1, <2>3 DEF Bounded
    <3>2. slots' \in 0 .. Parallel
      BY <2>1 DEF TypeOK
    <3> QED
      BY <2>1, <2>2, <2>4, <3>1, <3>2 DEF Bounded
<1> QED
  BY <1>1, <1>2, <1>3, <1>4, <1>5, <1>6 DEF Next, Loop, Tick, Probe

-----------------------------------------------------------------------------
(* The checks.                                                             *)

\* A step of a probe is of an endpoint with a URL that the loop has passed.
LEMMA ProbeOf ==
    ASSUME IInv, NEW n \in Names, Probe(n)
    PROVE  /\ n \in HasURL /\ phase = "busy" /\ n < next /\ next \in Nat
           /\ UNCHANGED <<tickerVars, next>>
<1>1. probe[n] # "none" /\ UNCHANGED <<tickerVars, next>>
  BY DEF Probe, Answer, Count, Report, Release, Done
<1>2. n \in HasURL /\ phase = "busy" /\ ~(n >= next)
  BY <1>1 DEF IInv, Bounded, NotStarted
<1>3. next \in Nat
  BY DEF IInv, TypeOK
<1> QED
  BY <1>1, <1>2, <1>3

\* A counted check adds one to one of the endpoint's counters.
LEMMA CountAddsOne ==
    ASSUME TypeOK, NEW n \in Names, Count(n), NEW m \in Names
    PROVE  Checks(m)' = IF m = n THEN Checks(m) + 1 ELSE Checks(m)
<1>1. check' = [check EXCEPT ![n] = [check[n] EXCEPT ![status[n]] = check[n][status[n]] + 1]]
  BY DEF Count
<1>2. /\ check \in [Names -> [Statuses -> Nat]]
      /\ status[n] \in Statuses
  BY DEF TypeOK
<1>3. CASE m # n
  <2>1. check'[m] = check[m]
    BY <1>1, <1>2, <1>3
  <2> QED
    BY <1>3, <2>1 DEF Checks
<1>4. CASE m = n
  <2>1. /\ check'[n] = [check[n] EXCEPT ![status[n]] = check[n][status[n]] + 1]
        /\ check[n] \in [Statuses -> Nat]
    BY <1>1, <1>2
  <2>2. check[n]["ok"] \in Nat /\ check[n]["fail"] \in Nat
        /\ check[n]["timeout"] \in Nat /\ check[n]["auth_error"] \in Nat
    BY <2>1
  <2>3. CASE status[n] = "ok"
    BY <1>4, <2>1, <2>2, <2>3 DEF Checks
  <2>4. CASE status[n] = "fail"
    BY <1>4, <2>1, <2>2, <2>4 DEF Checks
  <2>5. CASE status[n] = "timeout"
    BY <1>4, <2>1, <2>2, <2>5 DEF Checks
  <2>6. CASE status[n] = "auth_error"
    BY <1>4, <2>1, <2>2, <2>6 DEF Checks
  <2> QED
    BY <1>2, <2>3, <2>4, <2>5, <2>6
<1> QED
  BY <1>3, <1>4

\* The checks are numbers.
LEMMA ChecksTyped ==
    ASSUME TypeOK, NEW n \in Names
    PROVE  Checks(n) \in Nat
<1>1. check[n] \in [Statuses -> Nat]
  BY DEF TypeOK
<1> QED
  BY <1>1 DEF Checks

\* Every step keeps the counters behind by the check still to come.
LEMMA CountsNext ==
    ASSUME IInv, [Next]_vars
    PROVE  CountsInHand'
<1>a. TypeOK
  BY DEF IInv
<1>b. next \in Nat /\ ticks \in Nat
  BY <1>a DEF TypeOK, TickerTypeOK
<1> USE <1>a, <1>b DEF CountsInHand, Counted
<1>1. ASSUME UNCHANGED check
      PROVE  \A n \in Names : Checks(n)' = Checks(n)
  BY <1>1 DEF Checks
<1>2. CASE Begin
  <2>1. /\ phase # "busy" /\ \A n \in Names : probe[n] = "none"
        /\ phase' = "busy" /\ next' = 1 /\ ticks' = ticks + 1 /\ check' = check
    BY <1>2 DEF Begin, BeginTick, IInv, Bounded
  <2> QED
    BY <1>1, <2>1 DEF IInv
<1>3. CASE Skip \/ Start
  <2>1. /\ next \in Names /\ next' = next + 1 /\ check' = check /\ UNCHANGED <<phase, ticks>>
        /\ \/ next \notin HasURL /\ probe' = probe
           \/ next \in HasURL /\ probe' = [probe EXCEPT ![next] = "running"]
        /\ probe \in [Names -> {"none", "running", "answered", "counted", "leaving", "released"}]
        /\ phase = "busy"
    BY <1>3 DEF Skip, Start, tickerVars, TypeOK
  <2> QED
    BY <1>1, <2>1 DEF IInv
<1>4. CASE Finish
  <2>1. /\ phase = "busy" /\ phase' = "select" /\ next = N + 1 /\ UNCHANGED <<next, probe, check, ticks>>
        /\ \A n \in Names : probe[n] = "none"
    BY <1>4 DEF Finish, EndTick, probeVars
  <2> QED
    BY <1>1, <2>1 DEF IInv
<1>5. CASE \/ Cancel \/ UNCHANGED vars
           \/ Return /\ UNCHANGED <<probeVars, up, check>>
  <2>1. /\ UNCHANGED <<next, probe, check, ticks>>
        /\ (phase' = "busy") = (phase = "busy")
    BY <1>5 DEF Cancel, CancelTicker, Return, probeVars, vars, tickerVars
  <2> QED
    BY <1>1, <2>1 DEF IInv
<1>6. ASSUME NEW n \in Names, Count(n)
      PROVE  CountsInHand'
  <2>1. n \in HasURL /\ phase = "busy" /\ n < next /\ UNCHANGED <<tickerVars, next>>
    BY <1>6, ProbeOf DEF Probe
  <2>2. /\ probe[n] = "answered"
        /\ \E s \in {"counted", "leaving"} : probe' = [probe EXCEPT ![n] = s]
        /\ probe \in [Names -> {"none", "running", "answered", "counted", "leaving", "released"}]
    BY <1>6 DEF Count, TypeOK
  <2>3. Checks(n) = ticks - 1 /\ Checks(n)' = Checks(n) + 1
    BY <1>6, <2>1, <2>2, CountAddsOne DEF IInv
  <2>4. \A m \in Names \ {n} : Checks(m)' = Checks(m) /\ probe'[m] = probe[m]
    BY <1>6, <2>2, CountAddsOne
  <2> QED
    BY <2>1, <2>2, <2>3, <2>4 DEF IInv, tickerVars
<1>7. ASSUME NEW n \in Names, Answer(n) \/ Report(n) \/ Release(n) \/ Done(n)
      PROVE  CountsInHand'
  <2>1. n \in HasURL /\ phase = "busy" /\ n < next /\ UNCHANGED <<tickerVars, next>>
    BY <1>7, ProbeOf DEF Probe
  <2>2. check' = check
    BY <1>7 DEF Answer, Report, Release, Done
  <2>3. \A m \in Names :
          probe'[m] \in {"running", "answered"} <=> probe[m] \in {"running", "answered"}
    <3>1. CASE Answer(n)
      BY <3>1 DEF Answer, TypeOK
    <3>2. CASE Report(n) \/ Release(n) \/ Done(n)
      BY <3>2 DEF Report, Release, Done, TypeOK
    <3> QED
      BY <1>7, <3>1, <3>2
  <2> QED
    BY <1>1, <2>1, <2>2, <2>3 DEF IInv, tickerVars
<1> HIDE DEF CountsInHand, Counted
<1> QED
  BY <1>2, <1>3, <1>4, <1>5, <1>6, <1>7 DEF Next, Loop, Tick, Probe

\* Every step keeps the gauges at the last answers.
LEMMA GaugeNext ==
    ASSUME IInv, [Next]_vars
    PROVE  GaugeInHand'
<1> USE DEF GaugeInHand
<1> /\ next \in Nat /\ GaugeInHand
    /\ probe \in [Names -> {"none", "running", "answered", "counted", "leaving", "released"}]
    /\ status \in [Names -> Statuses] /\ up \in [Names -> {0, 1}]
  BY DEF IInv, TypeOK
<1>1. CASE Begin
  BY <1>1 DEF Begin, BeginTick
<1>2. CASE Skip \/ Start
  <2>1. /\ next \in Names /\ next' = next + 1 /\ UNCHANGED <<phase, status, up>> /\ phase = "busy"
        /\ \/ next \notin HasURL /\ probe' = probe
           \/ next \in HasURL /\ probe' = [probe EXCEPT ![next] = "running"]
    BY <1>2 DEF Skip, Start, tickerVars
  <2> QED
    BY <2>1
<1>3. CASE Finish
  <2>1. phase = "busy" /\ next = N + 1 /\ UNCHANGED <<next, probe, status, up>>
        /\ \A n \in Names : probe[n] = "none"
    BY <1>3 DEF Finish, EndTick, probeVars
  <2> QED
    BY <2>1
<1>4. CASE \/ Cancel \/ UNCHANGED vars
           \/ Return /\ UNCHANGED <<probeVars, up, check>>
  <2>1. /\ UNCHANGED <<next, probe, status, up>>
        /\ (phase' = "busy") = (phase = "busy") /\ (phase' = "start") = (phase = "start")
    BY <1>4 DEF Cancel, CancelTicker, Return, probeVars, vars, tickerVars
  <2> QED
    BY <2>1
<1>5. ASSUME NEW n \in Names, Answer(n)
      PROVE  GaugeInHand'
  <2>1. UNCHANGED <<tickerVars, next>>
    BY <1>5 DEF Answer
  <2>2. PICK s \in Outcomes :
           /\ status' = [status EXCEPT ![n] = s]
           /\ up' = [up EXCEPT ![n] = IF s = "ok" THEN 1 ELSE 0]
    BY <1>5 DEF Answer
  <2>3. up'[n] = 1 <=> status'[n] = "ok"
    BY <2>2
  <2>4. \A m \in Names \ {n} : UNCHANGED <<status[m], up[m], probe[m]>>
    BY <1>5, <2>2 DEF Answer
  <2> QED
    BY <2>1, <2>3, <2>4 DEF tickerVars
<1>6. ASSUME NEW n \in Names, Count(n) \/ Report(n) \/ Release(n) \/ Done(n)
      PROVE  GaugeInHand'
  <2>1. /\ UNCHANGED <<tickerVars, next, status, up>>
        /\ probe[n] # "running"
        /\ \E s : probe' = [probe EXCEPT ![n] = s]
    BY <1>6 DEF Count, Report, Release, Done
  <2>2. \A m \in Names \ {n} : probe'[m] = probe[m]
    BY <2>1
  <2> QED
    BY <2>1, <2>2 DEF tickerVars
<1> HIDE DEF GaugeInHand
<1> QED
  BY <1>1, <1>2, <1>3, <1>4, <1>5, <1>6 DEF Next, Loop, Tick, Probe

-----------------------------------------------------------------------------
(* The error of the tick.                                                  *)

\* Probes that have nothing to do with the first error leave it as it is.
LEMMA ErrorKept ==
    ASSUME ErrorInHand,
           phase' = "busy" => phase = "busy",
           UNCHANGED <<firstErr, status>>,
           \A n \in HasURL :
              /\ probe'[n] = "counted" => status[n] # "ok"
              /\ phase' = "busy" /\ Settled(n)' /\ status[n] # "ok" => Settled(n)
              /\ phase' = "busy" /\ Settled(n) => Settled(n)'
    PROVE  ErrorInHand'
BY DEF ErrorInHand

\* Every step keeps the first error that of a failed probe.
LEMMA ErrorNext ==
    ASSUME IInv, [Next]_vars
    PROVE  ErrorInHand'
<1>a. /\ next \in Nat /\ ErrorInHand
      /\ probe \in [Names -> {"none", "running", "answered", "counted", "leaving", "released"}]
      /\ status \in [Names -> Statuses]
  BY DEF IInv, TypeOK
<1>1. CASE Begin
  <2>1. /\ next' = 1 /\ firstErr' = NoError /\ UNCHANGED <<probe, status>>
    BY <1>1 DEF Begin
  <2> QED
    BY <1>a, <2>1 DEF ErrorInHand, Settled
<1>2. CASE Skip \/ Start
  <2>1. /\ next \in Names /\ next' = next + 1 /\ UNCHANGED <<phase, status, firstErr>>
        /\ \/ next \notin HasURL /\ probe' = probe
           \/ next \in HasURL /\ probe' = [probe EXCEPT ![next] = "running"]
    BY <1>2 DEF Skip, Start, tickerVars
  <2>2. ASSUME NEW n \in HasURL
        PROVE  /\ probe'[n] = "counted" => status[n] # "ok"
               /\ phase' = "busy" => (Settled(n)' <=> Settled(n))
    <3>1. CASE n = next
      BY <1>a, <2>1, <3>1 DEF Settled
    <3>2. CASE n # next
      <4>1. probe'[n] = probe[n] /\ (n >= next' <=> n >= next)
        BY <1>a, <2>1, <3>2
      <4> QED
        BY <1>a, <2>1, <4>1 DEF Settled, ErrorInHand
    <3> QED
      BY <3>1, <3>2
  <2> QED
    BY <1>a, <2>1, <2>2, ErrorKept
<1>3. CASE \/ Finish \/ Cancel \/ UNCHANGED vars
           \/ Return /\ UNCHANGED <<probeVars, up, check>>
  <2>1. /\ UNCHANGED <<next, probe, status, firstErr>>
        /\ phase' = "busy" => phase = "busy"
    BY <1>3 DEF Finish, EndTick, Cancel, CancelTicker, Return, probeVars, vars, tickerVars
  <2>2. \A n \in HasURL : phase' = "busy" => (Settled(n)' <=> Settled(n))
    BY <2>1 DEF Settled
  <2>3. \A n \in HasURL : probe'[n] = "counted" => status[n] # "ok"
    BY <1>a, <2>1 DEF ErrorInHand
  <2> QED
    BY <1>a, <2>1, <2>2, <2>3, ErrorKept
<1>4. ASSUME NEW n \in Names, Answer(n)
      PROVE  ErrorInHand'
  <2>1. /\ n \in HasURL /\ UNCHANGED <<phase, next, firstErr>>
        /\ probe[n] = "running" /\ probe' = [probe EXCEPT ![n] = "answered"]
    BY <1>4, ProbeOf DEF Probe, Answer, tickerVars
  <2>2. \A m \in Names \ {n} : status'[m] = status[m] /\ probe'[m] = probe[m]
    BY <1>a, <1>4, <2>1 DEF Answer
  <2>3. probe'[n] = "answered"
    BY <1>a, <2>1
  <2>4. \A m \in HasURL : Settled(m)' <=> m # n /\ Settled(m)
    BY <2>1, <2>2, <2>3 DEF Settled
  <2>5. ~Settled(n)
    BY <2>1 DEF Settled
  <2> QED
    BY <1>a, <2>1, <2>2, <2>3, <2>4, <2>5 DEF ErrorInHand
<1>5. ASSUME NEW n \in Names, Count(n) \/ Release(n) \/ Done(n)
      PROVE  ErrorInHand'
  <2>1. /\ n \in HasURL /\ UNCHANGED <<phase, next, firstErr, status>>
    BY <1>5, ProbeOf DEF Probe, Count, Release, Done, tickerVars
  <2>2. \A m \in Names \ {n} : probe'[m] = probe[m]
    BY <1>a, <1>5 DEF Count, Release, Done
  <2>3. \/ probe'[n] = "counted" /\ status[n] # "ok" /\ probe[n] = "answered"
        \/ probe'[n] = "leaving" /\ status[n] = "ok" /\ probe[n] = "answered"
        \/ /\ probe[n] \in {"leaving", "released"}
           /\ probe'[n] \in {"released", "none"}
    BY <1>a, <1>5 DEF Count, Release, Done
  <2>4. \A m \in HasURL :
          /\ probe'[m] = "counted" => status[m] # "ok"
          /\ Settled(m)' /\ status[m] # "ok" => Settled(m)
          /\ Settled(m) => Settled(m)'
    BY <1>a, <2>1, <2>2, <2>3 DEF Settled, ErrorInHand
  <2> QED
    BY <1>a, <2>1, <2>4, ErrorKept
<1>6. ASSUME NEW n \in Names, Report(n)
      PROVE  ErrorInHand'
  <2>1. /\ n \in HasURL /\ n < next /\ UNCHANGED <<phase, next, status>>
        /\ probe[n] = "counted" /\ probe' = [probe EXCEPT ![n] = "leaving"]
    BY <1>6, ProbeOf DEF Probe, Report, tickerVars
  <2>2. firstErr' = IF firstErr # NoError THEN firstErr ELSE KindOf(status[n])
    BY <1>6 DEF Report, KindOf
  <2>3. KindOf(status[n]) # NoError /\ status[n] # "ok"
    BY <1>a, <2>1 DEF KindOf, ErrorInHand
  <2>4. /\ \A m \in Names \ {n} : probe'[m] = probe[m]
        /\ probe'[n] = "leaving"
    BY <1>a, <2>1
  <2>5. /\ Settled(n)'
        /\ \A m \in HasURL \ {n} : Settled(m)' <=> Settled(m)
        /\ \A m \in HasURL : Settled(m) => Settled(m)'
    BY <1>a, <2>1, <2>4 DEF Settled
  <2>6. \A m \in HasURL : probe'[m] = "counted" => status'[m] # "ok"
    BY <1>a, <2>1, <2>4 DEF ErrorInHand
  <2>7. CASE firstErr # NoError
    BY <1>a, <2>1, <2>2, <2>5, <2>6, <2>7 DEF ErrorInHand
  <2>8. CASE firstErr = NoError
    BY <2>1, <2>2, <2>3, <2>5, <2>6, <2>8 DEF ErrorInHand
  <2> QED
    BY <2>7, <2>8
<1> QED
  BY <1>1, <1>2, <1>3, <1>4, <1>5, <1>6 DEF Next, Loop, Tick, Probe

-----------------------------------------------------------------------------
\* Nothing is probed, and nothing counted.
LEMMA InitInv == Init => IInv
<1> SUFFICES ASSUME Init PROVE IInv
  OBVIOUS
<1>1. TickerTypeOK
  <2>1. ticks \in 0 .. MaxTicks /\ phase = "start"
    BY DEF Init, TickerInit
  <2>2. errors \in [Kinds -> Nat]
    BY DEF Init, TickerInit
  <2>3. cancelled \in BOOLEAN
    BY Zenon DEF Init, TickerInit
  <2> QED
    BY <2>1, <2>2, <2>3 DEF TickerTypeOK
<1>2. TypeOK
  BY <1>1 DEF Init, TypeOK
<1>3. Running = {}
  BY DEF Init, Running
<1> QED
  <2>1. Bounded /\ NotStarted
    BY <1>3, FS_EmptySet DEF Init, TickerInit, Bounded, NotStarted
  <2>2. CountsInHand
    <3>1. \A n \in Names : Checks(n) = 0
      BY DEF Init, Checks
    <3> QED
      BY <3>1 DEF Init, TickerInit, CountsInHand, Counted
  <2>3. GaugeInHand /\ ErrorInHand
    BY DEF Init, TickerInit, GaugeInHand, ErrorInHand
  <2> QED
    BY <1>2, <2>1, <2>2, <2>3 DEF IInv

\* Every step keeps the invariant.
LEMMA NextInv == IInv /\ [Next]_vars => IInv'
<1> SUFFICES ASSUME IInv, [Next]_vars PROVE IInv'
  OBVIOUS
<1>1. TickerTypeOK' /\ LoopTypeOK' /\ ProbeTypeOK'
  BY TickerTypes, ProbeTypes DEF IInv
<1>2. Bounded' /\ NotStarted' /\ slots' \in 0 .. Parallel
  BY SlotsInv
<1> QED
  BY <1>1, <1>2, CountsNext, GaugeNext, ErrorNext DEF IInv, TypeOK, LoopTypeOK, ProbeTypeOK

(***************************************************************************)
(* What a tick in progress has done so far is what the ticks end with.     *)
(***************************************************************************)
THEOREM RPCInvariant == Spec => []IInv
BY InitInv, NextInv, PTL DEF Spec

(***************************************************************************)
(* However many endpoints are configured and however long they hang: no    *)
(* more probes are under way than the semaphore has slots, every slot is   *)
(* given back, and a tick leaves no probe behind.                          *)
(***************************************************************************)
THEOREM ProbesBounded == Spec => []Bounded
<1>1. IInv => Bounded
  BY DEF IInv
<1> QED
  BY <1>1, RPCInvariant, PTL

(***************************************************************************)
(* Between ticks every endpoint with a URL has been checked once per tick  *)
(* and the others never, whatever the order in which the probes answer,    *)
(* and every gauge agrees with the last check.                             *)
(***************************************************************************)
THEOREM EachCheckedOnce == Spec => []CheckedOncePerTick
<1>1. IInv => CheckedOncePerTick
  <2> SUFFICES ASSUME IInv, phase \in {"select", "returned"}, NEW n \in Names
               PROVE  /\ Checks(n) = IF n \in HasURL THEN ticks ELSE 0
                      /\ n \in HasURL => (up[n] = 1 <=> status[n] = "ok")
    BY DEF CheckedOncePerTick
  <2>1. Counted(n) /\ probe[n] = "none"
    BY DEF IInv, Bounded, Counted
  <2> QED
    BY <2>1 DEF IInv, CountsInHand, GaugeInHand
<1> QED
  BY <1>1, RPCInvariant, PTL

(***************************************************************************)
(* However the failing probes race for the first error: a tick adds one    *)
(* error, of a kind one of them failed with, exactly when one failed.      *)
(***************************************************************************)
THEOREM OneErrorPerFailedTick == Spec => ErrorPerFailedTick
<1>1. IInv /\ [Next]_vars => [TickCounts]_vars
  <2> SUFFICES ASSUME IInv, Next, phase = "busy", phase' = "select"
               PROVE  TickCounts
    BY DEF TickCounts
  <2>1. Finish
    BY DEF Next, Loop, Tick, Return, Begin, BeginTick, Skip, Start, Cancel, CancelTicker,
           Probe, Answer, Count, Report, Release, Done, tickerVars
  <2>2. /\ next = N + 1 /\ \A n \in Names : probe[n] = "none"
        /\ errors' = IF firstErr = NoError THEN errors
                     ELSE [errors EXCEPT ![firstErr] = @ + 1]
    BY <2>1 DEF Finish, EndTick
  <2>3. \A n \in HasURL : Settled(n)
    BY <2>2 DEF Settled
  <2>4. /\ Failed # {} => firstErr # NoError
        /\ firstErr # NoError => \E n \in Failed : firstErr = KindOf(status[n])
    BY <2>3 DEF IInv, ErrorInHand, Failed
  <2>5. errors \in [Kinds -> Nat] /\ firstErr \in Kinds \cup {NoError}
    BY DEF IInv, TypeOK, TickerTypeOK
  <2>6. CASE firstErr = NoError
    <3>1. Added = {}
      BY <2>2, <2>6 DEF Added
    <3> QED
      BY <2>4, <2>6, <3>1 DEF TickCounts
  <2>7. CASE firstErr # NoError
    <3>1. /\ firstErr \in Kinds
          /\ \A k \in Kinds : errors'[k] = IF k = firstErr THEN errors[k] + 1 ELSE errors[k]
      BY <2>2, <2>5, <2>7
    <3>2. Added = {firstErr}
      BY <2>5, <3>1 DEF Added
    <3>3. Cardinality(Added) = 1
      BY <3>2, FS_Singleton
    <3> QED
      BY <2>4, <2>7, <3>1, <3>2, <3>3 DEF TickCounts
  <2> QED
    BY <2>6, <2>7
<1> QED
  BY <1>1, RPCInvariant, PTL DEF Spec, ErrorPerFailedTick
=============================================================================
