---------------------------- MODULE ServiceProofs ----------------------------
(***************************************************************************)
(* What holds of the service collector for any number of processes,        *)
(* restarts, resets and ticks, with or without failing reads: its types,   *)
(* and that it counts no restart twice.                                    *)
(***************************************************************************)
EXTENDS Service, TLAPS, FiniteSetTheorems

USE RunTickerAssumption, ServiceAssumption
    DEF RunTickerAssumption, ServiceAssumption, Pids, NoPid, Kinds, NoError, Steps

-----------------------------------------------------------------------------
(* Types.                                                                  *)

\* Of the children of a process any part is at most as many, and there are at
\* most as many as there are processes.
LEMMA ChildCount ==
    ASSUME NEW p, NEW S \in SUBSET ChildrenOf(p)
    PROVE  /\ Cardinality(ChildrenOf(p)) \in 0 .. NPids
           /\ Cardinality(S) \in 0 .. NPids
           /\ Cardinality(S) <= Cardinality(ChildrenOf(p))
<1>1. IsFiniteSet(1 .. NPids) /\ Cardinality(1 .. NPids) = NPids
  BY FS_Interval
<1>2. ChildrenOf(p) \subseteq 1 .. NPids
  BY DEF ChildrenOf
<1>3. /\ IsFiniteSet(ChildrenOf(p))
      /\ Cardinality(ChildrenOf(p)) <= Cardinality(1 .. NPids)
  BY <1>1, <1>2, FS_Subset
<1>4. IsFiniteSet(S) /\ Cardinality(S) <= Cardinality(ChildrenOf(p))
  BY <1>3, FS_Subset
<1>5. Cardinality(ChildrenOf(p)) \in Nat /\ Cardinality(S) \in Nat
  BY <1>3, <1>4, FS_CardinalityType
<1> QED
  BY <1>1, <1>3, <1>4, <1>5

\* What a scan counts: all it has found, or a part.
LEMMA ScanCount ==
    ASSUME TypeOK, NEW unread \in SUBSET Counted
    PROVE  LET n == Cardinality(Counted \ unread)
           IN  /\ n \in 0 .. NPids
               /\ pid = NoPid => n = 0
               /\ pid # NoPid => /\ n <= Cardinality(ChildrenOf(pid))
                                 /\ unread = {} => n = Cardinality(ChildrenOf(pid))
<1>1. CASE pid = NoPid
  <2>1. Counted \ unread = {}
    BY <1>1 DEF Counted
  <2> QED
    BY <1>1, <2>1, FS_EmptySet
<1>2. CASE pid # NoPid
  <2>1. Counted = ChildrenOf(pid)
    BY <1>2 DEF Counted
  <2>2. Counted \ unread \in SUBSET ChildrenOf(pid)
    BY <2>1
  <2>3. unread = {} => Counted \ unread = ChildrenOf(pid)
    BY <2>1
  <2> QED
    BY <1>2, <2>2, <2>3, ChildCount
<1> QED
  BY <1>1, <1>2

\* The unit's part of the types and the collector's.
UnitTypeOK ==
    /\ mainPid \in Pids \cup {NoPid}
    /\ parent \in [Pids -> Pids \cup {NoPid}]
    /\ pids \in 0 .. NPids
    /\ nRestarts \in Nat /\ restarts \in 0 .. MaxRestarts
    /\ resets \in 0 .. MaxResets
LocalTypeOK ==
    /\ step \in Steps
    /\ pid \in Pids \cup {NoPid}
    /\ firstKind \in Kinds \cup {NoError}
    /\ lastNRestart \in Nat
    /\ up \in {0, 1} /\ childCount \in 0 .. NPids /\ restartTotal \in Nat
FlagTypeOK == steady \in BOOLEAN /\ failed \in BOOLEAN /\ skipped \in BOOLEAN

\* No step of the unit breaks the types.
LEMMA UnitTypes == TypeOK /\ Unit => TypeOK'
<1> SUFFICES ASSUME TypeOK, Unit PROVE TypeOK'
  OBVIOUS
<1>1. UnitTypeOK'
  <2> USE DEF TypeOK, UnitTypeOK
  <2>1. CASE Start
    <3>1. pids' = pids + 1 /\ mainPid' = pids + 1 /\ pids < NPids
      BY <2>1 DEF Start, StartUnit
    <3>2. nRestarts' = 0 /\ resets' \in 0 .. MaxResets
      BY <2>1 DEF Start
    <3> QED
      BY <2>1, <3>1, <3>2 DEF Start, StartUnit
  <2>2. CASE Restart
    BY <2>2 DEF Restart, StartUnit
  <2>3. CASE Spawn
    BY <2>3 DEF Spawn
  <2>4. CASE UnitFails
    BY <2>4 DEF UnitFails
  <2>5. CASE \E c \in Pids : ChildExits(c)
    BY <2>5 DEF ChildExits
  <2> QED
    BY <2>1, <2>2, <2>3, <2>4, <2>5 DEF Unit
<1>2. UNCHANGED Exporter /\ steady' = FALSE
  BY DEF Unit, Start, Restart, StartUnit, Spawn, UnitFails, ChildExits
<1>3. TickerTypeOK' /\ LocalTypeOK'
  BY <1>2 DEF Exporter, tickerVars, local, series, TypeOK, TickerTypeOK, LocalTypeOK
<1>4. FlagTypeOK'
  BY <1>2, Zenon DEF Exporter, TypeOK, FlagTypeOK
<1> QED
  BY <1>1, <1>3, <1>4 DEF TypeOK, UnitTypeOK, LocalTypeOK, FlagTypeOK

\* No step of the collector breaks the types.
LEMMA CollectorTypes == TypeOK /\ (Begin \/ Tick \/ Stop) => TypeOK'
<1> SUFFICES ASSUME TypeOK, Begin \/ Tick \/ Stop PROVE TypeOK'
  OBVIOUS
<1>1. TickerTypeOK'
  <2> USE DEF TypeOK, TickerTypeOK
  <2>1. CASE Begin
    BY <2>1 DEF Begin, BeginTick
  <2>2. CASE End
    <3>1. errors' \in [Kinds -> Nat]
      BY <2>2 DEF End, EndTick
    <3> QED
      BY <2>2, <3>1 DEF End, EndTick
  <2>3. CASE Stop
    BY <2>3 DEF Stop, Return, CancelTicker
  <2>4. CASE UNCHANGED tickerVars
    BY <2>4 DEF tickerVars
  <2> QED
    BY <2>1, <2>2, <2>3, <2>4
       DEF Tick, ReadActive, ReadMainPID, ReadNRestarts, CountChildren
<1>2. UnitTypeOK'
  <2>1. UNCHANGED unit
    BY DEF Begin, Stop, Tick, ReadActive, ReadMainPID, ReadNRestarts, CountChildren, End
  <2> QED
    BY <2>1 DEF unit, TypeOK, UnitTypeOK
<1>3. LocalTypeOK'
  <2> USE DEF TypeOK, LocalTypeOK, Fails, Succeeds, First
  <2>1. CASE Begin
    BY <2>1 DEF Begin, series
  <2>2. CASE ReadActive
    BY <2>2 DEF ReadActive
  <2>3. CASE ReadMainPID
    BY <2>3 DEF ReadMainPID, unit, series
  <2>4. CASE ReadNRestarts
    <3>1. restartTotal' \in Nat /\ lastNRestart' \in Nat
      BY <2>4 DEF ReadNRestarts
    <3>2. firstKind' \in Kinds \cup {NoError}
      BY <2>4 DEF ReadNRestarts
    <3> QED
      BY <2>4, <3>1, <3>2 DEF ReadNRestarts
  <2>5. CASE CountChildren
    <3>1. childCount' \in 0 .. NPids
      <4>1. CASE \E unread \in SUBSET Counted : childCount' = Cardinality(Counted \ unread)
        <5> HIDE DEF TypeOK
        <5> QED
          BY <4>1, ScanCount
      <4>2. CASE childCount' = 0
        BY <4>2
      <4> QED
        BY <2>5, <4>1, <4>2, Zenon DEF CountChildren
    <3>2. firstKind' \in Kinds \cup {NoError}
      BY <2>5 DEF CountChildren
    <3> QED
      BY <2>5, <3>1, <3>2 DEF CountChildren
  <2>6. CASE End \/ Stop
    BY <2>6 DEF End, Stop, local, series
  <2> QED
    BY <2>1, <2>2, <2>3, <2>4, <2>5, <2>6 DEF Tick
<1>4. FlagTypeOK'
  <2> USE DEF TypeOK, FlagTypeOK, Fails, Succeeds
  <2>1. CASE Begin \/ End \/ Stop
    BY <2>1, Zenon DEF Begin, End, Stop
  <2>2. CASE ReadActive \/ ReadMainPID \/ ReadNRestarts \/ CountChildren
    BY <2>2, Zenon DEF ReadActive, ReadMainPID, ReadNRestarts, CountChildren
  <2> QED
    BY <2>1, <2>2 DEF Tick
<1> QED
  BY <1>1, <1>2, <1>3, <1>4 DEF TypeOK, UnitTypeOK, LocalTypeOK, FlagTypeOK

\* No step breaks the types.
LEMMA NextTypes == TypeOK /\ [Next]_vars => TypeOK'
<1>1. ASSUME TypeOK, UNCHANGED vars PROVE TypeOK'
  BY <1>1 DEF vars, tickerVars, unit, local, series, TypeOK, TickerTypeOK
<1> QED
  BY <1>1, UnitTypes, CollectorTypes DEF Next

-----------------------------------------------------------------------------
(* The inductive invariant.                                                *)

\* Nothing has restarted and nothing is counted.
LEMMA InitInv == Init => IInv
<1> SUFFICES ASSUME Init PROVE IInv
  OBVIOUS
<1>1. TickerTypeOK /\ UnitTypeOK /\ LocalTypeOK
  <2>1. TickerTypeOK
    <3>1. ticks \in 0 .. MaxTicks
      BY DEF Init, TickerInit
    <3>2. errors \in [Kinds -> Nat]
      BY DEF Init, TickerInit
    <3>3. phase \in {"start", "busy", "select", "returned"} /\ cancelled \in BOOLEAN
      BY Zenon DEF Init, TickerInit
    <3> QED
      BY <3>1, <3>2, <3>3 DEF TickerTypeOK
  <2>2. UnitTypeOK
    BY DEF Init, UnitTypeOK
  <2>3. LocalTypeOK
    BY DEF Init, LocalTypeOK
  <2> QED
    BY <2>1, <2>2, <2>3
<1>2. FlagTypeOK
  BY Zenon DEF Init, FlagTypeOK
<1>3. TypeOK
  BY <1>1, <1>2 DEF TypeOK, UnitTypeOK, LocalTypeOK, FlagTypeOK
<1> QED
  BY <1>3 DEF Init, TickerInit, IInv, MirrorBehind, NeverOvercounts, TickInHand,
              SteadyTickIsExact

\* The counter and its mirror. A restart adds one to NRestarts, a start by an operator resets it, a read
\* brings the mirror up to it; no other step touches either.
LEMMA NextCounts == IInv /\ [Next]_vars => MirrorBehind' /\ NeverOvercounts'
<1> SUFFICES ASSUME IInv, [Next]_vars PROVE MirrorBehind' /\ NeverOvercounts'
  OBVIOUS
<1>1. TypeOK'
  BY NextTypes DEF IInv
<1> USE <1>1 DEF IInv, TypeOK, MirrorBehind, NeverOvercounts
<1>2. CASE UNCHANGED <<nRestarts, restarts, resets, lastNRestart, restartTotal>>
  BY <1>2
<1>3. CASE Start
  BY <1>3 DEF Start, StartUnit, Exporter, local, series
<1>4. CASE Restart
  BY <1>4 DEF Restart, StartUnit, Exporter, local, series
<1>5. CASE ReadNRestarts
  <2>1. UNCHANGED <<nRestarts, restarts, resets>>
    BY <1>5 DEF ReadNRestarts, unit
  <2>2. CASE UNCHANGED <<restartTotal, lastNRestart>>
    BY <1>2, <2>1, <2>2
  <2>3. CASE /\ lastNRestart' = nRestarts
             /\ restartTotal' = restartTotal +
                  (IF nRestarts > lastNRestart THEN nRestarts - lastNRestart ELSE 0)
    <3>1. MirrorBehind'
      BY <2>1, <2>3
    <3>2. restartTotal' <= restarts
      BY <2>1, <2>3
    <3>3. resets = 0 => restartTotal' = nRestarts
      BY <2>1, <2>3
    <3> QED
      BY <2>1, <2>3, <3>1, <3>2, <3>3
  <2> QED
    BY <1>5, <2>2, <2>3 DEF ReadNRestarts
<1>6. CASE Spawn \/ UnitFails \/ \E c \in Pids : ChildExits(c)
  BY <1>2, <1>6 DEF Spawn, UnitFails, ChildExits, Exporter, local, series
<1>7. CASE Begin \/ ReadActive \/ ReadMainPID \/ CountChildren \/ End \/ Stop
  BY <1>2, <1>7
     DEF Begin, ReadActive, ReadMainPID, CountChildren, End, Stop, unit, local, series
<1>8. CASE UNCHANGED vars
  BY <1>2, <1>8 DEF vars, unit, local, series
<1> QED
  BY <1>3, <1>4, <1>5, <1>6, <1>7, <1>8 DEF Next, Unit, Tick

\* A change of the unit leaves the tick's errors alone and ends its steadiness.
LEMMA UnitTick == IInv /\ Unit => TickInHand' /\ SteadyTickIsExact'
<1> SUFFICES ASSUME IInv, Unit PROVE TickInHand' /\ SteadyTickIsExact'
  OBVIOUS
<1>1. UNCHANGED Exporter /\ steady' = FALSE
  BY DEF Unit, Start, Restart, StartUnit, Spawn, UnitFails, ChildExits
<1>2. /\ UNCHANGED <<phase, firstKind, failed>>
      /\ ~steady'
  BY <1>1, Zenon DEF Exporter, tickerVars, local
<1>3. SteadyTickIsExact'
  BY <1>2, Zenon DEF SteadyTickIsExact
<1> QED
  BY <1>2, <1>3, Zenon DEF IInv, TickInHand

\* The first error of a tick is kept, and its kind is no NoError.
LEMMA Errors ==
    ASSUME TypeOK, NEW kind \in Kinds, Fails(kind)
    PROVE  failed' /\ firstKind' # NoError
<1>1. failed'
  BY Zenon DEF Fails
<1>2. firstKind' # NoError
  BY DEF Fails, First
<1> QED
  BY <1>1, <1>2

\* A read keeps the flag and the error kind together.
LEMMA ErrorsKept ==
    ASSUME TypeOK, TickInHand, phase = "busy", Succeeds \/ Fails("api") \/ Fails("io")
    PROVE  failed' <=> (firstKind' # NoError)
<1>1. CASE Succeeds
  <2>1. firstKind' = firstKind /\ failed' = failed
    BY <1>1, Zenon DEF Succeeds
  <2> QED
    BY <2>1, Zenon DEF TickInHand
<1>2. CASE Fails("api") \/ Fails("io")
  <2>1. "api" \in Kinds /\ "io" \in Kinds
    OBVIOUS
  <2> QED
    BY <1>2, <2>1, Errors, Zenon
<1> QED
  BY <1>1, <1>2

\* Each read keeps what is known of the reads before it and adds its own fact:
\* in a steady tick it reads what the unit still is.
LEMMA NextTick == IInv /\ [Next]_vars => TickInHand' /\ SteadyTickIsExact'
<1> SUFFICES ASSUME IInv, [Next]_vars PROVE TickInHand' /\ SteadyTickIsExact'
  OBVIOUS
<1>0. TypeOK /\ TypeOK' /\ TickInHand /\ SteadyTickIsExact
  BY NextTypes, Zenon DEF IInv, TickInHand
<1>1. CASE Unit
  BY <1>1, UnitTick
<1>2. CASE Begin
  <2>1. step' = "active" /\ firstKind' = NoError /\ ~failed'
    BY <1>2, Zenon DEF Begin
  <2>2. ReadsHold' /\ SteadyTickIsExact'
    BY <2>1 DEF ReadsHold, SteadyTickIsExact
  <2> QED
    BY <2>1, <2>2, Zenon DEF TickInHand
<1>3. CASE ReadActive
  <2>1. /\ phase = "busy" /\ step = "active" /\ step' = "main"
        /\ UNCHANGED <<phase, steady, mainPid>>
    BY <1>3, Zenon DEF ReadActive, tickerVars, unit
  <2>2. \/ Succeeds /\ up' = Running
        \/ Fails("api") /\ up' = 0
    BY <1>3 DEF ReadActive, Running
  <2>3. failed' <=> (firstKind' # NoError)
    BY <1>0, <2>1, <2>2, ErrorsKept, Zenon
  <2>4. up' <= Running' /\ (failed' \/ up' = Running')
    <3>1. Running' = Running /\ Running \in {0, 1}
      BY <2>1 DEF Running
    <3>2. failed' \/ up' = Running
      BY <1>0, <2>2, Errors, Zenon DEF Kinds
    <3>3. up' <= Running
      BY <2>2, <3>1
    <3> QED
      BY <3>1, <3>2, <3>3
  <2>5. ReadsHold' /\ SteadyTickIsExact'
    BY <2>1, <2>4 DEF ReadsHold, SteadyTickIsExact
  <2> QED
    BY <2>3, <2>5, Zenon DEF TickInHand
<1>4. CASE ReadMainPID
  <2>1. /\ phase = "busy" /\ step = "main" /\ step' = "restarts"
        /\ UNCHANGED <<phase, steady, mainPid, up>>
    BY <1>4, Zenon DEF ReadMainPID, tickerVars, unit, series
  <2>2. \/ Succeeds /\ pid' = mainPid
        \/ Fails("api") /\ pid' = NoPid
    BY <1>4 DEF ReadMainPID
  <2>3. failed' <=> (firstKind' # NoError)
    BY <1>0, <2>1, <2>2, ErrorsKept, Zenon
  <2>4. pid' = mainPid \/ (pid' = NoPid /\ failed')
    BY <1>0, <2>2, Errors, Zenon DEF Kinds
  <2>5. failed => failed'
    BY <2>2, Zenon DEF Succeeds, Fails
  <2>6. steady' => ReadsHold'
    BY <1>0, <2>1, <2>4, <2>5 DEF TickInHand, ReadsHold, Running
  <2>7. SteadyTickIsExact'
    BY <2>1 DEF SteadyTickIsExact
  <2> QED
    BY <2>3, <2>6, <2>7, Zenon DEF TickInHand
<1>5. CASE ReadNRestarts
  <2>1. /\ phase = "busy" /\ step = "restarts" /\ step' = "children"
        /\ UNCHANGED <<phase, steady, mainPid, nRestarts, up, pid>>
    BY <1>5, Zenon DEF ReadNRestarts, tickerVars, unit
  <2>2. \/ Succeeds /\ lastNRestart' = nRestarts
        \/ Fails("api") /\ UNCHANGED lastNRestart
    BY <1>5 DEF ReadNRestarts
  <2>3. failed' <=> (firstKind' # NoError)
    BY <1>0, <2>1, <2>2, ErrorsKept, Zenon
  <2>4. failed' \/ lastNRestart' = nRestarts'
    BY <1>0, <2>1, <2>2, Errors, Zenon DEF Kinds
  <2>5. failed => failed'
    BY <2>2, Zenon DEF Succeeds, Fails
  <2>6. steady' => ReadsHold'
    BY <1>0, <2>1, <2>4, <2>5 DEF TickInHand, ReadsHold, Running
  <2>7. SteadyTickIsExact'
    BY <2>1 DEF SteadyTickIsExact
  <2> QED
    BY <2>3, <2>6, <2>7, Zenon DEF TickInHand
<1>6. CASE CountChildren
  <2>1. /\ phase = "busy" /\ step = "children" /\ step' = "end"
        /\ UNCHANGED <<phase, steady, mainPid, parent, nRestarts, lastNRestart, up, pid>>
    BY <1>6, Zenon DEF CountChildren, tickerVars, unit
  <2>2. \/ /\ Succeeds
           /\ pid = NoPid => childCount' = 0
           /\ pid # NoPid => /\ childCount' <= Cardinality(ChildrenOf(pid))
                             /\ skipped' \/ childCount' = Cardinality(ChildrenOf(pid))
        \/ Fails("io") /\ childCount' = 0
    BY <1>0, <1>6, ScanCount DEF CountChildren
  <2>3. failed' <=> (firstKind' # NoError)
    BY <1>0, <2>1, <2>2, ErrorsKept, Zenon
  <2>4. failed => failed'
    BY <2>2, Zenon DEF Succeeds, Fails
  <2>6. steady => ReadsHold
    BY <1>0, <2>1, Zenon DEF TickInHand
  <2>7. steady' => ReadsHold'
    BY <2>1, <2>4, <2>6 DEF ReadsHold, Running
  <2>8. SteadyTickIsExact'
    <3> SUFFICES ASSUME steady PROVE SteadyTickIsExact'
      BY <2>1, Zenon DEF SteadyTickIsExact
    <3> DEFINE truth == IF mainPid = NoPid THEN 0 ELSE Cardinality(ChildrenOf(mainPid))
    <3>1. truth' = truth /\ Running' = Running
      BY <2>1 DEF ChildrenOf, Running
    <3>2. truth \in Nat
      BY ChildCount, {} \in SUBSET ChildrenOf(mainPid)
    <3>3. /\ up <= Running /\ (failed \/ up = Running)
          /\ pid = mainPid \/ (pid = NoPid /\ failed)
          /\ failed \/ lastNRestart = nRestarts
      BY <2>1, <2>6 DEF ReadsHold
    <3>4. childCount' <= truth
      BY <2>2, <3>2, <3>3
    <3>5. failed' \/ (up = Running /\ lastNRestart = nRestarts)
      BY <1>0, <3>3, <2>4
    <3>6. failed' \/ skipped' \/ childCount' = truth
      BY <1>0, <2>2, <2>4, <3>3, Errors DEF Kinds
    <3> HIDE DEF truth
    <3>7. /\ childCount' <= truth' /\ up' <= Running'
          /\ failed' \/ (up' = Running' /\ lastNRestart' = nRestarts')
          /\ failed' \/ skipped' \/ childCount' = truth'
      BY <2>1, <3>1, <3>3, <3>4, <3>5, <3>6
    <3> QED
      BY <3>7, Zenon DEF SteadyTickIsExact, truth
  <2> QED
    BY <2>3, <2>7, <2>8, Zenon DEF TickInHand
<1>7. CASE End \/ Return
  <2>1. phase' # "busy"
    BY <1>7 DEF End, EndTick, Return
  <2> QED
    BY <2>1 DEF TickInHand, SteadyTickIsExact
<1>8. CASE (CancelTicker /\ UNCHANGED <<unit, local, series, steady, failed, skipped>>) \/ UNCHANGED vars
  <2>1. UNCHANGED <<phase, unit, local, series, steady, failed, skipped>>
    BY <1>8, Zenon DEF CancelTicker, vars, tickerVars
  <2>2. ReadsHold' = ReadsHold
    BY <2>1 DEF ReadsHold, Running, unit, local, series
  <2>3. TickInHand'
    BY <1>0, <2>1, <2>2, Zenon DEF TickInHand, local
  <2>4. SteadyTickIsExact'
    BY <1>0, <2>1 DEF SteadyTickIsExact, ChildrenOf, Running, unit, local, series
  <2> QED
    BY <2>3, <2>4
<1> QED
  BY <1>1, <1>2, <1>3, <1>4, <1>5, <1>6, <1>7, <1>8, Zenon DEF Next, Tick, Stop

\* Every step keeps the invariant.
LEMMA NextInv == IInv /\ [Next]_vars => IInv'
  BY NextTypes, NextCounts, NextTick, Zenon DEF IInv

(***************************************************************************)
(* Every state of the collector and of the unit it watches satisfies the   *)
(* inductive invariant: in particular the counter never gets a negative    *)
(* Add, and child_count never exceeds the processes there are.             *)
(***************************************************************************)
THEOREM ServiceInvariant == Spec => []IInv
  BY InitInv, NextInv, PTL DEF Spec

(***************************************************************************)
(* service_restart_total never runs ahead of systemd: for any interleaving *)
(* of restarts, resets, failed reads and ticks, no restart is counted      *)
(* twice and none is made up.                                              *)
(***************************************************************************)
THEOREM RestartsNotOvercounted == Spec => []NeverOvercounts
<1>1. IInv => NeverOvercounts
  BY DEF IInv
<1> QED
  BY <1>1, ServiceInvariant, PTL

(***************************************************************************)
(* Whatever the unit does between two reads, a tick whose reads all        *)
(* succeeded and that saw no change leaves the series telling the unit as  *)
(* it is, and neither a failed read nor a child that cannot be read makes  *)
(* them claim more.                                                        *)
(***************************************************************************)
THEOREM SteadyTicksAreExact == Spec => []SteadyTickIsExact
<1>1. IInv => SteadyTickIsExact
  BY Zenon DEF IInv
<1> QED
  BY <1>1, ServiceInvariant, PTL

(***************************************************************************)
(* The error counters grow by the end of a tick exactly when one of its    *)
(* reads failed: a later success does not hide it, a later error of        *)
(* another kind does not add a second, and a child skipped adds none.      *)
(***************************************************************************)
THEOREM ErrorsCounted == Spec => ErrorsMatchFailures
<1>1. IInv /\ [Next]_vars
        => [phase = "busy" /\ phase' = "select" => (errors' # errors <=> failed)]_vars
  <2> SUFFICES ASSUME IInv, Next, phase = "busy", phase' = "select"
               PROVE  errors' # errors <=> failed
    BY Zenon
  <2>1. EndTick(firstKind)
    <3>1. ~(Unit \/ Begin \/ ReadActive \/ ReadMainPID \/ ReadNRestarts \/ CountChildren)
      BY DEF Unit, Start, Restart, StartUnit, Spawn, UnitFails, ChildExits, Exporter, Begin,
             BeginTick, ReadActive, ReadMainPID, ReadNRestarts, CountChildren, tickerVars
    <3>2. ~Stop
      BY DEF Stop, Return, CancelTicker
    <3> QED
      BY <3>1, <3>2, Zenon DEF Next, Tick, End
  <2>2. failed <=> (firstKind # NoError)
    BY Zenon DEF IInv, TickInHand
  <2>3. /\ firstKind \in Kinds \cup {NoError}
        /\ errors \in [Kinds -> Nat]
    BY DEF IInv, TypeOK, TickerTypeOK
  <2>4. CASE firstKind = NoError
    <3>1. errors' = errors
      BY <2>1, <2>3, <2>4 DEF EndTick
    <3> QED
      BY <2>2, <2>4, <3>1, Zenon
  <2>5. CASE firstKind # NoError
    <3>1. errors'[firstKind] # errors[firstKind]
      BY <2>1, <2>3, <2>5 DEF EndTick
    <3> QED
      BY <2>2, <2>5, <3>1, Zenon
  <2> QED
    BY <2>4, <2>5
<1> QED
  BY <1>1, ServiceInvariant, PTL DEF Spec, ErrorsMatchFailures
=============================================================================
