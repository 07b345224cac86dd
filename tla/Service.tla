------------------------------- MODULE Service -------------------------------
(***************************************************************************)
(* The service collector (internal/collectors/service.go) watching         *)
(* validator-publisher.service: three D-Bus calls and a scan of /proc per  *)
(* tick, one after the other, while systemd restarts the unit and its main *)
(* process spawns and loses children.  The unit (internal/systemd) and the *)
(* process table (internal/procs) change between any two of those reads.   *)
(***************************************************************************)
EXTENDS RunTicker, FiniteSets

CONSTANTS
    NPids,        \* bound: processes ever started
    MaxRestarts,  \* bound: automatic restarts
    MaxResets,    \* bound: times systemd resets NRestarts
    Faulty        \* whether a read may fail: a D-Bus call, the scan, one process

ASSUME ServiceAssumption ==
    /\ NPids \in Nat \ {0}
    /\ MaxRestarts \in Nat /\ MaxResets \in Nat
    /\ Faulty \in BOOLEAN

Pids == 1 .. NPids
NoPid == 0

VARIABLES
    mainPid,      \* the unit's MainPID, NoPid when it is not active
    parent,       \* pid -> the parent of a live process, NoPid for the others
    pids,         \* pids used
    nRestarts,    \* the unit's NRestarts
    restarts,     \* history: automatic restarts since the unit was loaded
    resets,       \* history: resets of NRestarts
    step,         \* the read of the tick that comes next
    pid,          \* the MainPID the tick has read
    firstKind,    \* the first error of the tick
    lastNRestart, \* mirror of NRestarts
    up, childCount, restartTotal,   \* the three series
    steady,       \* history: neither the unit nor its processes have changed
                  \* since the tick began
    failed,       \* history: a read of this tick failed
    skipped       \* history: its scan left a child out

unit == <<mainPid, parent, pids, nRestarts, restarts, resets>>
local == <<step, pid, firstKind, lastNRestart>>
series == <<up, childCount, restartTotal>>
vars == <<tickerVars, unit, local, series, steady, failed, skipped>>

Steps == {"active", "main", "restarts", "children", "end"}

TypeOK ==
    /\ TickerTypeOK
    /\ mainPid \in Pids \cup {NoPid}
    /\ parent \in [Pids -> Pids \cup {NoPid}]
    /\ pids \in 0 .. NPids
    /\ nRestarts \in Nat /\ restarts \in 0 .. MaxRestarts
    /\ resets \in 0 .. MaxResets
    /\ step \in Steps
    /\ pid \in Pids \cup {NoPid}
    /\ firstKind \in Kinds \cup {NoError}
    /\ lastNRestart \in Nat
    /\ up \in {0, 1} /\ childCount \in 0 .. NPids /\ restartTotal \in Nat
    /\ steady \in BOOLEAN /\ failed \in BOOLEAN /\ skipped \in BOOLEAN

Init ==
    /\ TickerInit
    /\ mainPid = NoPid /\ parent = [p \in Pids |-> NoPid] /\ pids = 0
    /\ nRestarts = 0 /\ restarts = 0 /\ resets = 0
    /\ step = "active" /\ pid = NoPid /\ firstKind = NoError /\ lastNRestart = 0
    /\ up = 0 /\ childCount = 0 /\ restartTotal = 0
    /\ steady = FALSE /\ failed = FALSE /\ skipped = FALSE

ChildrenOf(p) == {c \in Pids : parent[c] = p}

-----------------------------------------------------------------------------
(* The unit.                                                               *)

Exporter == <<tickerVars, local, series, failed, skipped>>

StartUnit ==
    /\ mainPid = NoPid
    /\ pids < NPids
    /\ pids' = pids + 1
    /\ mainPid' = pids + 1
    /\ steady' = FALSE
    /\ UNCHANGED <<parent, Exporter>>

\* An operator starts the unit: NRestarts begins again at 0.
Start ==
    /\ resets < MaxResets
    /\ StartUnit
    /\ nRestarts' = 0
    /\ resets' = resets + (IF nRestarts = 0 THEN 0 ELSE 1)
    /\ UNCHANGED restarts

\* systemd restarts it after a failure.
Restart ==
    /\ restarts < MaxRestarts
    /\ StartUnit
    /\ nRestarts' = nRestarts + 1
    /\ restarts' = restarts + 1
    /\ UNCHANGED resets

Spawn ==
    /\ mainPid # NoPid
    /\ pids < NPids
    /\ pids' = pids + 1
    /\ parent' = [parent EXCEPT ![pids + 1] = mainPid]
    /\ steady' = FALSE
    /\ UNCHANGED <<mainPid, nRestarts, restarts, resets, Exporter>>

ChildExits(c) ==
    /\ parent[c] # NoPid
    /\ parent' = [parent EXCEPT ![c] = NoPid]
    /\ steady' = FALSE
    /\ UNCHANGED <<mainPid, pids, nRestarts, restarts, resets, Exporter>>

\* The main process dies and its control group with it.
UnitFails ==
    /\ mainPid # NoPid
    /\ mainPid' = NoPid
    /\ parent' = [p \in Pids |-> NoPid]
    /\ steady' = FALSE
    /\ UNCHANGED <<pids, nRestarts, restarts, resets, Exporter>>

Unit == Start \/ Restart \/ Spawn \/ UnitFails \/ \E c \in Pids : ChildExits(c)

-----------------------------------------------------------------------------
(* The tick.                                                               *)

First(kind) == firstKind' = IF firstKind = NoError THEN kind ELSE firstKind

Fails(kind) ==
    /\ Faulty
    /\ First(kind)
    /\ failed' = TRUE

Succeeds == UNCHANGED <<firstKind, failed>>

Begin ==
    /\ BeginTick
    /\ step' = "active"
    /\ firstKind' = NoError
    /\ steady' = TRUE /\ failed' = FALSE /\ skipped' = FALSE
    /\ UNCHANGED <<unit, pid, lastNRestart, series>>

ReadActive ==
    /\ phase = "busy" /\ step = "active"
    /\ \/ Succeeds /\ up' = IF mainPid # NoPid THEN 1 ELSE 0
       \/ Fails("api") /\ up' = 0
    /\ step' = "main"
    /\ UNCHANGED <<tickerVars, unit, pid, lastNRestart, childCount, restartTotal, steady, skipped>>

\* Mutant of ReadMainPID: its error is not recorded.
ReadMainPIDSilently ==
    /\ phase = "busy" /\ step = "main"
    /\ \/ Succeeds /\ pid' = mainPid
       \/ Faulty /\ failed' = TRUE /\ pid' = NoPid /\ UNCHANGED firstKind
    /\ step' = "restarts"
    /\ UNCHANGED <<tickerVars, unit, lastNRestart, series, steady, skipped>>

ReadMainPID ==
    /\ phase = "busy" /\ step = "main"
    /\ \/ Succeeds /\ pid' = mainPid
       \/ Fails("api") /\ pid' = NoPid
    /\ step' = "restarts"
    /\ UNCHANGED <<tickerVars, unit, lastNRestart, series, steady, skipped>>

\* Mutant of ReadNRestarts: a failed read counts as NRestarts = 0.
ReadNRestartsAsZero ==
    /\ phase = "busy" /\ step = "restarts"
    /\ \/ /\ Succeeds
          /\ restartTotal' = restartTotal +
                (IF nRestarts > lastNRestart THEN nRestarts - lastNRestart ELSE 0)
          /\ lastNRestart' = nRestarts
       \/ /\ Fails("api")
          /\ lastNRestart' = 0
          /\ UNCHANGED restartTotal
    /\ step' = "children"
    /\ UNCHANGED <<tickerVars, unit, pid, up, childCount, steady, skipped>>

\* Mutant of ReadNRestarts: NRestarts itself is added, not its rise.
ReadNRestartsWhole ==
    /\ phase = "busy" /\ step = "restarts"
    /\ Succeeds
    /\ restartTotal' = restartTotal + nRestarts
    /\ lastNRestart' = nRestarts
    /\ step' = "children"
    /\ UNCHANGED <<tickerVars, unit, pid, up, childCount, steady, skipped>>

\* The mirror follows NRestarts both ways; only a rise is counted.
ReadNRestarts ==
    /\ phase = "busy" /\ step = "restarts"
    /\ \/ /\ Succeeds
          /\ restartTotal' = restartTotal +
                (IF nRestarts > lastNRestart THEN nRestarts - lastNRestart ELSE 0)
          /\ lastNRestart' = nRestarts
       \/ /\ Fails("api")
          /\ UNCHANGED <<restartTotal, lastNRestart>>
    /\ step' = "children"
    /\ UNCHANGED <<tickerVars, unit, pid, up, childCount, steady, skipped>>

Counted == IF pid = NoPid THEN {} ELSE ChildrenOf(pid)

\* Mutant of CountChildren: the scan runs for MainPID 0 too.
CountChildrenOfAnyPid ==
    /\ phase = "busy" /\ step = "children"
    /\ Succeeds
    /\ childCount' = Cardinality(ChildrenOf(pid))
    /\ step' = "end"
    /\ UNCHANGED <<tickerVars, unit, pid, lastNRestart, up, restartTotal, steady, skipped>>

\* The scan sees a process that starts or ends meanwhile, or does not: the
\* count is that of the moment it is taken as one.  It skips, without an
\* error, a process whose stat it cannot read or parse.
CountChildren ==
    /\ phase = "busy" /\ step = "children"
    /\ \/ \E unread \in SUBSET Counted :
             /\ unread # {} => Faulty
             /\ Succeeds
             /\ childCount' = Cardinality(Counted \ unread)
             /\ skipped' = (unread # {})
       \/ /\ pid # NoPid
          /\ Fails("io")
          /\ childCount' = 0
          /\ UNCHANGED skipped
    /\ step' = "end"
    /\ UNCHANGED <<tickerVars, unit, pid, lastNRestart, up, restartTotal, steady>>

End ==
    /\ step = "end"
    /\ EndTick(firstKind)
    /\ UNCHANGED <<unit, local, series, steady, failed, skipped>>

Stop ==
    /\ Return \/ CancelTicker
    /\ UNCHANGED <<unit, local, series, steady, failed, skipped>>

Tick == ReadActive \/ ReadMainPID \/ ReadNRestarts \/ CountChildren \/ End

Next == Unit \/ Begin \/ Tick \/ Stop

Spec == Init /\ [][Next]_vars

-----------------------------------------------------------------------------
(***************************************************************************)
(* The counter never runs ahead of systemd: whatever the interleaving of   *)
(* restarts, resets and failed reads, it has counted a restart at most     *)
(* once, and none that did not happen.                                     *)
(***************************************************************************)
NeverOvercounts ==
    /\ restartTotal + (IF nRestarts > lastNRestart THEN nRestarts - lastNRestart ELSE 0)
          <= restarts
    /\ resets = 0 => restartTotal = lastNRestart

\* Until systemd resets NRestarts the mirror is never ahead of it; with the
\* types this makes NeverOvercounts inductive.
MirrorBehind == resets = 0 => lastNRestart <= nRestarts

\* What service_up should say of the unit.
Running == IF mainPid = NoPid THEN 0 ELSE 1

(***************************************************************************)
(* If neither the unit nor its processes changed during a tick whose reads *)
(* all succeeded, the series describe the unit as it was then; and a tick  *)
(* that could not read part of it, or one of the children, never claims    *)
(* more than there is.                                                     *)
(***************************************************************************)
SteadyTickIsExact ==
    (phase = "busy" /\ step = "end" /\ steady) =>
        LET truth == IF mainPid = NoPid THEN 0 ELSE Cardinality(ChildrenOf(mainPid))
        IN  /\ childCount <= truth /\ up <= Running
            /\ failed \/ (up = Running /\ lastNRestart = nRestarts)
            /\ failed \/ skipped \/ childCount = truth

\* What the reads made so far have left in a tick that saw no change.
ReadsHold ==
    /\ step # "active" => up <= Running /\ (failed \/ up = Running)
    /\ step \notin {"active", "main"} => pid = mainPid \/ (pid = NoPid /\ failed)
    /\ step \in {"children", "end"} => failed \/ lastNRestart = nRestarts

TickInHand ==
    phase = "busy" =>
        /\ failed <=> (firstKind # NoError)
        /\ steady => ReadsHold

IInv == TypeOK /\ MirrorBehind /\ NeverOvercounts /\ TickInHand /\ SteadyTickIsExact

(***************************************************************************)
(* A tick adds one to the error counter if and only if one of its reads    *)
(* failed; a child that the scan has skipped is not one of them.           *)
(***************************************************************************)
ErrorsMatchFailures ==
    [][phase = "busy" /\ phase' = "select" => (errors' # errors <=> failed)]_vars
=============================================================================
