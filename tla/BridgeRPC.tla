------------------------------ MODULE BridgeRPC ------------------------------
(***************************************************************************)
(* The bridge RPC collector (internal/collectors/bridge_rpc.go): every     *)
(* tick starts one goroutine per configured endpoint, a bounded number at  *)
(* a time, waits for all of them, and returns the first error.  The probe  *)
(* itself (internal/rpc) answers, refuses, or is ended by its timeout or   *)
(* by the cancelled context.                                               *)
(***************************************************************************)
EXTENDS RunTicker, FiniteSets

CONSTANTS
    N,          \* endpoints, in the order of VPUB_BRIDGE_RPC_NAMES
    HasURL,     \* those that have a URL
    Parallel,   \* slots of the semaphore (3)
    Outcomes    \* bound: the statuses probes end with, a subset of Statuses

Names == 1 .. N

Statuses == {"ok", "fail", "timeout", "auth_error"}

ASSUME BridgeRPCAssumption ==
    /\ N \in Nat
    /\ HasURL \subseteq Names
    /\ Parallel \in Nat \ {0}
    /\ Outcomes \subseteq Statuses

VARIABLES
    next,       \* the endpoint the loop is at; N + 1: in wg.Wait
    slots,      \* slots taken
    probe,      \* endpoint -> where its goroutine is
    status,     \* endpoint -> what its probe returned
    firstErr,   \* kind of the first error of the tick
    up,         \* endpoint -> gauge
    check       \* endpoint -> status -> counter

probeVars == <<next, slots, probe, status, firstErr>>
vars == <<tickerVars, probeVars, up, check>>

TypeOK ==
    /\ TickerTypeOK
    /\ next \in 1 .. N + 1
    /\ slots \in 0 .. Parallel
    /\ probe \in [Names -> {"none", "running", "answered", "counted", "leaving", "released"}]
    /\ status \in [Names -> Statuses]
    /\ firstErr \in Kinds \cup {NoError}
    /\ up \in [Names -> {0, 1}]
    /\ check \in [Names -> [Statuses -> Nat]]

Init ==
    /\ TickerInit
    /\ next = 1 /\ slots = 0
    /\ probe = [n \in Names |-> "none"]
    /\ status = [n \in Names |-> "ok"]
    /\ firstErr = NoError
    /\ up = [n \in Names |-> 0]
    /\ check = [n \in Names |-> [s \in Statuses |-> 0]]

-----------------------------------------------------------------------------
(* The tick: the loop over the endpoints, then wg.Wait.                    *)

\* Mutant of Begin: the first error of the last tick is kept.
BeginKeepsError ==
    /\ BeginTick
    /\ next' = 1
    /\ slots' = 0
    /\ UNCHANGED <<probe, status, firstErr, up, check>>

Begin ==
    /\ BeginTick
    /\ next' = 1
    /\ firstErr' = NoError
    /\ slots' = 0
    /\ UNCHANGED <<probe, status, up, check>>

Skip ==
    /\ phase = "busy" /\ next \in Names \ HasURL
    /\ next' = next + 1
    /\ UNCHANGED <<tickerVars, slots, probe, status, firstErr, up, check>>

\* Mutant of Start: no semaphore.
StartUnbounded ==
    /\ phase = "busy" /\ next \in HasURL
    /\ slots' = slots + 1
    /\ probe' = [probe EXCEPT ![next] = "running"]
    /\ next' = next + 1
    /\ UNCHANGED <<tickerVars, status, firstErr, up, check>>

\* Taking a slot blocks while all of them are taken.
Start ==
    /\ phase = "busy" /\ next \in HasURL
    /\ slots < Parallel
    /\ slots' = slots + 1
    /\ probe' = [probe EXCEPT ![next] = "running"]
    /\ next' = next + 1
    /\ UNCHANGED <<tickerVars, status, firstErr, up, check>>

\* Mutant of Finish: no wg.Wait.
FinishEarly ==
    /\ next = N + 1
    /\ EndTick(firstErr)
    /\ UNCHANGED <<probeVars, up, check>>

Finish ==
    /\ next = N + 1
    /\ \A n \in Names : probe[n] = "none"
    /\ EndTick(firstErr)
    /\ UNCHANGED <<probeVars, up, check>>

-----------------------------------------------------------------------------
(* One probe's goroutine.                                                  *)

\* Mutant of Answer: a failed check leaves the gauge at 1.
AnswerKeepsUp(n) ==
    /\ probe[n] = "running"
    /\ \E s \in Outcomes :
          /\ status' = [status EXCEPT ![n] = s]
          /\ up' = [up EXCEPT ![n] = IF s = "ok" THEN 1 ELSE @]
    /\ probe' = [probe EXCEPT ![n] = "answered"]
    /\ UNCHANGED <<tickerVars, next, slots, firstErr, check>>

\* Timeout and cancellation are reported alike.
Answer(n) ==
    /\ probe[n] = "running"
    /\ \E s \in Outcomes :
          /\ status' = [status EXCEPT ![n] = s]
          /\ up' = [up EXCEPT ![n] = IF s = "ok" THEN 1 ELSE 0]
    /\ probe' = [probe EXCEPT ![n] = "answered"]
    /\ UNCHANGED <<tickerVars, next, slots, firstErr, check>>

Count(n) ==
    /\ probe[n] = "answered"
    /\ check' = [check EXCEPT ![n][status[n]] = @ + 1]
    /\ probe' = [probe EXCEPT ![n] = IF status[n] = "ok" THEN "leaving" ELSE "counted"]
    /\ UNCHANGED <<tickerVars, next, slots, status, firstErr, up>>

\* Under mu: the first error stays.
Report(n) ==
    /\ probe[n] = "counted"
    /\ firstErr' = IF firstErr # NoError THEN firstErr
                   ELSE IF status[n] = "timeout" THEN "timeout" ELSE "api"
    /\ probe' = [probe EXCEPT ![n] = "leaving"]
    /\ UNCHANGED <<tickerVars, next, slots, status, up, check>>

\* Mutant of Release: a failed probe returns without giving its slot back.
ReleaseOnlySuccess(n) ==
    /\ probe[n] = "leaving"
    /\ slots' = IF status[n] = "ok" THEN slots - 1 ELSE slots
    /\ probe' = [probe EXCEPT ![n] = "released"]
    /\ UNCHANGED <<tickerVars, next, status, firstErr, up, check>>

\* The deferred calls: the slot is given back, then wg.Done.
Release(n) ==
    /\ probe[n] = "leaving"
    /\ slots' = slots - 1
    /\ probe' = [probe EXCEPT ![n] = "released"]
    /\ UNCHANGED <<tickerVars, next, status, firstErr, up, check>>

\* Mutant of Done: a failed probe returns without wg.Done.
DoneOnlySuccess(n) ==
    /\ probe[n] = "released" /\ status[n] = "ok"
    /\ probe' = [probe EXCEPT ![n] = "none"]
    /\ UNCHANGED <<tickerVars, next, slots, status, firstErr, up, check>>

Done(n) ==
    /\ probe[n] = "released"
    /\ probe' = [probe EXCEPT ![n] = "none"]
    /\ UNCHANGED <<tickerVars, next, slots, status, firstErr, up, check>>

Probe(n) == Answer(n) \/ Count(n) \/ Report(n) \/ Release(n) \/ Done(n)

Tick == Skip \/ Start \/ Finish

Loop == (Return /\ UNCHANGED <<probeVars, up, check>>) \/ Begin

Cancel == CancelTicker /\ UNCHANGED <<probeVars, up, check>>

Next == Loop \/ Tick \/ Cancel \/ \E n \in Names : Probe(n)

Spec == Init /\ [][Next]_vars

\* Goroutines run; a probe ends by its timeout at the latest; the timer
\* fires; select does not pick the timer for ever once ctx is done.
FairSpec ==
    /\ Spec
    /\ WF_vars(Tick) /\ WF_vars(Loop) /\ SF_vars(Return /\ UNCHANGED <<probeVars, up, check>>)
    /\ \A n \in Names : WF_vars(Probe(n))

-----------------------------------------------------------------------------
Running == {n \in Names : probe[n] \in {"running", "answered", "counted", "leaving"}}

(***************************************************************************)
(* No more probes are under way than the semaphore allows, and none        *)
(* outlives the tick that started it: a slow endpoint cannot pile up       *)
(* probes over several ticks.                                              *)
(***************************************************************************)
Bounded ==
    /\ Cardinality(Running) = slots
    /\ slots <= Parallel
    /\ phase # "busy" => \A n \in Names : probe[n] = "none"

\* The checks of n counted so far.
Checks(n) ==
    check[n]["ok"] + check[n]["fail"] + check[n]["timeout"] + check[n]["auth_error"]

(***************************************************************************)
(* Between ticks every endpoint with a URL has been checked once per tick, *)
(* the others never, and its gauge agrees with its last check.             *)
(***************************************************************************)
CheckedOncePerTick ==
    phase \in {"select", "returned"} =>
        \A n \in Names :
            /\ Checks(n) = IF n \in HasURL THEN ticks ELSE 0
            /\ n \in HasURL => (up[n] = 1 <=> status[n] = "ok")

\* The kind of error a failed check is counted as.
KindOf(s) == IF s = "timeout" THEN "timeout" ELSE "api"

Failed == {n \in HasURL : status[n] # "ok"}

\* The kinds of error this step counts.
Added == {k \in Kinds : errors'[k] # errors[k]}

TickCounts ==
    phase = "busy" /\ phase' = "select" =>
        IF Failed = {} THEN Added = {}
        ELSE /\ Cardinality(Added) = 1
             /\ \A k \in Added : /\ errors'[k] = errors[k] + 1
                                 /\ \E n \in Failed : KindOf(status[n]) = k

(***************************************************************************)
(* A tick adds one to the error counter, of the kind of one of its failed  *)
(* checks, exactly when one of its checks failed.                          *)
(***************************************************************************)
ErrorPerFailedTick == [][TickCounts]_vars

\* This tick has not come to n yet, or waits for its answer, or has counted it
\* and given its error to the tick.
Ahead(n) == phase = "busy" /\ n >= next
Counted(n) == ~Ahead(n) /\ probe[n] \notin {"running", "answered"}
Settled(n) == ~Ahead(n) /\ probe[n] \in {"leaving", "released", "none"}

\* The loop has started no probe beyond the endpoint it is at, and none ever of
\* an endpoint without URL.
NotStarted == \A n \in Names : Ahead(n) \/ n \notin HasURL => probe[n] = "none"

\* The counter of an endpoint is behind the ticks by the check still to come.
CountsInHand ==
    \A n \in Names :
        Checks(n) = IF n \notin HasURL THEN 0 ELSE IF Counted(n) THEN ticks ELSE ticks - 1

\* From the first answer on the gauge is what the last answer made it.
GaugeInHand ==
    \A n \in HasURL :
        phase # "start" /\ ~Ahead(n) /\ probe[n] # "running" => (up[n] = 1 <=> status[n] = "ok")

\* The tick's first error is that of a probe that failed, and no failed probe
\* leaves without one.
ErrorInHand ==
    /\ \A n \in HasURL : probe[n] = "counted" => status[n] # "ok"
    /\ phase = "busy" =>
          /\ \A n \in HasURL : Settled(n) /\ status[n] # "ok" => firstErr # NoError
          /\ firstErr # NoError =>
                \E n \in HasURL : /\ Settled(n) /\ status[n] # "ok"
                                  /\ firstErr = KindOf(status[n])

(***************************************************************************)
(* What a tick in progress has done so far, in any order of its probes'    *)
(* steps: from it follow Bounded, CheckedOncePerTick and, at the tick's    *)
(* end, ErrorPerFailedTick.                                                *)
(***************************************************************************)
IInv == TypeOK /\ Bounded /\ NotStarted /\ CountsInHand /\ GaugeInHand /\ ErrorInHand

(***************************************************************************)
(* Every tick ends, however many endpoints hang, and after the context is  *)
(* cancelled the collector returns.                                        *)
(***************************************************************************)
TicksEnd == (phase = "busy") ~> (phase = "select")
Returns == cancelled ~> (phase = "returned")
=============================================================================
