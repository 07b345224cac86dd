------------------------------ MODULE RunTicker ------------------------------
(***************************************************************************)
(* The loop every polling collector runs in (RunTicker in                  *)
(* internal/collectors/base.go): its tick at once, then one per interval   *)
(* until the context is cancelled, counting the ticks that fail by the     *)
(* kind of error they return.                                              *)
(***************************************************************************)
EXTENDS Integers

CONSTANT MaxTicks   \* bound: ticks started

Kinds == {"timeout", "api", "parse", "io"}

\* A tick that returns no error.
NoError == "none"

ASSUME RunTickerAssumption == MaxTicks \in Nat \ {0}

VARIABLES
    phase,      \* "start", "busy" (inside the tick), "select", "returned"
    cancelled,  \* the context is done
    ticks,      \* ticks started
    errors      \* kind -> CollectionErrors of this collector

tickerVars == <<phase, cancelled, ticks, errors>>

TickerTypeOK ==
    /\ phase \in {"start", "busy", "select", "returned"}
    /\ cancelled \in BOOLEAN
    /\ ticks \in 0 .. MaxTicks
    /\ errors \in [Kinds -> Nat]

TickerInit ==
    /\ phase = "start"
    /\ cancelled = FALSE
    /\ ticks = 0
    /\ errors = [k \in Kinds |-> 0]

\* The first tick does not look at the context; a later one may still win
\* the select after the context is cancelled.
BeginTick ==
    /\ phase \in {"start", "select"}
    /\ ticks < MaxTicks
    /\ ticks' = ticks + 1
    /\ phase' = "busy"
    /\ UNCHANGED <<cancelled, errors>>

EndTick(kind) ==
    /\ phase = "busy"
    /\ phase' = "select"
    /\ errors' = IF kind = NoError THEN errors
                 ELSE [errors EXCEPT ![kind] = @ + 1]
    /\ UNCHANGED <<cancelled, ticks>>

Return ==
    /\ phase = "select"
    /\ cancelled
    /\ phase' = "returned"
    /\ UNCHANGED <<cancelled, ticks, errors>>

CancelTicker ==
    /\ ~cancelled
    /\ cancelled' = TRUE
    /\ UNCHANGED <<phase, ticks, errors>>
=============================================================================
