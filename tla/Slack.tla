-------------------------------- MODULE Slack --------------------------------
(***************************************************************************)
(* The two Slack collectors (internal/collectors/slack_health.go and       *)
(* outcome_slack.go) and the client they share (internal/slackapi).  Each  *)
(* has a ticker of its own; the channel and the token change while a call  *)
(* is out, and a cancelled context ends a call that waits for its answer.  *)
(* Slack itself is external.                                               *)
(***************************************************************************)
EXTENDS Integers

CONSTANTS
    Page,       \* messages in one page of conversations.history (200)
    MaxMsgs,    \* bound: messages of the last 24 hours
    MaxChanges, \* bound: changes of the token and the channel
    MaxTicks    \* bound: ticks of both collectors together

ASSUME SlackAssumption ==
    /\ Page \in Nat /\ MaxMsgs \in Nat /\ MaxChanges \in Nat
    /\ MaxTicks \in Nat \ {0}

VARIABLES
    cancelled,  \* the context
    valid,      \* the token is good
    msgs,       \* messages of the last 24 hours in the channel
    changes,    \* changes of either
    healthPhase, healthTicks, healthErrors,
    authAnswer, \* what auth.test has returned, None while it is out
    ok,         \* slack_api_ok
    countPhase, countTicks, countErrors,
    pageAnswer, \* what conversations.history has returned, or NoAnswer
    lastVal, hasVal,
    msg24h,     \* outcome_slack_msg_24h
    okCause,    \* history: what the last tick took slack_api_ok from
    tokens,     \* history: what the token was during the tick
    counts,     \* history: the numbers of messages during the tick
    window      \* history: those of the last tick that succeeded

slack == <<valid, msgs, changes>>
healthVars == <<healthPhase, healthTicks, healthErrors, authAnswer, ok, okCause>>
countVars == <<countPhase, countTicks, countErrors, pageAnswer, lastVal, hasVal, msg24h, window>>
slackVars == <<cancelled, slack, healthVars, countVars, tokens, counts>>

Health == INSTANCE RunTicker WITH
    phase <- healthPhase, ticks <- healthTicks, errors <- healthErrors
Count == INSTANCE RunTicker WITH
    phase <- countPhase, ticks <- countTicks, errors <- countErrors

None == "none"
Messages == 0 .. MaxMsgs
Answers == [n : Messages, more : BOOLEAN]
NoAnswer == [n |-> -1, more |-> FALSE]

SlackTypeOK ==
    /\ Health!TickerTypeOK /\ Count!TickerTypeOK
    /\ valid \in BOOLEAN /\ msgs \in Messages /\ changes \in 0 .. MaxChanges
    /\ authAnswer \in {None, "ok", "not ok"} /\ ok \in {0, 1}
    /\ okCause \in {None, "answer", "failure", "stop"}
    /\ pageAnswer \in Answers \cup {NoAnswer}
    /\ lastVal \in Messages /\ hasVal \in BOOLEAN /\ msg24h \in Messages
    /\ tokens \in SUBSET BOOLEAN
    /\ counts \in SUBSET Messages /\ window \in SUBSET Messages

SlackInit ==
    /\ Health!TickerInit /\ Count!TickerInit
    /\ valid \in BOOLEAN /\ msgs \in Messages /\ changes = 0
    /\ authAnswer = None /\ ok = 0 /\ okCause = None
    /\ pageAnswer = NoAnswer /\ lastVal = 0 /\ hasVal = FALSE /\ msg24h = 0
    /\ tokens = {} /\ counts = {} /\ window = {0}

-----------------------------------------------------------------------------
(* The token is revoked or replaced; messages arrive and grow old.         *)

Change ==
    /\ changes < MaxChanges
    /\ changes' = changes + 1
    /\ \/ valid' = ~valid /\ UNCHANGED msgs
       \/ msgs' \in Messages \ {msgs} /\ UNCHANGED valid
    /\ tokens' = IF healthPhase = "busy" THEN tokens \cup {valid'} ELSE tokens
    /\ counts' = IF countPhase = "busy" THEN counts \cup {msgs'} ELSE counts
    /\ UNCHANGED <<cancelled, healthVars, countVars>>

-----------------------------------------------------------------------------
(* auth.test.                                                              *)

OthersOfHealth == UNCHANGED <<slack, countVars, counts>>

HealthBegin ==
    /\ healthTicks + countTicks < MaxTicks
    /\ Health!BeginTick
    /\ tokens' = {valid}
    /\ UNCHANGED <<authAnswer, ok, okCause>>
    /\ OthersOfHealth

\* Slack looks at the token, if the request leaves before the context ends.
AuthTest ==
    /\ healthPhase = "busy" /\ authAnswer = None
    /\ ~cancelled
    /\ authAnswer' = IF valid THEN "ok" ELSE "not ok"
    /\ UNCHANGED <<cancelled, healthPhase, healthTicks, healthErrors, ok, okCause, tokens>>
    /\ OthersOfHealth

\* The connection, the status, the body or the timeout; or ctx is done.
HealthFails ==
    /\ healthPhase = "busy"
    /\ ok' = 0
    /\ okCause' = IF cancelled THEN "stop" ELSE "failure"
    /\ authAnswer' = None
    /\ Health!EndTick("api")
    /\ UNCHANGED <<tokens>>
    /\ OthersOfHealth

HealthAnswered ==
    /\ healthPhase = "busy" /\ authAnswer # None
    /\ ok' = IF authAnswer = "ok" THEN 1 ELSE 0
    /\ okCause' = "answer"
    /\ authAnswer' = None
    /\ Health!EndTick(Health!NoError)
    /\ UNCHANGED <<tokens>>
    /\ OthersOfHealth

HealthReturn ==
    /\ Health!Return
    /\ UNCHANGED <<authAnswer, ok, okCause, tokens>>
    /\ OthersOfHealth

HealthStep == HealthBegin \/ AuthTest \/ HealthFails \/ HealthAnswered \/ HealthReturn

-----------------------------------------------------------------------------
(* conversations.history.                                                  *)

OthersOfCount == UNCHANGED <<slack, healthVars, tokens>>

CountBegin ==
    /\ healthTicks + countTicks < MaxTicks
    /\ Count!BeginTick
    /\ counts' = {msgs}
    /\ UNCHANGED <<pageAnswer, lastVal, hasVal, msg24h, window>>
    /\ OthersOfCount

\* One page, and whether there are more.
History24h ==
    /\ countPhase = "busy" /\ pageAnswer = NoAnswer
    /\ ~cancelled
    /\ pageAnswer' = IF msgs > Page THEN [n |-> Page, more |-> TRUE]
                     ELSE [n |-> msgs, more |-> FALSE]
    /\ UNCHANGED <<cancelled, countPhase, countTicks, countErrors, lastVal, hasVal, msg24h,
                   counts, window>>
    /\ OthersOfCount

\* An error, or an answer with has_more: the last good value stays.
CountFails ==
    /\ countPhase = "busy"
    /\ msg24h' = IF hasVal THEN lastVal ELSE msg24h
    /\ pageAnswer' = NoAnswer /\ counts' = {}
    /\ Count!EndTick("api")
    /\ UNCHANGED <<lastVal, hasVal, window>>
    /\ OthersOfCount

\* Mutant of CountAnswered: the partial count of has_more is used.
CountAnsweredPartly ==
    /\ countPhase = "busy" /\ pageAnswer # NoAnswer
    /\ lastVal' = pageAnswer.n /\ hasVal' = TRUE
    /\ msg24h' = pageAnswer.n
    /\ window' = counts
    /\ pageAnswer' = NoAnswer /\ counts' = {}
    /\ Count!EndTick(Count!NoError)
    /\ OthersOfCount

CountAnswered ==
    /\ countPhase = "busy" /\ pageAnswer # NoAnswer
    /\ ~pageAnswer.more
    /\ lastVal' = pageAnswer.n /\ hasVal' = TRUE
    /\ msg24h' = pageAnswer.n
    /\ window' = counts
    /\ pageAnswer' = NoAnswer /\ counts' = {}
    /\ Count!EndTick(Count!NoError)
    /\ OthersOfCount

CountReturn ==
    /\ Count!Return
    /\ UNCHANGED <<pageAnswer, lastVal, hasVal, msg24h, counts, window>>
    /\ OthersOfCount

CountStep == CountBegin \/ History24h \/ CountFails \/ CountAnswered \/ CountReturn

-----------------------------------------------------------------------------
SlackCancel ==
    /\ ~cancelled
    /\ cancelled' = TRUE
    /\ UNCHANGED <<slack, healthVars, countVars, tokens, counts>>

SlackNext == Change \/ HealthStep \/ CountStep \/ SlackCancel

SlackSpec == SlackInit /\ [][SlackNext]_slackVars

(***************************************************************************)
(* FR-010: outcome_slack_msg_24h is never a partial count and never a 0    *)
(* that stands for an error: it is the number of messages the channel had  *)
(* at a moment of the last tick that succeeded.                            *)
(***************************************************************************)
CountIsReal ==
    /\ msg24h \in window
    /\ hasVal => msg24h = lastVal

(***************************************************************************)
(* FR-011: slack_api_ok is 1 after a tick only if the token was good at a  *)
(* moment of that tick, and 0 after an answer only if it was not; a call   *)
(* that failed leaves 0.                                                   *)
(***************************************************************************)
HealthIsFresh ==
    (healthPhase \in {"select", "returned"} /\ okCause # None) =>
        IF okCause = "answer" THEN \E t \in tokens : ok = (IF t THEN 1 ELSE 0) ELSE ok = 0

\* An answer in hand is one Slack gave during this tick.
AnswerInHand ==
    /\ healthPhase = "busy" => valid \in tokens
    /\ countPhase = "busy" => msgs \in counts
    /\ authAnswer # None => healthPhase = "busy" /\ (authAnswer = "ok") \in tokens
    /\ pageAnswer # NoAnswer =>
        countPhase = "busy" /\ (~pageAnswer.more => pageAnswer.n \in counts)

SlackInv == SlackTypeOK /\ CountIsReal /\ HealthIsFresh /\ AnswerInHand
=============================================================================
