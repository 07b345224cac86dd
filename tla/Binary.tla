-------------------------------- MODULE Binary --------------------------------
(***************************************************************************)
(* The binary collector (internal/collectors/binary.go) with its two       *)
(* tickers, the download_logs collector on the visor's log, and the two    *)
(* alert rules written on what they set (monitoring/rules/..._tier2.yaml): *)
(*                                                                         *)
(*   visor   remote_mtime - local_mtime > 60s, for 1m                      *)
(*   child   download_started - local_mtime > 60s, for 1m                  *)
(*                                                                         *)
(* Each rule subtracts values that were read at different times by         *)
(* different goroutines, so this module has a clock.  It goes on only when *)
(* no tick is due or under way and no line has waited longer than Poll.    *)
(* The server, the visor and whoever installs it are external.             *)
(***************************************************************************)
EXTENDS LogCollectors

CONSTANTS
    Targets,     \* the components with a path, in sorted order
    Downloaded,  \* the children the visor downloads
    StatFails,   \* the components whose stat may fail
    HeadFails,   \* whether a HEAD may fail
    Every,       \* interval of both tickers (60s)
    Poll,        \* a log line has reached its gauge after at most this
    Threshold,   \* the 60s of the expressions
    For,         \* the rules' "for: 1m"
    MaxTicks,    \* bound: ticks each of the two starts
    MaxTime,     \* bound: how far the clock goes
    MaxFaults,   \* bound: ticks that fail and files of the log started again
    MaxEvents    \* bound: announcements and downloads begun

Visor == "visor"
Comps == {Targets[k] : k \in DOMAIN Targets}

\* These lines bear their time: the visor writes its log so.
DownloadLine(c, t) ==
    [tags |-> {"download"}, votes |-> NoCapture, pair |-> FALSE, comp |-> c, at |-> t]

\* validDownloadChild: the visor is not one of its own children.
ASSUME BinaryAssumption ==
    /\ "download" \in Feeds
    /\ Targets \in Seq(Comps)
    /\ Downloaded \subseteq Comps \cap Children /\ Visor \in Comps \ Children
    /\ StartTime <= MaxTime
    /\ StatFails \subseteq Comps /\ HeadFails \in BOOLEAN
    /\ {Every, Poll, Threshold, For, MaxTicks, MaxTime, MaxFaults, MaxEvents} \subseteq Nat
    /\ \A c \in Downloaded, t \in 0 .. MaxTime : DownloadLine(c, t) \in Publishes["download"]

VARIABLES
    now,          \* the clock
    disk,         \* component -> mtime of the file on disk
    server,       \* Last-Modified of the visor's URL
    downloading,  \* children whose download has begun and not ended
    localPhase, localTicks, localErrors, localDue,
    remotePhase, remoteTicks, remoteErrors, remoteDue,
    next,         \* the local tick: index of the next target
    localErr,     \* the local tick: firstErr # nil
    answer,       \* the remote tick: what the HEAD returned
    lastRemote,   \* NoValue while hasRemote is false
    localMtime,   \* component -> gauge
    remoteMtime, remoteOK,   \* the visor's gauges
    since,        \* component -> since when the rule's expression holds
    truth,        \* history: component -> since when what it is about is so
    calm,         \* history: component -> since when it is not so
    missed,       \* history: children whose download a tick has seen unfinished
                  \* while the rule's expression held
    told,         \* history: what the visor wrote of downloads, in order
    headErrors,   \* history: failed HEADs since the announcement
    releases      \* history: announcements

world == <<now, disk, server, downloading, told>>
localVars == <<localPhase, localTicks, localErrors, localDue, next, localErr, localMtime>>
remoteVars == <<remotePhase, remoteTicks, remoteErrors, remoteDue, answer, lastRemote,
                remoteMtime, remoteOK>>
watch == <<since, truth, calm, missed>>
binaryVars == <<world, localVars, remoteVars, watch, headErrors, releases>>
logVars == <<feedVars, collectorVars, history>>
allVars == <<logVars, binaryVars>>

LocalLoop == INSTANCE RunTicker WITH
    phase <- localPhase, ticks <- localTicks, errors <- localErrors
RemoteLoop == INSTANCE RunTicker WITH
    phase <- remotePhase, ticks <- remoteTicks, errors <- remoteErrors

\* answer: no HEAD is out, or it failed.
NoAnswer == -2
Failed == -3

Times == 0 .. MaxTime
TimeOrNone == Times \cup {NoValue}

BinaryTypeOK ==
    /\ now \in Times /\ disk \in [Comps -> Times] /\ server \in Times
    /\ downloading \in SUBSET Downloaded
    /\ told \in Seq(Publishes["download"]) /\ Len(told) <= MaxLines
    /\ LocalLoop!TickerTypeOK /\ RemoteLoop!TickerTypeOK
    /\ localDue \in Nat /\ remoteDue \in Nat
    /\ next \in 1 .. Len(Targets) + 1 /\ localErr \in BOOLEAN
    /\ answer \in Times \cup {NoAnswer, Failed}
    /\ lastRemote \in TimeOrNone /\ remoteMtime \in TimeOrNone
    /\ remoteOK \in {0, 1, NoValue}
    /\ localMtime \in [Comps -> TimeOrNone]
    /\ since \in [Comps -> TimeOrNone] /\ truth \in [Comps -> TimeOrNone]
    /\ calm \in [Comps -> TimeOrNone]
    /\ missed \in SUBSET Downloaded /\ headErrors \in Nat /\ releases \in Nat

-----------------------------------------------------------------------------
(* The rules.                                                              *)

Started(c) == IF c \in Children THEN gauge[<<"download_started", c>>] ELSE NoValue

\* A subtraction has a result where both sides have a sample of the component.
Exceeds(later, local) ==
    later # NoValue /\ local # NoValue /\ later - local > Threshold

\* Mutant of Holds: the expression of the visor's rule for all of them.
HoldsRemote(c) == Exceeds(remoteMtime, localMtime[c])

Holds(c) == Exceeds(IF c = Visor THEN remoteMtime ELSE Started(c), localMtime[c])

Firing(c) == since[c] # NoValue /\ now - since[c] >= For

\* When the visor last said that it downloads c.
LastLine(c) ==
    LET S == {told[k].at : k \in {j \in DOMAIN told : told[j].comp = c}}
    IN  IF S = {} THEN NoValue ELSE Max(S)

\* What a rule is about: a binary announced and not installed, a download
\* begun and not ended, both for a file older than that by the threshold.
True(c) ==
    /\ localMtime[c] # NoValue
    /\ IF c = Visor THEN server - disk[Visor] > Threshold
       ELSE c \in downloading /\ LastLine(c) - disk[c] > Threshold

From(held, t) == IF held THEN (IF t = NoValue THEN now ELSE t) ELSE NoValue

\* What every step does to the times since which things are so.
Watch ==
    /\ since' = [c \in Comps |-> From(Holds(c)', since[c])]
    /\ truth' = [c \in Comps |-> From(True(c)', truth[c])]
    /\ calm' = [c \in Comps |-> From(~True(c)', calm[c])]
    /\ missed' = {c \in Downloaded :
          Holds(c)' /\ (c \in missed \/ (next' > next /\ c = Targets[next] /\ c \in downloading))}

-----------------------------------------------------------------------------
(* The world.                                                              *)

BinaryInit ==
    /\ Init
    /\ now = StartTime
    /\ disk = [c \in Comps |-> 0] /\ server = 0 /\ downloading = {} /\ told = <<>>
    /\ LocalLoop!TickerInit /\ RemoteLoop!TickerInit
    /\ localDue = StartTime /\ remoteDue = StartTime
    /\ next = 1 /\ localErr = FALSE /\ answer = NoAnswer /\ lastRemote = NoValue
    /\ localMtime = [c \in Comps |-> NoValue]
    /\ remoteMtime = NoValue /\ remoteOK = NoValue
    /\ since = [c \in Comps |-> NoValue]
    /\ truth = [c \in Comps |-> NoValue]
    /\ calm = [c \in Comps |-> StartTime]
    /\ missed = {} /\ headErrors = 0 /\ releases = 0

\* A line written at most Poll ago may still be on its way.
Waiting == {d[2].line.at : d \in due["download"] \ given["download"]}
           \cup {out["download"][k].line.at : k \in DOMAIN out["download"]}

Advance ==
    /\ now < MaxTime
    /\ localPhase = "select" /\ localDue > now
    /\ remotePhase = "select" /\ remoteDue > now
    /\ \A t \in Waiting : now < t + Poll
    /\ now' = now + 1
    /\ UNCHANGED <<logVars, disk, server, downloading, told, localVars, remoteVars, headErrors, releases>>

Events == releases + Len(told)

Announce ==
    /\ server < now
    /\ Events < MaxEvents
    /\ server' = now
    /\ releases' = releases + 1
    /\ headErrors' = IF truth[Visor] = NoValue THEN 0 ELSE headErrors
    /\ UNCHANGED <<logVars, now, disk, downloading, told, localVars, remoteVars>>

Install ==
    /\ disk[Visor] < server
    /\ disk' = [disk EXCEPT ![Visor] = now]
    /\ UNCHANGED <<logVars, now, server, downloading, told, localVars, remoteVars, headErrors,
                   releases>>

\* A download begins, or begins again after it failed.
StartDownload(c) ==
    /\ Events < MaxEvents /\ Len(told) < MaxLines
    /\ Publish("download", [p \in {Len(told) + 1} |-> DownloadLine(c, now)])
    /\ told' = Append(told, DownloadLine(c, now))
    /\ downloading' = downloading \cup {c}
    /\ UNCHANGED <<now, disk, server, localVars, remoteVars, headErrors, releases>>

FinishDownload(c) ==
    /\ c \in downloading
    /\ downloading' = downloading \ {c}
    /\ disk' = [disk EXCEPT ![c] = now]
    /\ UNCHANGED <<logVars, now, server, told, localVars, remoteVars, headErrors, releases>>

World ==
    \/ Advance \/ Announce \/ Install
    \/ \E c \in Downloaded : StartDownload(c) \/ FinishDownload(c)

MayFail == localErrors["io"] + remoteErrors["api"] + restarts["download"] < MaxFaults

\* The same file again, a new day's, or an older one: any part of what the
\* visor has written.
StartLog ==
    /\ MayFail
    /\ \E P \in SUBSET DOMAIN told : StartFile("download", Restrict(told, P))

\* The tailer and the download_logs collector.
LogStep ==
    /\ \/ Send("download") \/ End("download")
       \/ Step("download_logs")
       \/ StartLog
    /\ UNCHANGED <<world, localVars, remoteVars, headErrors, releases>>

-----------------------------------------------------------------------------
(* The local ticker.                                                       *)

LocalKeeps == UNCHANGED <<logVars, world, remoteVars, headErrors, releases>>

LocalBegin ==
    /\ now >= localDue
    /\ LocalLoop!BeginTick
    /\ localDue' = now + Every
    /\ next' = 1 /\ localErr' = FALSE
    /\ UNCHANGED localMtime
    /\ LocalKeeps

\* Mutant of Stat: the first error ends the tick.
StatStops ==
    /\ localPhase = "busy" /\ next <= Len(Targets)
    /\ LET c == Targets[next]
       IN  \/ /\ localMtime' = [localMtime EXCEPT ![c] = disk[c]]
              /\ next' = next + 1
              /\ UNCHANGED localErr
           \/ /\ c \in StatFails /\ MayFail
              /\ localErr' = TRUE
              /\ next' = Len(Targets) + 1
              /\ UNCHANGED localMtime
    /\ UNCHANGED <<localPhase, localTicks, localErrors, localDue>>
    /\ LocalKeeps

\* One component: a failed stat keeps its gauge, and the loop goes on.
Stat ==
    /\ localPhase = "busy" /\ next <= Len(Targets)
    /\ LET c == Targets[next]
       IN  \/ /\ localMtime' = [localMtime EXCEPT ![c] = disk[c]]
              /\ UNCHANGED localErr
           \/ /\ c \in StatFails /\ MayFail
              /\ localErr' = TRUE
              /\ UNCHANGED localMtime
    /\ next' = next + 1
    /\ UNCHANGED <<localPhase, localTicks, localErrors, localDue>>
    /\ LocalKeeps

LocalEnd ==
    /\ next > Len(Targets)
    /\ LocalLoop!EndTick(IF localErr THEN "io" ELSE LocalLoop!NoError)
    /\ UNCHANGED <<localDue, next, localErr, localMtime>>
    /\ LocalKeeps

-----------------------------------------------------------------------------
(* The remote ticker.                                                      *)

RemoteKeeps == UNCHANGED <<logVars, world, localVars, releases>>

RemoteBegin ==
    /\ now >= remoteDue
    /\ RemoteLoop!BeginTick
    /\ remoteDue' = now + Every
    /\ UNCHANGED <<answer, lastRemote, remoteMtime, remoteOK, headErrors>>
    /\ RemoteKeeps

HeadVisor ==
    /\ remotePhase = "busy" /\ answer = NoAnswer
    /\ \/ /\ answer' = server
          /\ UNCHANGED headErrors
       \/ /\ HeadFails /\ MayFail
          /\ answer' = Failed
          /\ headErrors' = headErrors + 1
    /\ UNCHANGED <<remotePhase, remoteTicks, remoteErrors, remoteDue, lastRemote,
                   remoteMtime, remoteOK>>
    /\ RemoteKeeps

\* Mutant of HeadFailed: the mtime goes to 0 with the check.
HeadFailedResets ==
    /\ answer = Failed
    /\ remoteOK' = 0
    /\ remoteMtime' = 0
    /\ RemoteLoop!EndTick("api")
    /\ answer' = NoAnswer
    /\ UNCHANGED <<remoteDue, lastRemote, headErrors>>
    /\ RemoteKeeps

\* Mutant of HeadFailed: the zero time of the failed call is stored.
HeadFailedStores ==
    /\ answer = Failed
    /\ remoteOK' = 0
    /\ lastRemote' = answer
    /\ remoteMtime' = answer
    /\ RemoteLoop!EndTick("api")
    /\ answer' = NoAnswer
    /\ UNCHANGED <<remoteDue, headErrors>>
    /\ RemoteKeeps

\* Under the mutex: the check fails, the mtime stays what it was.
HeadFailed ==
    /\ answer = Failed
    /\ remoteOK' = 0
    /\ remoteMtime' = IF lastRemote = NoValue THEN remoteMtime ELSE lastRemote
    /\ RemoteLoop!EndTick("api")
    /\ answer' = NoAnswer
    /\ UNCHANGED <<remoteDue, lastRemote, headErrors>>
    /\ RemoteKeeps

HeadSucceeded ==
    /\ answer \in Times
    /\ remoteOK' = 1
    /\ lastRemote' = answer
    /\ remoteMtime' = answer
    /\ RemoteLoop!EndTick(RemoteLoop!NoError)
    /\ answer' = NoAnswer
    /\ UNCHANGED <<remoteDue, headErrors>>
    /\ RemoteKeeps

BinaryNext ==
    /\ \/ World \/ LogStep
       \/ LocalBegin \/ Stat \/ LocalEnd
       \/ RemoteBegin \/ HeadVisor \/ HeadFailed \/ HeadSucceeded
    /\ Watch

BinarySpec == BinaryInit /\ [][BinaryNext]_allVars

-----------------------------------------------------------------------------
(***************************************************************************)
(* The detection budget (the comment above BinaryCollector and the head of *)
(* the rules): an announced visor fires within one HEAD interval and the   *)
(* "for" of its rule, plus one interval for each HEAD that failed; a       *)
(* failed HEAD never takes back what is known.  A download that does not   *)
(* end fires within the delay of the log and the "for" of its rule.        *)
(* (Unless a file of the log was started again: one read anew sets the      *)
(* start back for a while, and what the tailer had not read is lost.)      *)
(***************************************************************************)
Budget(c) ==
    For + IF c = Visor THEN (1 + headErrors) * Every ELSE Poll

ReportedInTime ==
    \A c \in Comps :
        (truth[c] # NoValue /\ now - truth[c] > Budget(c)) =>
            Firing(c) \/ (c # Visor /\ restarts["download"] > 0)

LocalDone == localPhase = "select" /\ localDue > now

(***************************************************************************)
(* "When both are normal again mtime is updated and the expression goes    *)
(* negative": no alert fires after a local tick when what it is about has  *)
(* not been so for a local interval, also if the file of another component *)
(* cannot be read, and although a fresh value is compared with a stale one *)
(* in between.  (Just before the tick one may: a release that is announced *)
(* and installed right after a tick is compared for an interval with the   *)
(* file before it, and the "for" of the rule is no longer than that.)      *)
(***************************************************************************)
ResolvedInTime ==
    \A c \in Comps \ StatFails :
        (calm[c] # NoValue /\ now - calm[c] >= Every /\ LocalDone) => ~Firing(c)

(***************************************************************************)
(* A download alert that goes on firing means that a download was still    *)
(* going on at a tick of the time it has been pending for.  (That it took  *)
(* a minute, as the rules' head says, it does not mean: the file may have  *)
(* been complete right after that tick.)                                   *)
(***************************************************************************)
AlertMeansMissed ==
    \A c \in Downloaded : (since[c] # NoValue /\ now - since[c] > For) => c \in missed
=============================================================================
