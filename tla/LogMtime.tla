------------------------------- MODULE LogMtime -------------------------------
(***************************************************************************)
(* The log mtime collector (internal/collectors/logmtime.go): each tick    *)
(* scans the directory of every component for its newest file              *)
(* (LatestMtime, internal/logfs/logfs_os.go).  A scan lists the directory  *)
(* once and then asks for the files one by one, while the publisher        *)
(* writes, creates, renames and removes files between any two of those     *)
(* calls.  The polling tailer chooses its file by the same scan.           *)
(***************************************************************************)
EXTENDS RunTicker

CONSTANTS
    NComps,     \* the components, in the order of AllComponents
    NNames,     \* the names of log files, in the order ReadDir sorts them
    MaxTime,    \* bound: how far the file system's clock goes
    PerSecond,  \* units of that clock in a second
    Unreadable  \* the directories whose listing may fail

Comps == 1 .. NComps
Names == 1 .. NNames

ASSUME LogMtimeAssumption ==
    /\ NComps \in Nat \ {0} /\ NNames \in Nat \ {0}
    /\ MaxTime \in Nat /\ PerSecond \in Nat \ {0}
    /\ Unreadable \subseteq Comps

VARIABLES
    now,        \* the file system's clock
    mtime,      \* component -> name -> modification time, Absent for no file
    at,         \* the component the tick has come to, NComps + 1 at its end
    listed,     \* the directory in hand has been listed
    todo,       \* the names listed and not yet asked for
    best,       \* bestT
    firstKind,  \* the first error of the tick
    gauge,      \* component -> component_log_mtime_seconds
    failed,     \* history: components whose listing failed in this tick
    scanned,    \* history: components whose scan ended in this tick
    floor,      \* history: the newest mtime when the directory was listed
    leaders,    \* history: the files of that mtime that have not been renamed
                \* or removed since
    moments     \* history: what the newest mtime has been since

files == <<now, mtime>>
scan == <<at, listed, todo, best>>
view == <<floor, leaders, moments>>
history == <<failed, scanned, view>>
vars == <<tickerVars, files, scan, firstKind, gauge, history>>

\* Every real mtime is later: bestT starts as the zero time.
Absent == 0

\* t is the newest mtime in the directory d, Absent when d is empty.
IsNewest(d, t) == (\E n \in Names : d[n] = t) /\ (\A n \in Names : d[n] <= t)
Newest(d) == CHOOSE t \in {d[n] : n \in Names} : IsNewest(d, t)

Times == 0 .. MaxTime

TypeOK ==
    /\ TickerTypeOK
    /\ now \in Times
    /\ mtime \in [Comps -> [Names -> 0 .. now]]
    /\ at \in 1 .. NComps + 1
    /\ listed \in BOOLEAN
    /\ todo \in SUBSET Names
    /\ best \in Times
    /\ firstKind \in {"io", NoError}
    /\ gauge \in [Comps -> Nat]
    /\ failed \in SUBSET Comps /\ scanned \in SUBSET Comps
    /\ floor \in Times
    /\ leaders \in SUBSET Names
    /\ moments \in SUBSET Times

\* The exporter may find any log directories when it starts.
Init ==
    /\ TickerInit
    /\ now \in Times
    /\ mtime \in [Comps -> [Names -> 0 .. now]]
    /\ at = NComps + 1 /\ listed = FALSE /\ todo = {} /\ best = Absent
    /\ firstKind = NoError
    /\ gauge = [c \in Comps |-> 0]
    /\ failed = {} /\ scanned = {}
    /\ floor = 0 /\ leaders = {} /\ moments = {}

-----------------------------------------------------------------------------
(* The publisher, and whoever rotates its logs.                            *)

\* What a change of component c's directory adds to the history of a scan
\* that is looking at it; gone are the names that lose their file.
Witness(c, gone) ==
    /\ IF listed /\ at = c
       THEN /\ moments' = moments \cup {Newest(mtime'[c])}
            /\ leaders' = leaders \ gone
       ELSE UNCHANGED <<moments, leaders>>
    /\ UNCHANGED <<tickerVars, scan, firstKind, gauge, failed, scanned, floor>>

\* A write, or a new file: within one step of the clock several files may
\* get the same mtime.
Write(c, n) ==
    /\ now' \in now .. MaxTime
    /\ now' > 0
    /\ mtime' = [mtime EXCEPT ![c][n] = now']
    /\ Witness(c, {})

Rename(c, n, m) ==
    /\ n # m
    /\ mtime[c][n] # Absent
    /\ mtime' = [mtime EXCEPT ![c][n] = Absent, ![c][m] = mtime[c][n]]
    /\ UNCHANGED now
    /\ Witness(c, {n, m})

Remove(c, n) ==
    /\ mtime[c][n] # Absent
    /\ mtime' = [mtime EXCEPT ![c][n] = Absent]
    /\ UNCHANGED now
    /\ Witness(c, {n})

Publisher ==
    \E c \in Comps, n \in Names :
        Write(c, n) \/ Remove(c, n) \/ \E m \in Names : Rename(c, n, m)

-----------------------------------------------------------------------------
(* The tick.                                                               *)

Begin ==
    /\ BeginTick
    /\ at' = 1 /\ listed' = FALSE
    /\ firstKind' = NoError
    /\ failed' = {} /\ scanned' = {}
    /\ UNCHANGED <<files, todo, best, gauge, view>>

Scanning == phase = "busy" /\ at \in Comps

\* os.ReadDir returns the names there are.
List ==
    /\ Scanning /\ ~listed
    /\ listed' = TRUE
    /\ todo' = {n \in Names : mtime[at][n] # Absent}
    /\ best' = Absent
    /\ floor' = Newest(mtime[at])
    /\ leaders' = {n \in Names : mtime[at][n] = floor'}
    /\ moments' = {floor'}
    /\ UNCHANGED <<tickerVars, files, at, firstKind, gauge, failed, scanned>>

\* Mutant of ListFails: the tick ends at the first directory that fails.
ListFailsAndStops ==
    /\ Scanning /\ ~listed
    /\ at \in Unreadable
    /\ firstKind' = "io"
    /\ failed' = failed \cup {at}
    /\ at' = NComps + 1
    /\ UNCHANGED <<tickerVars, files, listed, todo, best, gauge, scanned, view>>

\* The gauge stays as it is, and the next component is looked at.
ListFails ==
    /\ Scanning /\ ~listed
    /\ at \in Unreadable
    /\ firstKind' = "io"
    /\ failed' = failed \cup {at}
    /\ at' = at + 1
    /\ UNCHANGED <<tickerVars, files, listed, todo, best, gauge, scanned, view>>

\* Mutant of Info: the last file asked for wins.
InfoTakesLast ==
    /\ Scanning /\ listed
    /\ \E n \in todo :
          /\ \A m \in todo : n <= m
          /\ todo' = todo \ {n}
          /\ best' = IF mtime[at][n] # Absent THEN mtime[at][n] ELSE best
    /\ UNCHANGED <<tickerVars, files, at, listed, firstKind, gauge, history>>

\* The next name: a file that is gone is skipped, a strictly later one wins.
Info ==
    /\ Scanning /\ listed
    /\ \E n \in todo :
          /\ \A m \in todo : n <= m
          /\ todo' = todo \ {n}
          /\ best' = IF mtime[at][n] > best THEN mtime[at][n] ELSE best
    /\ UNCHANGED <<tickerVars, files, at, listed, firstKind, gauge, history>>

\* float64(mt.Unix()), and 0 for the zero time of an empty directory.
Unix(t) == t \div PerSecond

Report ==
    /\ Scanning /\ listed /\ todo = {}
    /\ gauge' = [gauge EXCEPT ![at] = Unix(best)]
    /\ at' = at + 1 /\ listed' = FALSE
    /\ best' = Absent
    /\ scanned' = scanned \cup {at}
    /\ floor' = 0 /\ leaders' = {} /\ moments' = {}
    /\ UNCHANGED <<tickerVars, files, todo, firstKind, failed>>

End ==
    /\ phase = "busy" /\ at = NComps + 1
    /\ EndTick(firstKind)
    /\ UNCHANGED <<files, scan, firstKind, gauge, history>>

Stop ==
    /\ Return \/ CancelTicker
    /\ UNCHANGED <<files, scan, firstKind, gauge, history>>

Tick == List \/ ListFails \/ Info \/ Report \/ End

Next == Publisher \/ Begin \/ Tick \/ Stop

Spec == Init /\ [][Next]_vars

-----------------------------------------------------------------------------
ScanEnds == listed /\ ~listed'

(***************************************************************************)
(* A scan that is not atomic is as good as one that is: what it sets the   *)
(* gauge to was the newest mtime of its directory at some moment of the    *)
(* scan, whatever was written, created, renamed or removed meanwhile,      *)
(* unless every file that was the newest at the listing was itself renamed *)
(* or removed before the scan ended.  The tailer's choice of a file rests  *)
(* on it too.  And only the scan of a directory sets its gauge: one that   *)
(* cannot be read keeps the mtime it had.                                  *)
(***************************************************************************)
ScanIsAMoment ==
    [][\A c \in Comps :
          /\ (ScanEnds /\ at = c) =>
                (leaders = {} \/ \E t \in moments : gauge'[c] = Unix(t))
          /\ gauge'[c] # gauge[c] => ScanEnds /\ at = c]_vars

(***************************************************************************)
(* While component at is scanned: a file older than the newest one of the  *)
(* listing has the mtime it had then; any other has one that was the       *)
(* newest at some moment; and until a leader has been asked for, those     *)
(* left are still to be asked for.                                         *)
(***************************************************************************)
Seen(t) == t < floor \/ t \in moments

ScanInHand ==
    listed =>
        /\ phase = "busy" /\ at \in Comps
        /\ floor \in moments
        /\ Newest(mtime[at]) \in moments
        /\ Seen(best)
        /\ \A n \in Names : Seen(mtime[at][n])
        /\ \/ best >= floor
           \/ \A n \in leaders : n \in todo /\ mtime[at][n] >= floor

IInv == TypeOK /\ ScanInHand

(***************************************************************************)
(* A directory that cannot be listed keeps none of the others from being   *)
(* scanned in the same tick, and the tick counts one error if there was    *)
(* one, however many there were.                                           *)
(***************************************************************************)
TickCoversAll ==
    [][phase = "busy" /\ phase' = "select" =>
          /\ Comps = scanned \cup failed
          /\ errors' = [errors EXCEPT !["io"] = @ + (IF failed = {} THEN 0 ELSE 1)]]_vars
=============================================================================
