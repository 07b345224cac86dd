------------------------------- MODULE LogTail -------------------------------
(***************************************************************************)
(* The polling tailer (internal/logtail/logtail_poll.go): one goroutine    *)
(* that follows the newest file of a directory and sends one Match per     *)
(* matching pattern of every new line to a bounded channel, until its      *)
(* context is cancelled.  The actions are the steps of loop and drain      *)
(* between which the publisher, the receiver and the canceller may act.    *)
(*                                                                         *)
(* An epoch is the life of one read position: it starts when the position  *)
(* is put at the start of a file and ends when it is put there again.      *)
(***************************************************************************)
EXTENDS LogDir

CONSTANTS
    NPat,       \* number of patterns, in the order they are tried
    Stamped,    \* the lines that begin with a timestamp (LinePrefix)
    Hits,       \* line -> the patterns its message matches
    Cap,        \* capacity of the channel (64 in Subscribe)
    Faults      \* which system calls may fail, a subset of Calls

Calls == {"list", "open", "stat", "read"}
Pats == 1 .. NPat

ASSUME LogTailAssumption ==
    /\ NPat \in Nat \ {0}
    /\ Stamped \subseteq Lines
    /\ Hits \in [Lines -> SUBSET Pats]
    /\ Cap \in Nat \ {0}
    /\ Faults \subseteq Calls

VARIABLES
    cancelled,  \* ctx is done
    pc,         \* where the goroutine is
    path,       \* what LatestFileFn returned
    fd,         \* inode of f, None when f is nil
    fdPath,     \* curPath
    off,        \* cells consumed; always just past a newline
    buf,        \* bufio's buffer: cells read from f and not consumed
    todo,       \* matches of the line in hand that are not sent yet
    out,        \* the channel
    clean,      \* history: f was not truncated in this epoch
    sent,       \* history: <<end of line, pattern>> sent in this epoch
    ever        \* history: <<inode, end of line, pattern>> sent at any time

reader == <<fd, fdPath, off, buf>>
history == <<clean, sent, ever>>
vars == <<dirVars, cancelled, pc, path, reader, todo, out, history>>

PCs == {"check", "latest", "examine", "open", "drain", "read", "emit", "wait",
        "closed"}
Match == [line : Lines, pat : Pats]

TypeOK ==
    /\ DirTypeOK
    /\ cancelled \in BOOLEAN
    /\ pc \in PCs
    /\ path \in Paths \cup {None}
    /\ fd \in Inodes \cup {None}
    /\ fdPath \in Paths \cup {None}
    /\ off \in Nat
    /\ buf \in Seq(Cell)
    /\ todo \in SUBSET Match
    /\ out \in Seq(Match)
    /\ clean \in BOOLEAN
    /\ sent \in Seq(Nat \X Pats)
    /\ ever \in SUBSET (Inodes \X Nat \X Pats)

Init ==
    /\ DirInit
    /\ cancelled = FALSE
    /\ pc = "check"
    /\ path = None
    /\ fd = None /\ fdPath = None /\ off = 0 /\ buf = <<>>
    /\ todo = {}
    /\ out = <<>>
    /\ clean = TRUE /\ sent = <<>> /\ ever = {}

-----------------------------------------------------------------------------
(* The tailer.                                                             *)

Goto(label) == pc' = label

CheckCtx ==
    /\ pc = "check"
    /\ Goto(IF cancelled THEN "closed" ELSE "latest")
    /\ UNCHANGED <<dirVars, cancelled, path, reader, todo, out, history>>

\* An error or an empty directory leaves the open file as it is.
PickLatest ==
    /\ pc = "latest"
    /\ \/ /\ \E p \in Paths : IsLatest(p) /\ path' = p
          /\ Goto("examine")
       \/ /\ newest = {} \/ "list" \in Faults
          /\ Goto("drain")
          /\ UNCHANGED path
    /\ UNCHANGED <<dirVars, cancelled, reader, todo, out, history>>

NewEpoch ==
    /\ buf' = <<>>
    /\ clean' = TRUE
    /\ sent' = <<>>
    /\ UNCHANGED ever

FromStart == off' = 0 /\ NewEpoch

\* Mutant of Examine: the file is opened again whatever its inode is.
ExamineReopens ==
    /\ pc = "examine"
    /\ \/ /\ fd = None \/ path # fdPath \/ dir[path] # None
          /\ Goto("open")
       \/ /\ fd # None /\ path = fdPath
          /\ dir[path] = None \/ "stat" \in Faults
          /\ Goto("drain")
    /\ UNCHANGED <<dirVars, cancelled, path, reader, todo, out, history>>

\* The open file is kept, reopened, or read again from its start because it
\* is now shorter than what was consumed of it.
Examine ==
    /\ pc = "examine"
    /\ \/ /\ fd = None \/ path # fdPath
          /\ Goto("open")
          /\ UNCHANGED <<reader, history>>
       \/ /\ fd # None /\ path = fdPath
          /\ dir[path] \notin {None, fd}
          /\ Goto("open")
          /\ UNCHANGED <<reader, history>>
       \/ /\ fd # None /\ path = fdPath
          /\ dir[path] = fd
          /\ Len(data[fd]) < off
          /\ FromStart
          /\ Goto("drain")
          /\ UNCHANGED <<fd, fdPath>>
       \/ /\ fd # None /\ path = fdPath
          /\ \/ dir[path] = fd /\ Len(data[fd]) >= off
             \/ dir[path] = None
             \/ "stat" \in Faults
          /\ Goto("drain")
          /\ UNCHANGED <<reader, history>>
    /\ UNCHANGED <<dirVars, cancelled, path, todo, out>>

\* The old file is closed first: when the open fails there is none.
Open ==
    /\ pc = "open"
    /\ \/ /\ dir[path] # None
          /\ fd' = dir[path]
          /\ fdPath' = path
          /\ FromStart
       \/ /\ dir[path] = None \/ "open" \in Faults
          /\ fd' = None
          /\ NewEpoch
          /\ UNCHANGED <<fdPath, off>>
    /\ Goto("drain")
    /\ UNCHANGED <<dirVars, cancelled, path, todo, out>>

\* drain: seek to off and start with an empty buffer.
StartDrain ==
    /\ pc = "drain"
    /\ buf' = <<>>
    /\ Goto(IF fd = None THEN "wait" ELSE "read")
    /\ UNCHANGED <<dirVars, cancelled, path, fd, fdPath, off, todo, out, history>>

NoNewline == \A k \in DOMAIN buf : ~Ends(buf[k])

\* ReadString finds no newline in the buffer: one read(2) at the kernel's
\* position, which returns any part of what is there.
Fill ==
    /\ pc = "read"
    /\ NoNewline
    /\ \E m \in off + Len(buf) + 1 .. Len(data[fd]) :
          buf' = buf \o SubSeq(data[fd], off + Len(buf) + 1, m)
    /\ UNCHANGED <<dirVars, cancelled, pc, path, fd, fdPath, off, todo, out, history>>

\* Mutant of EndOfFile: the unfinished line counts as consumed.
EndOfFileConsumes ==
    /\ pc = "read"
    /\ NoNewline
    /\ off + Len(buf) >= Len(data[fd]) \/ "read" \in Faults
    /\ off' = off + Len(buf)
    /\ buf' = <<>>
    /\ Goto("wait")
    /\ UNCHANGED <<dirVars, cancelled, path, fd, fdPath, todo, out, history>>

\* End of file, or an error: an unfinished line is left for the next drain.
EndOfFile ==
    /\ pc = "read"
    /\ NoNewline
    /\ off + Len(buf) >= Len(data[fd]) \/ "read" \in Faults
    /\ Goto("wait")
    /\ UNCHANGED <<dirVars, cancelled, path, reader, todo, out, history>>

\* A line without the timestamp is a continuation: consumed, never matched.
HasStamp(c) == c.part # "tail" /\ c.line \in Stamped

\* Mutant of TakeLine: no LinePrefix, a continuation line is matched too.
TakeAnyLine ==
    /\ pc = "read"
    /\ \E k \in DOMAIN buf :
          /\ Ends(buf[k])
          /\ \A m \in 1 .. k - 1 : ~Ends(buf[m])
          /\ off' = off + k
          /\ buf' = SubSeq(buf, k + 1, Len(buf))
          /\ todo' = {[line |-> buf[k].line, pat |-> p] : p \in Hits[buf[k].line]}
    /\ Goto(IF todo' = {} THEN "read" ELSE "emit")
    /\ UNCHANGED <<dirVars, cancelled, path, fd, fdPath, out, history>>

\* Mutant of TakeLine: the position is reckoned back from the end of the buffer.
TakeLineBackwards ==
    /\ pc = "read"
    /\ \E k \in DOMAIN buf :
          /\ Ends(buf[k])
          /\ off' = off + k - Len(buf)
          /\ buf' = SubSeq(buf, k + 1, Len(buf))
          /\ todo' = {[line |-> buf[k].line, pat |-> p] : p \in Hits[buf[k].line]}
    /\ Goto(IF todo' = {} THEN "read" ELSE "emit")
    /\ UNCHANGED <<dirVars, cancelled, path, fd, fdPath, out, history>>

\* ReadString returns the buffer up to its first newline.  The matches get
\* their time here too, the line's or, where that does not parse, the clock's:
\* the tailer goes by neither, and LogCollectors has it (TimesOf).
TakeLine ==
    /\ pc = "read"
    /\ \E k \in DOMAIN buf :
          /\ Ends(buf[k])
          /\ \A m \in 1 .. k - 1 : ~Ends(buf[m])
          /\ off' = off + k
          /\ buf' = SubSeq(buf, k + 1, Len(buf))
          /\ todo' = IF HasStamp(buf[1])
                     THEN {[line |-> buf[k].line, pat |-> p] : p \in Hits[buf[k].line]}
                     ELSE {}
    /\ Goto(IF todo' = {} THEN "read" ELSE "emit")
    /\ UNCHANGED <<dirVars, cancelled, path, fd, fdPath, out, history>>

\* Mutant of Emit: the matches of a line are sent in any order.
EmitInAnyOrder ==
    /\ pc = "emit"
    /\ Len(out) < Cap
    /\ \E m \in todo :
          /\ out' = Append(out, m)
          /\ todo' = todo \ {m}
          /\ sent' = Append(sent, <<off, m.pat>>)
          /\ ever' = ever \cup {<<fd, off, m.pat>>}
    /\ Goto(IF todo' = {} THEN "read" ELSE "emit")
    /\ UNCHANGED <<dirVars, cancelled, path, reader, clean>>

\* One Match per matching pattern, in the order of the patterns; the send
\* blocks while the channel is full.
Emit ==
    /\ pc = "emit"
    /\ Len(out) < Cap
    /\ \E m \in todo :
          /\ \A n \in todo : m.pat <= n.pat
          /\ out' = Append(out, m)
          /\ todo' = todo \ {m}
          /\ sent' = Append(sent, <<off, m.pat>>)
          /\ ever' = ever \cup {<<fd, off, m.pat>>}
    /\ Goto(IF todo' = {} THEN "read" ELSE "emit")
    /\ UNCHANGED <<dirVars, cancelled, path, reader, clean>>

\* Mutant of AbortEmit: the send does not select on ctx.Done().
AbortEmitNever ==
    /\ pc = "emit" /\ cancelled /\ todo = {}
    /\ Goto("wait")
    /\ UNCHANGED <<dirVars, cancelled, path, reader, todo, out, history>>

\* A cancelled send ends the drain; the select after it sees the
\* cancellation too, or a tick that leads to the check at the loop's top.
AbortEmit ==
    /\ pc = "emit"
    /\ cancelled
    /\ Goto("wait")
    /\ UNCHANGED <<dirVars, cancelled, path, reader, todo, out, history>>

Tick ==
    /\ pc = "wait"
    /\ Goto("check")
    /\ UNCHANGED <<dirVars, cancelled, path, reader, todo, out, history>>

StopWaiting ==
    /\ pc = "wait"
    /\ cancelled
    /\ Goto("closed")
    /\ UNCHANGED <<dirVars, cancelled, path, reader, todo, out, history>>

Tailer ==
    \/ CheckCtx \/ PickLatest \/ Examine \/ Open
    \/ StartDrain \/ Fill \/ EndOfFile \/ TakeLine
    \/ Emit \/ AbortEmit \/ Tick \/ StopWaiting

-----------------------------------------------------------------------------
(* The collector that reads the channel, main's cancel, the publisher.     *)

Receive ==
    /\ out # <<>>
    /\ out' = Tail(out)
    /\ UNCHANGED <<dirVars, cancelled, pc, path, reader, todo, history>>

Cancel ==
    /\ ~cancelled
    /\ cancelled' = TRUE
    /\ UNCHANGED <<dirVars, pc, path, reader, todo, out, history>>

Publisher ==
    /\ \/ /\ \/ \E p \in Paths, c \in Cell : WriteTo(p, c)
             \/ NewDay
             \/ Replace
             \/ \E p \in Paths : Delete(p)
          /\ UNCHANGED clean
       \/ \E p \in Paths :
             /\ Truncate(p)
             /\ clean' = (clean /\ dir[p] # fd)
    /\ UNCHANGED <<cancelled, pc, path, reader, todo, out, sent, ever>>

Next == Tailer \/ Receive \/ Cancel \/ Publisher

Spec == Init /\ [][Next]_vars

\* The goroutine runs and its ticker fires; the collector reads until ctx is
\* cancelled, after which it may be gone.
Fairness ==
    /\ WF_vars(Tailer)
    /\ WF_vars(~cancelled /\ Receive)

FairSpec == Spec /\ Fairness
-----------------------------------------------------------------------------
(* What the tailer promises.                                               *)

\* The line that ends at cell i of s begins with a timestamp.
Prefixed(s, i) ==
    \E j \in 1 .. i :
        /\ j = 1 \/ Ends(s[j - 1])
        /\ \A k \in j .. i - 1 : ~Ends(s[k])
        /\ HasStamp(s[j])

\* The matches the first n cells of s give rise to: <<end of line, pattern>>.
Due(s, n) ==
    {d \in (1 .. n) \X Pats :
        /\ Ends(s[d[1]])
        /\ Prefixed(s, d[1])
        /\ d[2] \in Hits[s[d[1]].line]}

SentSet == {sent[k] : k \in DOMAIN sent}
Owed == {<<off, m.pat>> : m \in todo}
Earlier(d, e) == d[1] < e[1] \/ (d[1] = e[1] /\ d[2] < e[2])

(***************************************************************************)
(* While the open file is not truncated, what has been sent since it was   *)
(* last read from its start, with what is still owed for the line in hand, *)
(* is exactly what the consumed part of the file gives rise to: no match   *)
(* is lost, repeated or out of order, and no fragment of a line matches,   *)
(* whatever the pieces in which the file was written and read.             *)
(***************************************************************************)
ExactlyOnce ==
    (fd # None /\ clean) =>
        /\ SentSet \cup Owed = Due(data[fd], off)
        /\ \A d \in SentSet, e \in Owed : Earlier(d, e)
        /\ \A a, b \in DOMAIN sent : a < b => Earlier(sent[a], sent[b])

(***************************************************************************)
(* The match of a line is sent at most once in the tailer's life: a step   *)
(* that sends, sends something new.  The counters of every log collector   *)
(* rest on it.                                                             *)
(***************************************************************************)
NeverTwice == [][Len(sent') > Len(sent) => ever' # ever]_vars

Complete(i, d) == d[1] <= Len(data[i]) /\ d \in Due(data[i], Len(data[i]))

(***************************************************************************)
(* A complete matching line in the file that is the newest is reported,    *)
(* unless another file becomes the newest first or the tailer is stopped.  *)
(***************************************************************************)
NewestReported ==
    \A p \in Paths, i \in Inodes, d \in (1 .. MaxCells) \X Pats :
        (IsLatest(p) /\ dir[p] = i /\ Complete(i, d))
            ~> (<<i, d[1], d[2]>> \in ever \/ ~IsLatest(p) \/ dir[p] # i \/ cancelled)

(***************************************************************************)
(* After the context is cancelled the goroutine ends and closes the        *)
(* channel, even if the channel is full and nobody reads it any more.      *)
(***************************************************************************)
Stops == cancelled ~> (pc = "closed")

(***************************************************************************)
(* The buffer of the drain in progress is what follows the read position   *)
(* in the file.  With ExactlyOnce it makes an inductive invariant.         *)
(***************************************************************************)
BufferFollows ==
    (fd # None /\ clean) =>
        /\ off + Len(buf) <= Len(data[fd])
        /\ \A k \in DOMAIN buf : buf[k] = data[fd][off + k]
        /\ off = 0 \/ Ends(data[fd][off])

\* A drain has an open file; a file is examined or opened by its name.
InDrain ==
    /\ pc \in {"read", "emit"} => fd # None
    /\ pc \in {"examine", "open"} => path # None

\* What is owed belongs to one line, and only a cancelled drain, which is the
\* last one, leaves anything owed behind.
OwedInHand ==
    /\ \A m, n \in todo : m.line = n.line
    /\ todo # {} => \/ pc = "emit"
                    \/ cancelled /\ pc \in {"wait", "check", "closed"}

TypeInv == TypeOK /\ InDrain

IInv == TypeInv /\ BufferFollows /\ ExactlyOnce /\ OwedInHand

-----------------------------------------------------------------------------
(* The tailer as a feed.                                                   *)

FileMatch(d) == <<d[1], [line |-> data[fd][d[1]].line, pat |-> d[2]]>>

FeedDue ==
    IF fd = None THEN {} ELSE {FileMatch(d) : d \in Due(data[fd], Len(data[fd]))}
FeedGiven == {FileMatch(d) : d \in SentSet}

Feed == INSTANCE LogFeed WITH
    Feeds <- {"tail"},
    Matches <- Match,
    Order <- LAMBDA m : m.pat,
    due <- [f \in {"tail"} |-> FeedDue],
    given <- [f \in {"tail"} |-> FeedGiven],
    out <- [f \in {"tail"} |-> out],
    closed <- [f \in {"tail"} |-> pc = "closed"]

(***************************************************************************)
(* As long as no file is truncated the tailer implements LogFeed: every    *)
(* step of loop and drain is a step of the feed or changes nothing of it,  *)
(* so collectors may be studied on the feed alone.                         *)
(***************************************************************************)
ImplementsFeed == Feed!FeedSpec
=============================================================================
