------------------------------- MODULE LogDir -------------------------------
(***************************************************************************)
(* The log directory a tailer follows, as its publisher leaves it: the     *)
(* files by name, their contents, and which of them have the newest        *)
(* modification time.  The publisher is not part of the repository; this   *)
(* module is modelled from how internal/logtail and internal/logfs read    *)
(* the directory.                                                          *)
(*                                                                         *)
(* A file is a sequence of cells, one per write of the publisher.  A       *)
(* "whole" cell is a line with its newline; a line that reaches the file   *)
(* in two writes is a "head" (the timestamp, no newline yet) and a "tail"  *)
(* (the message and the newline).                                          *)
(***************************************************************************)
EXTENDS Integers, Sequences, FiniteSets

CONSTANTS
    Lines,      \* the kinds of line the publisher writes
    NPaths,     \* file names, in the order ReadDir lists them (YYYYMMDD)
    NInodes,    \* inodes: every file ever created has its own
    MaxCells,   \* bound: cells per file
    EnvOps      \* what else happens to the directory, a subset of Ops

Ops == {"partial", "rotate", "late", "tie", "replace", "truncate", "delete"}

ASSUME LogDirAssumption ==
    /\ NPaths \in Nat \ {0}
    /\ NInodes \in Nat \ {0}
    /\ MaxCells \in Nat \ {0}
    /\ EnvOps \subseteq Ops

None == 0
Paths == 1 .. NPaths
Inodes == 1 .. NInodes
Cell == [line : Lines, part : {"whole", "head", "tail"}]

\* A cell that ends a line: its last byte is a newline.
Ends(c) == c.part # "head"

VARIABLES
    dir,        \* name -> inode, None when there is no such file
    data,       \* inode -> content
    newest,     \* the names whose mtime is the largest one
    cur,        \* the name the publisher now writes to
    inodes      \* how many inodes have been used

dirVars == <<dir, data, newest, cur, inodes>>

DirTypeOK ==
    /\ dir \in [Paths -> Inodes \cup {None}]
    /\ data \in [Inodes -> Seq(Cell)]
    /\ newest \in SUBSET Paths
    /\ cur \in Paths \cup {None}
    /\ inodes \in Inodes \cup {0}

DirInit ==
    /\ dir = [p \in Paths |-> None]
    /\ data = [i \in Inodes |-> <<>>]
    /\ newest = {}
    /\ cur = None
    /\ inodes = 0

\* A file just written is the newest; two files written within one tick of
\* the file system's clock have the same mtime.
Touch(p) ==
    \/ newest' = {p}
    \/ /\ "tie" \in EnvOps
       /\ newest' = newest \cup {p}

\* What the publisher may write next: the rest of a line it has begun or,
\* if it died between the two writes, a new line glued to the fragment.
Writable(s, c) ==
    \/ c.part = "whole"
    \/ c.part = "head" /\ "partial" \in EnvOps
    \/ c.part = "tail" /\ s # <<>> /\ s[Len(s)] = [c EXCEPT !.part = "head"]

WriteTo(p, c) ==
    /\ dir[p] # None
    /\ p = cur \/ "late" \in EnvOps
    /\ Len(data[dir[p]]) < MaxCells
    /\ Writable(data[dir[p]], c)
    /\ data' = [data EXCEPT ![dir[p]] = Append(@, c)]
    /\ Touch(p)
    /\ UNCHANGED <<dir, cur, inodes>>

\* The publisher opens the next day's file.
NewDay ==
    /\ cur = None \/ "rotate" \in EnvOps
    /\ cur + 1 \in Paths
    /\ inodes + 1 \in Inodes
    /\ cur' = cur + 1
    /\ inodes' = inodes + 1
    /\ dir' = [dir EXCEPT ![cur + 1] = inodes + 1]
    /\ Touch(cur + 1)
    /\ UNCHANGED data

\* Rotation by rename: the same name, another file.
Replace ==
    /\ "replace" \in EnvOps
    /\ cur # None
    /\ inodes + 1 \in Inodes
    /\ inodes' = inodes + 1
    /\ dir' = [dir EXCEPT ![cur] = inodes + 1]
    /\ Touch(cur)
    /\ UNCHANGED <<data, cur>>

\* Rotation by truncation: the same file, emptied.
Truncate(p) ==
    /\ "truncate" \in EnvOps
    /\ dir[p] # None
    /\ data[dir[p]] # <<>>
    /\ data' = [data EXCEPT ![dir[p]] = <<>>]
    /\ Touch(p)
    /\ UNCHANGED <<dir, cur, inodes>>

\* An old file is cleaned up.
Delete(p) ==
    /\ "delete" \in EnvOps
    /\ p # cur
    /\ dir[p] # None
    /\ dir' = [dir EXCEPT ![p] = None]
    /\ newest' \in IF newest = {p}
                   THEN SUBSET {q \in Paths : dir'[q] # None} \ {{}}
                   ELSE {newest \ {p}}
    /\ UNCHANGED <<data, cur, inodes>>

\* LatestMtime returns p: a strictly later mtime wins, so of several newest
\* files the first one in ReadDir's order is returned.
IsLatest(p) == p \in newest /\ \A q \in newest : p <= q
=============================================================================
