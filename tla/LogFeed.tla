------------------------------- MODULE LogFeed -------------------------------
(***************************************************************************)
(* What a log collector may rely on when it subscribes to a log            *)
(* (internal/logtail/logtail.go, the Tailer interface): for each feed a    *)
(* bounded channel on which the matches of one file arrive in the file's   *)
(* order and without gaps, possibly again from the start, and which is     *)
(* closed only when the context is cancelled.  LogTail implements it; the  *)
(* collectors are built on it.                                             *)
(***************************************************************************)
EXTENDS Integers, Sequences

CONSTANTS
    Feeds,      \* the subscriptions
    Matches,    \* what a Match may be
    Order(_),   \* rank of a Match among the matches of its line
    Cap         \* capacity of a channel

VARIABLES
    due,        \* feed -> <<position, match>> of the file it follows
    given,      \* feed -> those it has sent since it last started the file
    out,        \* feed -> its channel
    closed,     \* feed -> its channel is closed
    cancelled   \* the context is done

feedVars == <<due, given, out, closed, cancelled>>

FeedInit ==
    /\ due = [f \in Feeds |-> {}]
    /\ given = [f \in Feeds |-> {}]
    /\ out = [f \in Feeds |-> <<>>]
    /\ closed = [f \in Feeds |-> FALSE]
    /\ cancelled = FALSE

Sooner(d, e) == d[1] < e[1] \/ (d[1] = e[1] /\ Order(d[2]) < Order(e[2]))

\* The followed file gets new lines: they come after the ones it has.
Grow(f) ==
    /\ due[f]' \in SUBSET (Nat \X Matches)
    /\ due[f] \subseteq due[f]'
    /\ \A n \in due[f]' \ due[f], d \in due[f] : d[1] < n[1]
    /\ UNCHANGED <<given, out, closed, cancelled>>

\* The next match in the file's order is sent.
Deliver(f) ==
    /\ ~closed[f]
    /\ Len(out[f]) < Cap
    /\ \E d \in due[f] \ given[f] :
          /\ \A e \in due[f] \ given[f] : e = d \/ Sooner(d, e)
          /\ given' = [given EXCEPT ![f] = @ \cup {d}]
          /\ out' = [out EXCEPT ![f] = Append(@, d[2])]
    /\ UNCHANGED <<due, closed, cancelled>>

\* The feed starts a file from its beginning: another one, or the same again.
Restart(f) ==
    /\ ~closed[f]
    /\ due[f]' \in SUBSET (Nat \X Matches)
    /\ given' = [given EXCEPT ![f] = {}]
    /\ UNCHANGED <<out, closed, cancelled>>

\* Mutant of Close: the channel is closed only once it has been emptied.
CloseWhenEmpty(f) ==
    /\ cancelled
    /\ ~closed[f]
    /\ out[f] = <<>>
    /\ closed' = [closed EXCEPT ![f] = TRUE]
    /\ UNCHANGED <<due, given, out, cancelled>>

Close(f) ==
    /\ cancelled
    /\ ~closed[f]
    /\ closed' = [closed EXCEPT ![f] = TRUE]
    /\ UNCHANGED <<due, given, out, cancelled>>

Receive(f) ==
    /\ out[f] # <<>>
    /\ out' = [out EXCEPT ![f] = Tail(@)]
    /\ UNCHANGED <<due, given, closed, cancelled>>

Cancel ==
    /\ ~cancelled
    /\ cancelled' = TRUE
    /\ UNCHANGED <<due, given, out, closed>>

OthersKeep(f) == \A g \in Feeds \ {f} : due[g]' = due[g]

FeedNext ==
    \/ Cancel
    \/ \E f \in Feeds :
          \/ Deliver(f) \/ Close(f) \/ Receive(f)
          \/ OthersKeep(f) /\ (Grow(f) \/ Restart(f))

FeedSpec == FeedInit /\ [][FeedNext]_feedVars
=============================================================================
