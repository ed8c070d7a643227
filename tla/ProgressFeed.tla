---------------------------- MODULE ProgressFeed ----------------------------
(* What the event streams promise: everything published is in one order, and  *)
(* a stream shows a part of what is published after it joined, in that order  *)
(* and nothing twice. It may leave events out.                                *)
EXTENDS Integers, Sequences

CONSTANTS Streams, Events

VARIABLES
    feed,     \* everything published
    joined,   \* the streams that are open
    mark,     \* how much of the feed a stream has behind it
    shown     \* what it has shown

feedVars == <<feed, joined, mark, shown>>

FeedInit ==
    /\ feed = <<>>
    /\ joined = {}
    /\ mark = [s \in Streams |-> 0]
    /\ shown = [s \in Streams |-> <<>>]

Publish ==
    /\ \E e \in Events : feed' = Append(feed, e)
    /\ UNCHANGED <<joined, mark, shown>>

Join(s) ==
    /\ s \notin joined
    /\ joined' = joined \cup {s}
    /\ mark' = [mark EXCEPT ![s] = Len(feed)]
    /\ shown' = [shown EXCEPT ![s] = <<>>]
    /\ UNCHANGED feed

Show(s) ==
    /\ s \in joined
    /\ \E i \in (mark[s] + 1)..Len(feed) :
          /\ mark' = [mark EXCEPT ![s] = i]
          /\ shown' = [shown EXCEPT ![s] = Append(@, feed[i])]
    /\ UNCHANGED <<feed, joined>>

\* Events that a stream leaves out.
Miss(s) ==
    /\ s \in joined
    /\ \E i \in (mark[s] + 1)..Len(feed) : mark' = [mark EXCEPT ![s] = i]
    /\ UNCHANGED <<feed, joined, shown>>

Part(s) ==
    /\ s \in joined
    /\ joined' = joined \ {s}
    /\ UNCHANGED <<feed, mark, shown>>

FeedNext == Publish \/ \E s \in Streams : Join(s) \/ Show(s) \/ Miss(s) \/ Part(s)

FeedSpec == FeedInit /\ [][FeedNext]_feedVars
=============================================================================
