--------------------------- MODULE ProgressChannel ---------------------------
(* The progress events: the handlers of transfers and applies send them on    *)
(* one bounded broadcast channel, and any number of event streams read it,    *)
(* each at its own pace. The channel is tokio's and external: it keeps the    *)
(* last Capacity events, and a stream that falls further behind is moved on   *)
(* to the oldest that is left, which events_handler does not tell its client. *)
EXTENDS Integers, Sequences

CONSTANTS
    Requests,
    KindOf,      \* [Requests -> {"transfer", "apply"}]
    Streams,     \* clients of /demo/events
    Capacity     \* 64

ASSUME ChannelAssumption ==
    /\ KindOf \in [Requests -> {"transfer", "apply"}]
    /\ Capacity \in Nat \ {0}

VARIABLES
    \* the requests
    stage,       \* "idle", "running", "failing", "ok" or "err"
    emitted,     \* how many events of its script the request has sent
    connected,   \* its client is still waiting for the answer
    \* the channel
    sent,        \* all events ever sent
    buffer,      \* the last of them, Capacity at most
    \* the streams
    open,        \* the streams that are subscribed
    next,        \* how many events each has behind it, read or missed
    got          \* what each has passed on to its client

requestVars == <<stage, emitted, connected>>
streamVars  == <<open, next, got>>
channelVars == <<stage, emitted, connected, sent, buffer, open, next, got>>

\* The events in the order of the code. The two signatures of the staged range
\* proof are sent together, after both transactions.
Script ==
    [transfer |-> <<"preflight", "fetch-state", "derive-keys", "generate-proofs",
                    "create-proof-accounts", "equality-proof", "validity-proof",
                    "range-proof-stage-1", "range-proof-stage-2", "submit-transfer",
                    "transfer-and-close", "done">>,
     apply    |-> <<"preflight", "submit-apply-pending", "apply-pending", "done">>]

\* The signature of the transaction that moves the tokens.
MainOf == [transfer |-> "transfer-and-close", apply |-> "apply-pending"]

Length(r) == Len(Script[KindOf[r]])

Names == {Script["transfer"][i] : i \in 1..12} \cup {Script["apply"][i] : i \in 1..4}
             \cup {"error"}

\* The request of an event is known to the model only: the code sends the name.
Event == [req : Requests, name : Names]

Init ==
    /\ stage = [r \in Requests |-> "idle"]
    /\ emitted = [r \in Requests |-> 0]
    /\ connected = [r \in Requests |-> TRUE]
    /\ sent = <<>>
    /\ buffer = <<>>
    /\ open = {}
    /\ next = [s \in Streams |-> 0]
    /\ got = [s \in Streams |-> <<>>]

-----------------------------------------------------------------------------
\* The channel. An event sent while nobody listens is dropped, which is the
\* same as keeping it: a stream starts behind everything that was sent.

\* Mutant of Publish: the buffer holds one event too many.
PublishOverfull(r, name) ==
    LET e == [req |-> r, name |-> name]
    IN  /\ sent' = Append(sent, e)
        /\ buffer' = Append(IF Len(buffer) <= Capacity THEN buffer ELSE Tail(buffer), e)

Publish(r, name) ==
    LET e == [req |-> r, name |-> name]
    IN  /\ sent' = Append(sent, e)
        /\ buffer' = Append(IF Len(buffer) < Capacity THEN buffer ELSE Tail(buffer), e)

Oldest == Len(sent) - Len(buffer)

-----------------------------------------------------------------------------
\* The handlers.

\* "preflight" is sent before anything is read.
Receive(r) ==
    /\ stage[r] = "idle"
    /\ stage' = [stage EXCEPT ![r] = "running"]
    /\ emitted' = [emitted EXCEPT ![r] = 1]
    /\ Publish(r, "preflight")
    /\ UNCHANGED <<connected, streamVars>>

\* What the request was waiting for is there, and the next event is due.
Proceed(r) ==
    /\ stage[r] = "running"
    /\ emitted[r] < Length(r)
    /\ emitted' = [emitted EXCEPT ![r] = @ + 1]
    /\ Publish(r, Script[KindOf[r]][emitted[r] + 1])
    /\ UNCHANGED <<stage, connected, streamVars>>

\* Events that the code does not await anything after.
Followed == {"range-proof-stage-1", "range-proof-stage-2", "transfer-and-close", "apply-pending"}

\* A read, a proof or a transaction fails. After Done it is the reading of the
\* balances for the answer.
Fail(r) ==
    /\ stage[r] = "running"
    /\ Script[KindOf[r]][emitted[r]] \notin Followed
    /\ stage' = [stage EXCEPT ![r] = "failing"]
    /\ UNCHANGED <<emitted, connected, sent, buffer, streamVars>>

\* Mutants of Reports: only the failures of one kind of request are reported,
\* or every failure is.
ReportsTransfersOnly(r) == KindOf[r] = "transfer" /\ emitted[r] \in 2..(Length(r) - 1)

ReportsAppliesOnly(r) == KindOf[r] = "apply" /\ connected[r]

ReportsEverything(r) == emitted[r] > 0

\* A transfer reports what the library returns and nothing else. An apply
\* reports every error, from outside the task that does the work: not if the
\* client has gone, which drops the handler but not the task.
Reports(r) ==
    CASE KindOf[r] = "transfer" -> emitted[r] \in 2..(Length(r) - 1)
      [] KindOf[r] = "apply"    -> connected[r]

Report(r) ==
    /\ stage[r] = "failing"
    /\ stage' = [stage EXCEPT ![r] = "err"]
    /\ IF Reports(r) THEN Publish(r, "error") ELSE UNCHANGED <<sent, buffer>>
    /\ UNCHANGED <<emitted, connected, streamVars>>

Answer(r) ==
    /\ stage[r] = "running"
    /\ emitted[r] = Length(r)
    /\ stage' = [stage EXCEPT ![r] = "ok"]
    /\ UNCHANGED <<emitted, connected, sent, buffer, streamVars>>

Hangup(r) ==
    /\ stage[r] \in {"running", "failing"}
    /\ connected[r]
    /\ connected' = [connected EXCEPT ![r] = FALSE]
    /\ UNCHANGED <<stage, emitted, sent, buffer, streamVars>>

-----------------------------------------------------------------------------
\* The event streams.

\* Mutant of Subscribe: a new stream is served what is still in the buffer.
SubscribeEarlier(s) ==
    /\ s \notin open
    /\ open' = open \cup {s}
    /\ next' = [next EXCEPT ![s] = Oldest]
    /\ got' = [got EXCEPT ![s] = <<>>]
    /\ UNCHANGED <<requestVars, sent, buffer>>

Subscribe(s) ==
    /\ s \notin open
    /\ open' = open \cup {s}
    /\ next' = [next EXCEPT ![s] = Len(sent)]
    /\ got' = [got EXCEPT ![s] = <<>>]
    /\ UNCHANGED <<requestVars, sent, buffer>>

Read(s) ==
    /\ s \in open
    /\ next[s] \in Oldest..(Len(sent) - 1)
    /\ next' = [next EXCEPT ![s] = @ + 1]
    /\ got' = [got EXCEPT ![s] = Append(@, buffer[next[s] - Oldest + 1])]
    /\ UNCHANGED <<requestVars, sent, buffer, open>>

\* What the stream had not read is gone; the error is filtered out.
Lag(s) ==
    /\ s \in open
    /\ next[s] < Oldest
    /\ next' = [next EXCEPT ![s] = Oldest]
    /\ UNCHANGED <<requestVars, sent, buffer, open, got>>

Leave(s) ==
    /\ s \in open
    /\ open' = open \ {s}
    /\ UNCHANGED <<requestVars, sent, buffer, next, got>>

-----------------------------------------------------------------------------
Handle(r) == Proceed(r) \/ Fail(r) \/ Report(r) \/ Answer(r)

Next ==
    \/ \E r \in Requests : Receive(r) \/ Handle(r) \/ Hangup(r)
    \/ \E s \in Streams : Subscribe(s) \/ Read(s) \/ Lag(s) \/ Leave(s)

Spec == Init /\ [][Next]_channelVars

\* A handler that runs goes on: every await of it is answered or gives up. A
\* stream whose client reads is polled.
Fairness ==
    /\ \A r \in Requests : WF_channelVars(Handle(r))
    /\ \A s \in Streams : WF_channelVars(Read(s) \/ Lag(s))

LiveSpec == Spec /\ Fairness

-----------------------------------------------------------------------------
\* Properties.

\* Every variable has its type, and the buffer holds the last events sent, all
\* of them or Capacity.
TypeOK ==
    /\ stage \in [Requests -> {"idle", "running", "failing", "ok", "err"}]
    /\ emitted \in [Requests -> 0..12]
    /\ connected \in [Requests -> BOOLEAN]
    /\ sent \in Seq(Event)
    /\ buffer \in Seq(Event)
    /\ open \subseteq Streams
    /\ next \in [Streams -> Nat]
    /\ got \in [Streams -> Seq(Event)]
    /\ Len(buffer) = (IF Len(sent) < Capacity THEN Len(sent) ELSE Capacity)
    /\ \A i \in 1..Len(buffer) : buffer[i] = sent[Oldest + i]

Sent(r, name) == \E i \in 1..Len(sent) : sent[i] = [req |-> r, name |-> name]

SentBefore(r, name, j) == \E i \in 1..(j - 1) : sent[i] = [req |-> r, name |-> name]

\* Whoever believes the events is not misled about the tokens: Done comes after
\* the signature of the transaction that moved them, nothing of the request
\* comes after Error, and of a transfer nothing after Done either.
TerminalOrder ==
    \A r \in Requests : \A j \in 1..Len(sent) :
        sent[j].req = r =>
            /\ sent[j].name = "done" => SentBefore(r, MainOf[KindOf[r]], j)
            /\ ~SentBefore(r, "error", j)
            /\ KindOf[r] = "transfer" => ~SentBefore(r, "done", j)

Feed == INSTANCE ProgressFeed WITH
    Events <- Event,
    feed   <- sent,
    joined <- open,
    mark   <- next,
    shown  <- got

\* A stream never shows an event out of order, twice, or from before it joined,
\* however the buffer wraps around while it lags.
ImplementsFeed == Feed!FeedSpec

\* Every transfer that has entered the library ends, for the client of the
\* events, with Done or Error; so does every apply that was announced, unless
\* its own client hangs up. A transfer refused before the library gets neither.
EveryOperationConcludes ==
    \A r \in Requests :
        (IF KindOf[r] = "transfer" THEN Sent(r, "fetch-state") ELSE Sent(r, "preflight"))
            ~> Sent(r, "done") \/ Sent(r, "error") \/ (KindOf[r] = "apply" /\ ~connected[r])

Shows(s, r, name) == \E i \in 1..Len(got[s]) : got[s][i] = [req |-> r, name |-> name]

\* A stream that stays open comes to show the end of every transfer that it
\* has seen enter the library, or falls behind by more than the buffer.
EveryStreamConcludes ==
    \A s \in Streams, r \in Requests :
        Shows(s, r, "fetch-state") ~>
            \/ Shows(s, r, "done") \/ Shows(s, r, "error")
            \/ s \notin open
            \/ next[s] < Oldest
=============================================================================
