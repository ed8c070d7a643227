----------------------- MODULE ProgressChannelProofs -----------------------
(* Proofs about ProgressChannel, for any number of requests and streams and   *)
(* any capacity of the channel.                                               *)
EXTENDS ProgressChannel, TLAPS

\* The position of the main signature in the script of a kind.
MainPos(k) == IF k = "transfer" THEN 11 ELSE 3

\* The scripts: "done" is last, the main signature comes right before it, and
\* "error" is in none of them.
LEMMA ScriptFacts ==
    ASSUME NEW k \in {"transfer", "apply"}
    PROVE  /\ Len(Script[k]) = MainPos(k) + 1
           /\ \A i \in 1..Len(Script[k]) :
                 /\ Script[k][i] \in Names
                 /\ Script[k][i] # "error"
                 /\ Script[k][i] = "done" <=> i = Len(Script[k])
           /\ Script[k][MainPos(k)] = MainOf[k]
<1>1. CASE k = "transfer"
  <2> DEFINE s == Script["transfer"]
  <2>1. /\ Len(s) = 12
        /\ s[1] = "preflight" /\ s[2] = "fetch-state" /\ s[3] = "derive-keys"
        /\ s[4] = "generate-proofs" /\ s[5] = "create-proof-accounts"
        /\ s[6] = "equality-proof" /\ s[7] = "validity-proof"
        /\ s[8] = "range-proof-stage-1" /\ s[9] = "range-proof-stage-2"
        /\ s[10] = "submit-transfer" /\ s[11] = "transfer-and-close" /\ s[12] = "done"
    BY DEF Script
  <2>2. \A i \in 1..12 : s[i] \in Names
    BY DEF Names
  <2>3. \A i \in 1..12 : \/ i = 1 \/ i = 2 \/ i = 3 \/ i = 4 \/ i = 5 \/ i = 6
                         \/ i = 7 \/ i = 8 \/ i = 9 \/ i = 10 \/ i = 11 \/ i = 12
    OBVIOUS
  <2> HIDE DEF s
  <2>4. \A i \in 1..12 : s[i] # "error" /\ (s[i] = "done" <=> i = 12)
    BY <2>1, <2>3
  <2>5. QED BY <1>1, <2>1, <2>2, <2>4 DEF s, MainPos, MainOf
<1>2. CASE k = "apply"
  <2> DEFINE s == Script["apply"]
  <2>1. /\ Len(s) = 4
        /\ s[1] = "preflight" /\ s[2] = "submit-apply-pending"
        /\ s[3] = "apply-pending" /\ s[4] = "done"
    BY DEF Script
  <2>2. \A i \in 1..4 : s[i] \in Names
    BY DEF Names
  <2>3. \A i \in 1..4 : i = 1 \/ i = 2 \/ i = 3 \/ i = 4
    OBVIOUS
  <2> HIDE DEF s
  <2>4. \A i \in 1..4 : s[i] # "error" /\ (s[i] = "done" <=> i = 4)
    BY <2>1, <2>3
  <2>5. QED BY <1>2, <2>1, <2>2, <2>4 DEF s, MainPos, MainOf
<1>3. QED BY <1>1, <1>2

-----------------------------------------------------------------------------
\* The inductive invariant.

\* A request that is being handled has sent some of its script, "error" is sent
\* when the request is over, and "done" last of the script.
RequestOK(r) ==
    /\ emitted[r] <= Length(r)
    /\ stage[r] # "idle" => emitted[r] >= 1
    /\ stage[r] = "idle" => emitted[r] = 0
    /\ Sent(r, "error") => stage[r] = "err"
    /\ Sent(r, "done") => emitted[r] = Length(r)
    /\ emitted[r] >= MainPos(KindOf[r]) => Sent(r, MainOf[KindOf[r]])

IInv ==
    /\ TypeOK
    /\ \A s \in Streams : next[s] <= Len(sent)
    /\ \A r \in Requests : RequestOK(r)
    /\ TerminalOrder

\* What one more event does to the channel.
LEMMA PublishKeepsChannel ==
    ASSUME TypeOK, NEW r \in Requests, NEW name \in Names, Publish(r, name)
    PROVE  /\ sent' \in Seq(Event)
           /\ Len(sent') = Len(sent) + 1
           /\ sent'[Len(sent) + 1] = [req |-> r, name |-> name]
           /\ \A i \in 1..Len(sent) : sent'[i] = sent[i]
           /\ buffer' \in Seq(Event)
           /\ Len(buffer') = (IF Len(sent') < Capacity THEN Len(sent') ELSE Capacity)
           /\ \A i \in 1..Len(buffer') : buffer'[i] = sent'[Len(sent') - Len(buffer') + i]
<1> DEFINE e == [req |-> r, name |-> name]
           n == Len(sent)
           m == Len(buffer)
<1>1. /\ Capacity \in Nat /\ Capacity > 0
      /\ sent \in Seq(Event) /\ buffer \in Seq(Event) /\ e \in Event
      /\ n \in Nat /\ m \in Nat
      /\ m = (IF n < Capacity THEN n ELSE Capacity)
      /\ \A i \in 1..m : buffer[i] = sent[n - m + i]
  <2>1. Capacity \in Nat /\ Capacity > 0
    BY ChannelAssumption
  <2>2. sent \in Seq(Event) /\ buffer \in Seq(Event)
    BY DEF TypeOK
  <2>3. n \in Nat /\ m \in Nat
    BY <2>2
  <2>4. e \in Event
    BY DEF Event
  <2>5. m = (IF n < Capacity THEN n ELSE Capacity)
    BY DEF TypeOK
  <2>6. \A i \in 1..m : buffer[i] = sent[n - m + i]
    BY DEF TypeOK, Oldest
  <2>7. QED BY <2>1, <2>2, <2>3, <2>4, <2>5, <2>6
<1>2. sent' = Append(sent, e)
  BY DEF Publish
<1>3. /\ sent' \in Seq(Event) /\ Len(sent') = n + 1 /\ sent'[n + 1] = e
      /\ \A i \in 1..n : sent'[i] = sent[i]
  BY <1>1, <1>2
<1>4. CASE m < Capacity
  <2>1. buffer' = Append(buffer, e)
    BY <1>4 DEF Publish
  <2>2. /\ buffer' \in Seq(Event) /\ Len(buffer') = m + 1 /\ buffer'[m + 1] = e
        /\ \A i \in 1..m : buffer'[i] = buffer[i]
    BY <1>1, <2>1
  <2>3. m = n
    BY <1>1, <1>4
  <2> HIDE DEF e, n, m
  <2>4. \A i \in 1..(m + 1) : buffer'[i] = sent'[i]
    <3> SUFFICES ASSUME NEW i \in 1..(m + 1) PROVE buffer'[i] = sent'[i]
      OBVIOUS
    <3>1. CASE i = m + 1
      BY <3>1, <1>1, <1>3, <2>2, <2>3
    <3>2. CASE i \in 1..m
      <4>1. n - m + i = i /\ i \in 1..n
        BY <3>2, <1>1, <2>3
      <4>2. QED BY <3>2, <4>1, <1>1, <1>3, <2>2
    <3>3. QED BY <1>1, <3>1, <3>2
  <2>5. Len(buffer') = (IF Len(sent') < Capacity THEN Len(sent') ELSE Capacity)
    BY <1>1, <1>3, <1>4, <2>2, <2>3
  <2>6. \A i \in 1..Len(buffer') : buffer'[i] = sent'[Len(sent') - Len(buffer') + i]
    <3>1. Len(sent') - Len(buffer') = 0
      BY <1>1, <1>3, <2>2, <2>3
    <3>2. QED BY <1>1, <3>1, <2>2, <2>4
  <2>7. QED BY <1>3, <2>2, <2>5, <2>6 DEF e, n
<1>5. CASE ~(m < Capacity)
  <2>1. m = Capacity /\ n >= m
    BY <1>1, <1>5
  <2>2. buffer' = Append(Tail(buffer), e)
    BY <1>5 DEF Publish
  <2>3. /\ Tail(buffer) \in Seq(Event) /\ Len(Tail(buffer)) = m - 1
        /\ \A i \in 1..(m - 1) : Tail(buffer)[i] = buffer[i + 1]
    BY <1>1, <2>1
  <2>4. /\ buffer' \in Seq(Event) /\ Len(buffer') = m /\ buffer'[m] = e
        /\ \A i \in 1..(m - 1) : buffer'[i] = buffer[i + 1]
    BY <1>1, <2>1, <2>2, <2>3
  <2> HIDE DEF e, n, m
  <2>5. \A i \in 1..m : buffer'[i] = sent'[n + 1 - m + i]
    <3> SUFFICES ASSUME NEW i \in 1..m PROVE buffer'[i] = sent'[n + 1 - m + i]
      OBVIOUS
    <3>1. CASE i = m
      BY <3>1, <1>1, <1>3, <2>4
    <3>2. CASE i \in 1..(m - 1)
      <4>1. i + 1 \in 1..m /\ n - m + (i + 1) \in 1..n /\ n - m + (i + 1) = n + 1 - m + i
        BY <3>2, <1>1, <2>1
      <4>2. QED BY <3>2, <4>1, <1>1, <1>3, <2>4
    <3>3. QED BY <1>1, <3>1, <3>2
  <2>6. Len(buffer') = (IF Len(sent') < Capacity THEN Len(sent') ELSE Capacity)
    BY <1>1, <1>3, <2>1, <2>4
  <2>7. QED BY <1>3, <2>4, <2>5, <2>6 DEF e, n
<1>6. QED BY <1>4, <1>5

LEMMA InitIInv == Init => IInv
<1> SUFFICES ASSUME Init PROVE IInv
  OBVIOUS
<1>1. sent = <<>> /\ buffer = <<>> /\ Len(sent) = 0 /\ Len(buffer) = 0
  BY DEF Init
<1>2. TypeOK
  <2>1. Len(buffer) = (IF Len(sent) < Capacity THEN Len(sent) ELSE Capacity)
    BY <1>1, ChannelAssumption
  <2>2. \A i \in 1..Len(buffer) : buffer[i] = sent[Oldest + i]
    BY <1>1
  <2>3. sent \in Seq(Event) /\ buffer \in Seq(Event)
    BY <1>1
  <2>4. got \in [Streams -> Seq(Event)]
    BY DEF Init
  <2>5. QED BY <2>1, <2>2, <2>3, <2>4 DEF Init, TypeOK
<1>3. ASSUME NEW r \in Requests PROVE RequestOK(r)
  <2>1. KindOf[r] \in {"transfer", "apply"}
    BY ChannelAssumption
  <2>2. Length(r) = MainPos(KindOf[r]) + 1
    BY <2>1, ScriptFacts DEF Length
  <2>3. QED BY <1>1, <2>1, <2>2 DEF RequestOK, Sent, Init, MainPos
<1>4. TerminalOrder
  BY <1>1 DEF TerminalOrder
<1>5. QED BY <1>1, <1>2, <1>3, <1>4 DEF IInv, Init

\* An event has been sent after the step if it had been before, or is the new one.
LEMMA SentMore ==
    ASSUME sent \in Seq(Event), sent' \in Seq(Event), Len(sent') = Len(sent) + 1,
           \A i \in 1..Len(sent) : sent'[i] = sent[i],
           NEW q, NEW m,
           NEW e, sent'[Len(sent) + 1] = e
    PROVE  /\ Sent(q, m)' <=> Sent(q, m) \/ e = [req |-> q, name |-> m]
           /\ \A j \in 1..Len(sent) : SentBefore(q, m, j)' <=> SentBefore(q, m, j)
           /\ \A j \in {Len(sent) + 1} : SentBefore(q, m, j)' <=> Sent(q, m)
<1> DEFINE n == Len(sent)
           f == [req |-> q, name |-> m]
<1>1. n \in Nat
  OBVIOUS
<1>2. 1..Len(sent') = (1..n) \cup {n + 1} /\ 1..(n + 1 - 1) = 1..n
  BY <1>1
<1>3. \A j \in 1..n : 1..(j - 1) \subseteq 1..n
  BY <1>1
<1>4. Sent(q, m)' <=> Sent(q, m) \/ e = f
  <2>1. Sent(q, m)' <=> \E i \in (1..n) \cup {n + 1} : sent'[i] = f
    BY <1>2 DEF Sent
  <2>2. QED BY <2>1 DEF Sent
<1>5. \A j \in 1..n : SentBefore(q, m, j)' <=> SentBefore(q, m, j)
  BY <1>3 DEF SentBefore
<1>6. \A j \in {n + 1} : SentBefore(q, m, j)' <=> Sent(q, m)
  BY <1>2 DEF SentBefore, Sent
<1>7. QED BY <1>4, <1>5, <1>6

\* An event that may be sent keeps the order of the terminal events.
LEMMA PublishKeepsOrder ==
    ASSUME IInv, NEW r \in Requests, NEW name \in Names, Publish(r, name),
           name = "done" => Sent(r, MainOf[KindOf[r]]),
           ~Sent(r, "error"),
           KindOf[r] = "transfer" => ~Sent(r, "done")
    PROVE  TerminalOrder'
<1> DEFINE n == Len(sent)
           e == [req |-> r, name |-> name]
<1>1. /\ sent \in Seq(Event) /\ sent' \in Seq(Event)
      /\ Len(sent') = n + 1
      /\ sent'[n + 1] = e
      /\ \A i \in 1..n : sent'[i] = sent[i]
      /\ n \in Nat
  BY PublishKeepsChannel DEF IInv, TypeOK
<1>2. ASSUME NEW q, NEW m
      PROVE  /\ \A j \in 1..n : SentBefore(q, m, j)' <=> SentBefore(q, m, j)
             /\ \A j \in {n + 1} : SentBefore(q, m, j)' <=> Sent(q, m)
  BY <1>1, SentMore
<1>3. SUFFICES ASSUME NEW q \in Requests, NEW j \in 1..(n + 1), sent'[j].req = q
      PROVE  /\ sent'[j].name = "done" => SentBefore(q, MainOf[KindOf[q]], j)'
             /\ ~SentBefore(q, "error", j)'
             /\ KindOf[q] = "transfer" => ~SentBefore(q, "done", j)'
  BY <1>1 DEF TerminalOrder
<1>4. CASE j \in 1..n
  <2>1. sent'[j] = sent[j]
    BY <1>1, <1>4
  <2>2. /\ sent[j].name = "done" => SentBefore(q, MainOf[KindOf[q]], j)
        /\ ~SentBefore(q, "error", j)
        /\ KindOf[q] = "transfer" => ~SentBefore(q, "done", j)
    BY <1>3, <1>4, <2>1 DEF IInv, TerminalOrder
  <2>3. QED BY <1>2, <1>4, <2>1, <2>2
<1>5. CASE j = n + 1
  <2>1. q = r /\ sent'[j].name = name
    BY <1>1, <1>3, <1>5
  <2>2. QED BY <1>2, <1>5, <2>1
<1>6. QED BY <1>1, <1>4, <1>5

-----------------------------------------------------------------------------
\* The handlers keep the invariant.

\* A step of request r that sends name leaves the others as they are.
LEMMA OthersKept ==
    ASSUME IInv, NEW r \in Requests, NEW name \in Names, Publish(r, name),
           NEW q \in Requests, q # r, stage'[q] = stage[q], emitted'[q] = emitted[q]
    PROVE  RequestOK(q)'
<1>1. ASSUME NEW m PROVE Sent(q, m)' <=> Sent(q, m)
  <2> DEFINE e == [req |-> r, name |-> name]
  <2>1. Sent(q, m)' <=> Sent(q, m) \/ e = [req |-> q, name |-> m]
    BY PublishKeepsChannel, SentMore DEF IInv, TypeOK
  <2>2. e # [req |-> q, name |-> m]
    OBVIOUS
  <2>3. QED BY <2>1, <2>2
<1>2. QED BY <1>1 DEF IInv, RequestOK, Length

LEMMA SilentStep ==
    ASSUME IInv, sent' = sent, buffer' = buffer, NEW q \in Requests,
           emitted'[q] = emitted[q],
           stage'[q] = stage[q] \/ (stage[q] \notin {"idle", "err"} /\ stage'[q] # "idle")
    PROVE  RequestOK(q)'
<1>1. \A m : Sent(q, m)' <=> Sent(q, m)
  BY DEF Sent
<1>2. QED BY <1>1 DEF IInv, RequestOK, Length

\* The step that sends name for request r: what is left to show.
LEMMA PublishKeepsIInv ==
    ASSUME IInv, NEW r \in Requests, NEW name \in Names, Publish(r, name),
           name = "done" => Sent(r, MainOf[KindOf[r]]),
           ~Sent(r, "error"),
           KindOf[r] = "transfer" => ~Sent(r, "done"),
           UNCHANGED <<connected, streamVars>>,
           stage' \in [Requests -> {"idle", "running", "failing", "ok", "err"}],
           emitted' \in [Requests -> 0..12],
           \A q \in Requests \ {r} : stage'[q] = stage[q] /\ emitted'[q] = emitted[q],
           RequestOK(r)'
    PROVE  IInv'
<1>1. /\ sent' \in Seq(Event) /\ buffer' \in Seq(Event)
      /\ Len(sent') = Len(sent) + 1
      /\ Len(buffer') = (IF Len(sent') < Capacity THEN Len(sent') ELSE Capacity)
      /\ \A i \in 1..Len(buffer') : buffer'[i] = sent'[Len(sent') - Len(buffer') + i]
  BY PublishKeepsChannel DEF IInv
<1>2. TypeOK'
  BY <1>1 DEF IInv, TypeOK, Oldest, streamVars
<1>3. \A s \in Streams : next'[s] <= Len(sent')
  BY <1>1 DEF IInv, TypeOK, streamVars
<1>4. \A q \in Requests : RequestOK(q)'
  BY OthersKept
<1>5. TerminalOrder'
  BY PublishKeepsOrder
<1>6. QED BY <1>2, <1>3, <1>4, <1>5 DEF IInv

\* The sending of name for request r, seen from the request itself.
LEMMA SentBySelf ==
    ASSUME IInv, NEW r \in Requests, NEW name \in Names, Publish(r, name), NEW m
    PROVE  Sent(r, m)' <=> Sent(r, m) \/ m = name
<1> DEFINE e == [req |-> r, name |-> name]
<1>1. Sent(r, m)' <=> Sent(r, m) \/ e = [req |-> r, name |-> m]
  BY PublishKeepsChannel, SentMore DEF IInv, TypeOK
<1>2. QED BY <1>1

LEMMA KindFacts ==
    ASSUME NEW r \in Requests
    PROVE  /\ KindOf[r] \in {"transfer", "apply"}
           /\ Length(r) = MainPos(KindOf[r]) + 1
           /\ Length(r) \in Nat /\ Length(r) >= 4 /\ Length(r) <= 12
           /\ "error" \in Names /\ "preflight" \in Names
           /\ MainOf[KindOf[r]] \notin {"error", "done"}
           /\ Script[KindOf[r]][1] = "preflight"
<1>1. KindOf[r] \in {"transfer", "apply"}
  BY ChannelAssumption
<1>2. Length(r) = MainPos(KindOf[r]) + 1
  BY <1>1, ScriptFacts DEF Length
<1>3. Script[KindOf[r]][1] = "preflight"
  BY <1>1 DEF Script
<1>4. "preflight" \in Names
  <2>1. Script["apply"][1] = "preflight"
    BY DEF Script
  <2>2. QED BY <2>1 DEF Names
<1>5. QED BY <1>1, <1>2, <1>3, <1>4 DEF MainPos, MainOf, Names

LEMMA ReceiveKeepsIInv ==
    ASSUME IInv, NEW r \in Requests, Receive(r)
    PROVE  IInv'
<1>1. /\ stage[r] = "idle" /\ emitted[r] = 0
      /\ ~Sent(r, "error") /\ ~Sent(r, "done")
      /\ TypeOK
  BY KindFacts DEF Receive, IInv, RequestOK
<1>2. /\ stage' = [stage EXCEPT ![r] = "running"] /\ emitted' = [emitted EXCEPT ![r] = 1]
      /\ Publish(r, "preflight") /\ UNCHANGED <<connected, streamVars>>
  BY DEF Receive
<1>3. stage'[r] = "running" /\ emitted'[r] = 1
  BY <1>1, <1>2 DEF TypeOK
<1>4. \A m : Sent(r, m)' <=> Sent(r, m) \/ m = "preflight"
  BY <1>2, SentBySelf, KindFacts
<1>5. RequestOK(r)'
  <2>1. 1 <= Length(r) /\ ~(1 >= MainPos(KindOf[r]))
    BY KindFacts DEF MainPos
  <2>2. QED BY <1>1, <1>3, <1>4, <2>1 DEF RequestOK, Length
<1>6. /\ stage' \in [Requests -> {"idle", "running", "failing", "ok", "err"}]
      /\ emitted' \in [Requests -> 0..12]
      /\ \A q \in Requests \ {r} : stage'[q] = stage[q] /\ emitted'[q] = emitted[q]
  BY <1>1, <1>2 DEF TypeOK
<1>7. "preflight" \in Names
  BY KindFacts
<1>8. QED BY <1>1, <1>2, <1>5, <1>6, <1>7, PublishKeepsIInv

LEMMA ProceedKeepsIInv ==
    ASSUME IInv, NEW r \in Requests, Proceed(r)
    PROVE  IInv'
<1> DEFINE k == emitted[r] + 1
           name == Script[KindOf[r]][k]
<1>1. /\ stage[r] = "running" /\ emitted[r] >= 1 /\ emitted[r] < Length(r)
      /\ emitted[r] \in Nat /\ k \in 1..Length(r)
      /\ TypeOK /\ RequestOK(r)
  <2>1. TypeOK /\ RequestOK(r)
    BY DEF IInv
  <2>2. stage[r] = "running" /\ emitted[r] < Length(r)
    BY DEF Proceed
  <2>3. emitted[r] \in Nat
    <3>1. emitted \in [Requests -> 0..12]
      BY <2>1 DEF TypeOK
    <3>2. emitted[r] \in 0..12
      BY <3>1
    <3>3. QED BY <3>2
  <2>4. emitted[r] >= 1
    BY <2>1, <2>2 DEF RequestOK
  <2>5. Length(r) \in Nat
    BY KindFacts
  <2>6. QED BY <2>1, <2>2, <2>3, <2>4, <2>5
<1>2. /\ stage' = stage /\ emitted' = [emitted EXCEPT ![r] = k]
      /\ Publish(r, name) /\ UNCHANGED <<connected, streamVars>>
  BY DEF Proceed
<1>3. emitted'[r] = k /\ stage'[r] = "running"
  BY <1>1, <1>2 DEF TypeOK
<1>4. /\ name \in Names /\ name # "error"
      /\ name = "done" <=> k = Length(r)
      /\ k = MainPos(KindOf[r]) => name = MainOf[KindOf[r]]
  <2> DEFINE kind == KindOf[r]
  <2>1. kind \in {"transfer", "apply"}
    BY KindFacts
  <2> HIDE DEF kind
  <2>2. /\ \A i \in 1..Len(Script[kind]) :
              /\ Script[kind][i] \in Names
              /\ Script[kind][i] # "error"
              /\ Script[kind][i] = "done" <=> i = Len(Script[kind])
        /\ Script[kind][MainPos(kind)] = MainOf[kind]
    BY <2>1, ScriptFacts
  <2>3. k \in 1..Len(Script[kind]) /\ Length(r) = Len(Script[kind])
    BY <1>1 DEF Length, kind
  <2> HIDE DEF k
  <2>4. /\ Script[kind][k] \in Names /\ Script[kind][k] # "error"
        /\ Script[kind][k] = "done" <=> k = Length(r)
        /\ k = MainPos(kind) => Script[kind][k] = MainOf[kind]
    BY <2>2, <2>3
  <2>5. QED BY <2>4 DEF kind
<1>5. ~Sent(r, "error") /\ ~Sent(r, "done")
  BY <1>1 DEF RequestOK
<1>6. name = "done" => Sent(r, MainOf[KindOf[r]])
  <2>1. Length(r) = MainPos(KindOf[r]) + 1 /\ MainPos(KindOf[r]) \in Nat
    BY KindFacts DEF MainPos
  <2>2. QED BY <1>1, <1>4, <2>1 DEF RequestOK
<1> HIDE DEF name
<1>7. \A m : Sent(r, m)' <=> Sent(r, m) \/ m = name
  BY <1>2, <1>4, SentBySelf
<1>8. RequestOK(r)'
  <2>1. k <= Length(r) /\ k >= 1 /\ Length(r)' = Length(r)
    BY <1>1 DEF Length
  <2>2. k >= MainPos(KindOf[r]) => Sent(r, MainOf[KindOf[r]])'
    <3>1. MainPos(KindOf[r]) \in Nat
      BY DEF MainPos
    <3>2. CASE k = MainPos(KindOf[r])
      BY <3>2, <1>4, <1>7
    <3>3. CASE k > MainPos(KindOf[r])
      BY <3>1, <3>3, <1>1, <1>7 DEF RequestOK
    <3>4. QED BY <1>1, <3>1, <3>2, <3>3
  <2>3. QED BY <1>3, <1>4, <1>5, <1>7, <2>1, <2>2 DEF RequestOK
<1>9. /\ stage' \in [Requests -> {"idle", "running", "failing", "ok", "err"}]
      /\ emitted' \in [Requests -> 0..12]
      /\ \A q \in Requests \ {r} : stage'[q] = stage[q] /\ emitted'[q] = emitted[q]
  BY <1>1, <1>2, KindFacts DEF TypeOK
<1>10. QED BY <1>2, <1>4, <1>5, <1>6, <1>8, <1>9, PublishKeepsIInv

LEMMA ReportKeepsIInv ==
    ASSUME IInv, NEW r \in Requests, Report(r)
    PROVE  IInv'
<1>1. /\ stage[r] = "failing" /\ TypeOK /\ RequestOK(r)
      /\ stage' = [stage EXCEPT ![r] = "err"] /\ emitted' = emitted
      /\ UNCHANGED <<connected, streamVars>>
  BY DEF Report, IInv
<1>2. /\ stage'[r] = "err"
      /\ stage' \in [Requests -> {"idle", "running", "failing", "ok", "err"}]
      /\ emitted' \in [Requests -> 0..12]
      /\ \A q \in Requests \ {r} : stage'[q] = stage[q] /\ emitted'[q] = emitted[q]
  BY <1>1 DEF TypeOK
<1>3. ~Sent(r, "error")
  BY <1>1 DEF RequestOK
<1>4. CASE Reports(r)
  <2>1. Publish(r, "error")
    BY <1>4 DEF Report
  <2>2. \A m : Sent(r, m)' <=> Sent(r, m) \/ m = "error"
    BY <2>1, SentBySelf, KindFacts
  <2>3. KindOf[r] = "transfer" => ~Sent(r, "done")
    BY <1>1, <1>4, KindFacts DEF Reports, RequestOK
  <2>4. RequestOK(r)'
    BY <1>1, <1>2, <2>2 DEF RequestOK, Length
  <2>5. "error" \in Names
    BY KindFacts
  <2>6. QED BY <1>1, <1>2, <1>3, <2>1, <2>3, <2>4, <2>5, PublishKeepsIInv
<1>5. CASE ~Reports(r)
  <2>1. sent' = sent /\ buffer' = buffer
    BY <1>5 DEF Report
  <2>2. \A q \in Requests : RequestOK(q)'
    BY <1>1, <1>2, <2>1, SilentStep
  <2>3. TypeOK'
    BY <1>1, <1>2, <2>1 DEF TypeOK, Oldest, streamVars
  <2>4. TerminalOrder'
    BY <2>1 DEF IInv, TerminalOrder, SentBefore
  <2>5. \A s \in Streams : next'[s] <= Len(sent')
    BY <1>1, <2>1 DEF IInv, streamVars
  <2>6. QED BY <2>2, <2>3, <2>4, <2>5 DEF IInv
<1>6. QED BY <1>4, <1>5

\* The steps that send nothing.
LEMMA SilentKeepsIInv ==
    ASSUME IInv, sent' = sent, buffer' = buffer, TypeOK',
           \A s \in Streams : next'[s] <= Len(sent),
           \A q \in Requests :
              /\ emitted'[q] = emitted[q]
              /\ stage'[q] = stage[q] \/ (stage[q] \notin {"idle", "err"} /\ stage'[q] # "idle")
    PROVE  IInv'
<1>1. \A q \in Requests : RequestOK(q)'
  BY SilentStep
<1>2. TerminalOrder'
  BY DEF IInv, TerminalOrder, SentBefore
<1>3. QED BY <1>1, <1>2 DEF IInv

\* What is left to show of a step of a stream, or of a handler that sends nothing.
LEMMA ChannelUntouched ==
    ASSUME TypeOK, sent' = sent, buffer' = buffer,
           stage' \in [Requests -> {"idle", "running", "failing", "ok", "err"}],
           emitted' \in [Requests -> 0..12], connected' \in [Requests -> BOOLEAN],
           open' \subseteq Streams, next' \in [Streams -> Nat],
           got' \in [Streams -> Seq(Event)]
    PROVE  TypeOK'
BY DEF TypeOK, Oldest

LEMMA FailKeepsIInv ==
    ASSUME IInv, NEW r \in Requests, Fail(r) \/ Answer(r) \/ Hangup(r)
    PROVE  IInv'
<1>1. /\ sent' = sent /\ buffer' = buffer /\ emitted' = emitted /\ UNCHANGED streamVars
      /\ TypeOK
  BY DEF Fail, Answer, Hangup, IInv
<1>2. /\ stage' \in [Requests -> {"idle", "running", "failing", "ok", "err"}]
      /\ connected' \in [Requests -> BOOLEAN]
      /\ \A q \in Requests :
            stage'[q] = stage[q] \/ (stage[q] \notin {"idle", "err"} /\ stage'[q] # "idle")
  BY <1>1 DEF Fail, Answer, Hangup, TypeOK
<1>3. TypeOK'
  BY <1>1, <1>2, ChannelUntouched DEF TypeOK, streamVars
<1>4. \A s \in Streams : next'[s] <= Len(sent)
  BY <1>1 DEF IInv, streamVars
<1>5. QED BY <1>1, <1>2, <1>3, <1>4, SilentKeepsIInv

-----------------------------------------------------------------------------
\* The streams keep the invariant.

\* Where the buffer starts.
LEMMA OldestFacts ==
    ASSUME TypeOK
    PROVE  /\ Len(sent) \in Nat /\ Len(buffer) \in Nat /\ Oldest \in Nat
           /\ Oldest + Len(buffer) = Len(sent)
           /\ Oldest > 0 => Len(buffer) = Capacity
           /\ Capacity \in Nat /\ Capacity > 0
<1>1. /\ Len(sent) \in Nat /\ Len(buffer) \in Nat /\ Capacity \in Nat /\ Capacity > 0
      /\ Len(buffer) = (IF Len(sent) < Capacity THEN Len(sent) ELSE Capacity)
  BY ChannelAssumption DEF TypeOK
<1>2. QED BY <1>1 DEF Oldest

\* An event that is read from the buffer is the one at that place of all that
\* were sent.
LEMMA ReadsWhatWasSent ==
    ASSUME TypeOK, NEW s \in Streams, Read(s)
    PROVE  /\ next[s] + 1 \in 1..Len(sent)
           /\ buffer[next[s] - Oldest + 1] = sent[next[s] + 1]
           /\ sent[next[s] + 1] \in Event
<1> DEFINE i == next[s] - Oldest + 1
<1>1. next[s] \in Nat /\ next[s] \in Oldest..(Len(sent) - 1)
  BY DEF TypeOK, Read
<1>2. i \in 1..Len(buffer) /\ Oldest + i = next[s] + 1 /\ next[s] + 1 \in 1..Len(sent)
  BY <1>1, OldestFacts
<1> HIDE DEF i
<1>3. buffer[i] = sent[Oldest + i]
  BY <1>2 DEF TypeOK
<1>4. QED BY <1>2, <1>3 DEF i, TypeOK

LEMMA StreamKeepsIInv ==
    ASSUME IInv, NEW s \in Streams, Subscribe(s) \/ Read(s) \/ Lag(s) \/ Leave(s)
    PROVE  IInv'
<1>1. TypeOK /\ UNCHANGED <<requestVars, sent, buffer>>
  BY DEF IInv, Subscribe, Read, Lag, Leave
<1>2. /\ Len(sent) \in Nat /\ Oldest \in Nat /\ Oldest <= Len(sent)
  BY <1>1, OldestFacts
<1>3. /\ open' \subseteq Streams
      /\ next' \in [Streams -> Nat]
      /\ \A t \in Streams : next'[t] <= Len(sent)
      /\ got' \in [Streams -> Seq(Event)]
  <2>1. CASE Subscribe(s)
    <3>1. next' = [next EXCEPT ![s] = Len(sent)] /\ got' = [got EXCEPT ![s] = <<>>]
      BY <2>1 DEF Subscribe
    <3>2. next' \in [Streams -> Nat] /\ \A t \in Streams : next'[t] <= Len(sent)
      BY <1>1, <1>2, <3>1 DEF IInv, TypeOK
    <3>3. got' \in [Streams -> Seq(Event)]
      BY <1>1, <3>1 DEF TypeOK
    <3>4. QED BY <1>1, <2>1, <3>2, <3>3 DEF Subscribe, TypeOK
  <2>2. CASE Read(s)
    <3> DEFINE e == buffer[next[s] - Oldest + 1]
    <3>1. next[s] \in Nat /\ next[s] + 1 <= Len(sent) /\ e \in Event
      BY <1>1, <1>2, <2>2, ReadsWhatWasSent DEF TypeOK
    <3>2. next' = [next EXCEPT ![s] = next[s] + 1] /\ got' = [got EXCEPT ![s] = Append(got[s], e)]
      BY <2>2 DEF Read
    <3> HIDE DEF e
    <3>3. next' \in [Streams -> Nat] /\ \A t \in Streams : next'[t] <= Len(sent)
      BY <1>1, <1>2, <3>1, <3>2 DEF IInv, TypeOK
    <3>4. Append(got[s], e) \in Seq(Event)
      BY <1>1, <3>1 DEF TypeOK
    <3>5. got' \in [Streams -> Seq(Event)]
      BY <1>1, <3>2, <3>4 DEF TypeOK
    <3>6. QED BY <1>1, <2>2, <3>3, <3>5 DEF Read, TypeOK
  <2>3. CASE Lag(s)
    <3>1. next' = [next EXCEPT ![s] = Oldest] /\ got' = got /\ open' = open
      BY <2>3 DEF Lag
    <3>2. next' \in [Streams -> Nat] /\ \A t \in Streams : next'[t] <= Len(sent)
      BY <1>1, <1>2, <3>1 DEF IInv, TypeOK
    <3>3. QED BY <1>1, <3>1, <3>2 DEF TypeOK
  <2>4. CASE Leave(s)
    BY <1>1, <2>4 DEF Leave, TypeOK, IInv
  <2>5. QED BY <2>1, <2>2, <2>3, <2>4
<1>4. TypeOK'
  BY <1>1, <1>3, ChannelUntouched DEF TypeOK, requestVars
<1>5. QED BY <1>1, <1>3, <1>4, SilentKeepsIInv DEF requestVars

LEMMA NextKeepsIInv == IInv /\ [Next]_channelVars => IInv'
<1> SUFFICES ASSUME IInv, [Next]_channelVars PROVE IInv'
  OBVIOUS
<1>1. ASSUME NEW r \in Requests, Receive(r) PROVE IInv'
  BY <1>1, ReceiveKeepsIInv
<1>2. ASSUME NEW r \in Requests, Handle(r) \/ Hangup(r) PROVE IInv'
  BY <1>2, ProceedKeepsIInv, ReportKeepsIInv, FailKeepsIInv DEF Handle
<1>3. ASSUME NEW s \in Streams, Subscribe(s) \/ Read(s) \/ Lag(s) \/ Leave(s) PROVE IInv'
  BY <1>3, StreamKeepsIInv
<1>4. CASE UNCHANGED channelVars
  <2>1. /\ sent' = sent /\ buffer' = buffer /\ emitted' = emitted /\ stage' = stage
        /\ connected' = connected /\ open' = open /\ next' = next /\ got' = got /\ TypeOK
    BY <1>4 DEF channelVars, IInv
  <2>2. TypeOK'
    BY <2>1, ChannelUntouched DEF TypeOK
  <2>3. \A s \in Streams : next'[s] <= Len(sent)
    BY <2>1 DEF IInv
  <2>4. QED BY <2>1, <2>2, <2>3, SilentKeepsIInv
<1>5. QED BY <1>1, <1>2, <1>3, <1>4 DEF Next

-----------------------------------------------------------------------------
\* The theorems.

\* The inductive invariant holds.
THEOREM ChannelInvariant == Spec => []IInv
<1>1. QED BY InitIInv, NextKeepsIInv, PTL DEF Spec

\* The channel holds the last Capacity events, every variable has its type.
THEOREM ChannelTypeCorrect == Spec => []TypeOK
<1>1. IInv => TypeOK
  BY DEF IInv
<1>2. QED BY <1>1, ChannelInvariant, PTL

\* Done comes after the main signature, nothing comes after Error, and of a
\* transfer nothing after Done, for any number of concurrent requests.
THEOREM EventsInOrder == Spec => []TerminalOrder
<1>1. IInv => TerminalOrder
  BY DEF IInv
<1>2. QED BY <1>1, ChannelInvariant, PTL

-----------------------------------------------------------------------------
\* The refinement.

LEMMA PublishMaps ==
    ASSUME NEW r \in Requests, NEW name \in Names, Publish(r, name), UNCHANGED streamVars
    PROVE  Feed!Publish
<1>1. [req |-> r, name |-> name] \in Event
  BY DEF Event
<1>2. sent' = Append(sent, [req |-> r, name |-> name])
  BY DEF Publish
<1>3. QED BY <1>1, <1>2 DEF Feed!Publish, streamVars

LEMMA HandlerMaps ==
    ASSUME IInv, NEW r \in Requests, Receive(r) \/ Handle(r) \/ Hangup(r)
    PROVE  Feed!Publish \/ UNCHANGED Feed!feedVars
<1>1. CASE Receive(r)
  BY <1>1, PublishMaps, KindFacts DEF Receive
<1>2. CASE Proceed(r)
  <2> DEFINE k == emitted[r] + 1
             kind == KindOf[r]
  <2>1. kind \in {"transfer", "apply"}
    BY KindFacts
  <2>2. k \in 1..Length(r)
    <3>1. emitted \in [Requests -> 0..12]
      BY DEF IInv, TypeOK
    <3>2. emitted[r] \in 0..12
      BY <3>1
    <3>3. Length(r) \in Nat /\ emitted[r] < Length(r)
      BY <1>2, KindFacts DEF Proceed
    <3>4. QED BY <3>2, <3>3
  <2>3. Length(r) = Len(Script[kind])
    BY DEF Length
  <2>4. Publish(r, Script[kind][k]) /\ UNCHANGED streamVars
    BY <1>2 DEF Proceed
  <2> HIDE DEF k, kind
  <2>5. Script[kind][k] \in Names
    BY <2>1, <2>2, <2>3, ScriptFacts
  <2>6. QED BY <2>4, <2>5, PublishMaps
<1>3. CASE Report(r)
  <2>1. CASE Reports(r)
    BY <1>3, <2>1, PublishMaps, KindFacts DEF Report
  <2>2. CASE ~Reports(r)
    BY <1>3, <2>2 DEF Report, Feed!feedVars, streamVars
  <2>3. QED BY <2>1, <2>2
<1>4. CASE Fail(r) \/ Answer(r) \/ Hangup(r)
  BY <1>4 DEF Fail, Answer, Hangup, Feed!feedVars, streamVars
<1>5. QED BY <1>1, <1>2, <1>3, <1>4 DEF Handle

LEMMA StreamMaps ==
    ASSUME IInv, NEW s \in Streams, Subscribe(s) \/ Read(s) \/ Lag(s) \/ Leave(s)
    PROVE  Feed!Join(s) \/ Feed!Show(s) \/ Feed!Miss(s) \/ Feed!Part(s)
<1>1. TypeOK /\ next[s] \in Nat
  BY DEF IInv, TypeOK
<1>2. CASE Subscribe(s)
  BY <1>2 DEF Subscribe, Feed!Join
<1>3. CASE Read(s)
  <2>1. next[s] + 1 \in (next[s] + 1)..Len(sent)
    BY <1>1, <1>3, ReadsWhatWasSent, OldestFacts
  <2>2. got' = [got EXCEPT ![s] = Append(@, sent[next[s] + 1])]
    BY <1>1, <1>3, ReadsWhatWasSent DEF Read
  <2>3. next' = [next EXCEPT ![s] = next[s] + 1] /\ UNCHANGED <<sent, open>> /\ s \in open
    BY <1>3 DEF Read
  <2>4. Feed!Show(s)
    BY <2>1, <2>2, <2>3 DEF Feed!Show
  <2>5. QED BY <2>4
<1>4. CASE Lag(s)
  <2>1. Oldest \in (next[s] + 1)..Len(sent)
    BY <1>1, <1>4, OldestFacts DEF Lag
  <2>2. QED BY <1>4, <2>1 DEF Lag, Feed!Miss
<1>5. CASE Leave(s)
  BY <1>5 DEF Leave, Feed!Part
<1>6. QED BY <1>2, <1>3, <1>4, <1>5

\* The channel with its buffer, its lagging streams and its handlers implements
\* the lossy, ordered feed.
THEOREM Refinement == Spec => ImplementsFeed
<1>1. Init => Feed!FeedInit
  BY DEF Init, Feed!FeedInit
<1>2. IInv /\ [Next]_channelVars => [Feed!FeedNext]_Feed!feedVars
  <2> SUFFICES ASSUME IInv, [Next]_channelVars
               PROVE  Feed!FeedNext \/ UNCHANGED Feed!feedVars
    OBVIOUS
  <2>1. ASSUME NEW r \in Requests, Receive(r) \/ Handle(r) \/ Hangup(r)
        PROVE  Feed!FeedNext \/ UNCHANGED Feed!feedVars
    BY <2>1, HandlerMaps DEF Feed!FeedNext
  <2>2. ASSUME NEW s \in Streams, Subscribe(s) \/ Read(s) \/ Lag(s) \/ Leave(s)
        PROVE  Feed!FeedNext
    BY <2>2, StreamMaps DEF Feed!FeedNext
  <2>3. CASE UNCHANGED channelVars
    BY <2>3 DEF channelVars, Feed!feedVars
  <2>4. QED BY <2>1, <2>2, <2>3 DEF Next
<1>3. QED BY <1>1, <1>2, ChannelInvariant, PTL DEF Spec, ImplementsFeed, Feed!FeedSpec
=============================================================================
