------------------------------ MODULE LogProofs ------------------------------
(* The event log of DemoServer tells of nothing that has not happened: by the *)
(* time an entry is written, the library call it names has moved its tokens,  *)
(* and it is not forgotten which call that was. The entries are in the order  *)
(* in which they were written, so the one that a full log drops is older than *)
(* all it keeps.                                                              *)
EXTENDS DemoServerProofs

-----------------------------------------------------------------------------
\* What stays.

\* What has landed stays landed, and the call it belongs to is not changed.
LEMMA LandedStays ==
    ASSUME SInv, [ServerNext]_allVars, NEW c \in Calls, c \in landed
    PROVE  c \in landed' /\ call'[c] = call[c]
<1>1. IInv /\ TypeOK
  BY DEF SInv, IInv
<1>2. ASSUME NEW d \in Calls,
             Confirm(d) \/ Fail(d) \/ Timeout(d) \/ LandLate(d) \/ Expire(d)
      PROVE  c \in landed' /\ call' = call
  <2>1. CASE Confirm(d) \/ LandLate(d)
    <3>1. Active(d) /\ Land(d) /\ call' = call
      BY <2>1 DEF Confirm, LandLate, Active
    <3>2. landed' = IF NextTx(d) = call[d].op THEN landed \cup {d} ELSE landed
      BY <1>1, <3>1, LandKeepsContexts
    <3>3. QED BY <3>1, <3>2
  <2>2. CASE Fail(d) \/ Timeout(d) \/ Expire(d)
    BY <2>2 DEF Fail, Timeout, Expire
  <2>3. QED BY <1>2, <2>1, <2>2
<1>3. ASSUME NEW r \in Requests, LibBegin(r) PROVE landed' = landed /\ call'[c] = call[c]
  <2> DEFINE d == <<r, job[r].lib + 1>>
  <2>1. /\ d \in Calls /\ status[d] = "idle" /\ Invoke(d, LibRequest(job[r]))
        /\ \A e \in Calls : e # d => call'[e] = call[e]
    BY <1>3, LibBeginFacts
  <2> HIDE DEF d
  <2>2. d \notin landed /\ landed' = landed
    BY <1>1, <2>1 DEF IInv, CallOK, Untouched, Invoke
  <2>3. QED BY <2>1, <2>2
<1>4. ASSUME NEW r \in Requests, Handle(r) PROVE c \in landed' /\ call'[c] = call[c]
  <2>1. CASE LibBegin(r)
    BY <1>3, <2>1
  <2>2. CASE LibAwait(r)
    BY <1>2, <2>2, LibAwaitFacts
  <2>3. CASE OwnConfirm(r)
    BY <2>3 DEF OwnConfirm, OwnTx, clientVars
  <2>4. CASE \/ CheckMint(r) \/ Ensure(r) \/ Fund(r) \/ Check(r) \/ Preview(r)
             \/ OwnFail(r) \/ OwnTimeout(r) \/ Log(r) \/ View(r) \/ ReadFails(r)
    BY <2>4 DEF CheckMint, Ensure, Fund, Check, Preview, OwnFail, OwnTimeout, Log,
                View, ReadFails, vars
  <2>5. QED BY <1>4, <2>1, <2>2, <2>3, <2>4 DEF Handle
<1>5. ASSUME NEW r \in Requests, NEW b \in Bodies, Receive(r, b)
      PROVE  landed' = landed /\ call' = call
  BY <1>5 DEF Receive, vars
<1>6. ASSUME NEW r \in Requests, OwnLandLate(r) \/ OwnExpire(r)
      PROVE  landed' = landed /\ call' = call
  BY <1>6 DEF OwnLandLate, OwnExpire, OwnTx, clientVars, vars
<1>7. ASSUME NEW d \in Calls, LibSettle(d) PROVE c \in landed' /\ call' = call
  BY <1>2, <1>7 DEF LibSettle
<1>8. CASE Restart
  BY <1>8 DEF Restart
<1>9. CASE UNCHANGED allVars
  BY <1>9 DEF allVars
<1>10. QED BY <1>4, <1>5, <1>6, <1>7, <1>8, <1>9 DEF ServerNext

\* The log is only changed by an entry, or lost with the process.
LEMMA EventsSteps ==
    ASSUME SInv, [ServerNext]_allVars
    PROVE  events' = events \/ Restart \/ \E r \in Requests : Log(r)
<1>1. ASSUME NEW r \in Requests, Handle(r), ~Log(r) PROVE events' = events
  <2>1. CASE LibBegin(r)
    BY <2>1, LibBeginFacts
  <2>2. CASE LibAwait(r)
    BY <2>2, LibAwaitFacts
  <2>3. CASE OwnConfirm(r)
    BY <2>3 DEF OwnConfirm, OwnTx
  <2>4. CASE \/ CheckMint(r) \/ Ensure(r) \/ Fund(r) \/ Check(r) \/ Preview(r)
             \/ OwnFail(r) \/ OwnTimeout(r) \/ View(r) \/ ReadFails(r)
    BY <2>4 DEF CheckMint, Ensure, Fund, Check, Preview, OwnFail, OwnTimeout, View, ReadFails
  <2>5. QED BY <1>1, <2>1, <2>2, <2>3, <2>4 DEF Handle
<1>2. ASSUME NEW r \in Requests, NEW b \in Bodies, Receive(r, b) PROVE events' = events
  BY <1>2 DEF Receive
<1>3. ASSUME NEW r \in Requests, OwnLandLate(r) \/ OwnExpire(r) PROVE events' = events
  BY <1>3 DEF OwnLandLate, OwnExpire, OwnTx
<1>4. ASSUME NEW c \in Calls, LibSettle(c) PROVE events' = events
  BY <1>4 DEF LibSettle, serverVars
<1>5. CASE UNCHANGED allVars
  BY <1>5 DEF allVars
<1>6. QED BY <1>1, <1>2, <1>3, <1>4, <1>5 DEF ServerNext

-----------------------------------------------------------------------------
\* The jobs, as far as the log is concerned.

\* The job is where it was, with as many calls returned.
Bystander(q) ==
    /\ job'[q].kind = job[q].kind /\ job'[q].at = job[q].at /\ job'[q].amount = job[q].amount
    /\ Returned(q)' = Returned(q)
    /\ job[q].at \notin LibOps => job'[q].lib = job[q].lib

\* The k-th call of q, for the amount of q, has landed by the end of the step.
Landed(q, k) ==
    /\ <<q, k>> \in Calls /\ <<q, k>> \in landed'
    /\ call'[<<q, k>>].amount = job[q].amount

Same(q) ==
    job'[q].kind = job[q].kind /\ job'[q].lib = job[q].lib /\ job'[q].amount = job[q].amount

LogStep(q) ==
    \/ Bystander(q)
    \/ job'[q].at \notin {"apply", "log", "view_sender", "view_receiver"}
    \/ job'[q].at = "apply" /\ job'[q].kind # "init"
    \/ job'[q].at = "view_sender" /\ job'[q].kind \notin {"transfer", "apply"}
    \/ /\ job[q].at = "deposit" /\ job'[q].at = "apply" /\ Same(q)
       /\ Returned(q)' = job[q].lib /\ Landed(q, job[q].lib)
    \/ /\ job[q].at \in {"apply", "transfer"} /\ job'[q].at = "log" /\ Same(q)
       /\ Returned(q) = job[q].lib - 1 /\ Landed(q, job[q].lib)
       /\ job[q].at = "transfer" => job[q].kind = "transfer"
    \/ Log(q)
    \/ job[q].at = "view_sender" /\ job'[q].at = "view_receiver" /\ Same(q)

LEMMA StillBystander ==
    ASSUME SInv, NEW q \in Requests,
           job'[q].kind = job[q].kind, job'[q].at = job[q].at, job'[q].amount = job[q].amount,
           job'[q].lib = job[q].lib,
           \A k \in 1..4 : status'[<<q, k>>] = status[<<q, k>>]
    PROVE  Bystander(q)
<1> DEFINE k == job[q].lib
<1>1. k \in 0..4 /\ (k > 0 => k \in 1..4)
  BY Places
<1> HIDE DEF k
<1>2. k > 0 => status'[<<q, k>>] = status[<<q, k>>]
  BY <1>1
<1>3. Awaiting(q)' <=> Awaiting(q)
  BY <1>2 DEF Awaiting, Latest, k
<1>4. Returned(q)' = Returned(q)
  BY <1>3 DEF Returned
<1>5. QED BY <1>4 DEF Bystander

\* The jobs of the others are not touched by a handler, nor are their calls.
LEMMA OtherJobs ==
    ASSUME SInv, NEW r \in Requests, Handle(r), NEW q \in Requests, q # r
    PROVE  job'[q] = job[q]
<1>1. job \in [Requests -> Job]
  BY Places
<1>2. CASE LibBegin(r)
  BY <1>1, <1>2, LibBeginFacts
<1>3. CASE LibAwait(r)
  BY <1>1, <1>3, LibAwaitFacts
<1>4. CASE OwnConfirm(r)
  BY <1>1, <1>4, OwnConfirmFacts
<1>5. CASE Fund(r) \/ Preview(r) \/ Log(r)
  BY <1>1, <1>5, FundFacts, PreviewFacts, LogFacts
<1>6. CASE View(r)
  BY <1>1, <1>6, ViewFacts
<1>7. CASE CheckMint(r) \/ Ensure(r) \/ Check(r) \/ OwnFail(r) \/ OwnTimeout(r)
           \/ ReadFails(r)
  BY <1>1, <1>7 DEF CheckMint, Ensure, Check, OwnFail, OwnTimeout, ReadFails, Goto
<1>8. QED BY <1>2, <1>3, <1>4, <1>5, <1>6, <1>7 DEF Handle

LEMMA OtherCalls ==
    ASSUME SInv, NEW r \in Requests, Handle(r), NEW q \in Requests, q # r
    PROVE  Bystander(q)
<1>1. \A k \in 1..4 : status'[<<q, k>>] = status[<<q, k>>]
  <2> SUFFICES ASSUME NEW k \in 1..4 PROVE status'[<<q, k>>] = status[<<q, k>>]
    OBVIOUS
  <2>1. <<q, k>> \in Calls
    BY WalletFacts
  <2>2. CASE LibBegin(r)
    BY <2>1, <2>2, LibBeginFacts
  <2>3. CASE LibAwait(r)
    <3>1. /\ Latest(r) \in Calls /\ mint' = mint /\ ata' = ata
          /\ Confirm(Latest(r)) \/ Fail(Latest(r)) \/ Timeout(Latest(r))
      BY <2>3, LibAwaitFacts
    <3>2. <<q, k>> # Latest(r)
      BY DEF Latest
    <3>3. QED BY <2>1, <3>1, <3>2, LibEffect
  <2>4. CASE OwnConfirm(r)
    BY <2>4 DEF OwnConfirm, OwnTx, clientVars
  <2>5. CASE \/ CheckMint(r) \/ Ensure(r) \/ Fund(r) \/ Check(r) \/ Preview(r)
             \/ OwnFail(r) \/ OwnTimeout(r) \/ Log(r) \/ View(r) \/ ReadFails(r)
    BY <2>5 DEF CheckMint, Ensure, Fund, Check, Preview, OwnFail, OwnTimeout, Log,
                View, ReadFails, vars
  <2>6. QED BY <2>2, <2>3, <2>4, <2>5 DEF Handle
<1>2. job'[q] = job[q]
  BY OtherJobs
<1>3. QED BY <1>1, <1>2, StillBystander

\* The handler's own step.
LEMMA OwnLogStep ==
    ASSUME SInv, NEW r \in Requests, Handle(r)
    PROVE  LogStep(r)
<1>1. job \in [Requests -> Job] /\ PlaceOK(r)
  BY Places
<1>2. CASE CheckMint(r) \/ Ensure(r) \/ OwnFail(r) \/ OwnTimeout(r) \/ ReadFails(r)
  <2>1. CASE CheckMint(r)
    <3>1. mint \in {"none", "ours", "foreign"}
      BY DEF SInv, ServerTypeOK
    <3>2. QED BY <1>1, <2>1, <3>1 DEF CheckMint, Goto, LogStep
  <2>2. CASE Ensure(r)
    <3>1. PICK j : /\ job' = [job EXCEPT ![r] = j]
                   /\ j = IF AtaConfigured(job[r].wallet) THEN AccountReady(job[r])
                          ELSE [job[r] EXCEPT !.at = "create_ata"]
      BY <2>2 DEF Ensure
    <3>2. job[r] \in Job
      BY Places
    <3>3. j.at \in {"ensure", "fund", "create_ata"}
      BY <3>1, <3>2 DEF AccountReady, Job
    <3>4. QED BY <1>1, <3>1, <3>3 DEF LogStep
  <2>3. CASE OwnFail(r) \/ OwnTimeout(r) \/ ReadFails(r)
    <3>1. \/ job' = [job EXCEPT ![r].at = "err"]
          \/ job' = [job EXCEPT ![r].late = job[r].at, ![r].at = "err"]
      BY <2>3 DEF OwnFail, OwnTimeout, ReadFails, Goto
    <3>2. job'[r].at = "err"
      BY <1>1, <3>1 DEF Job
    <3>3. QED BY <3>2 DEF LogStep
  <2>4. QED BY <1>2, <2>1, <2>2, <2>3
<1>3. CASE Check(r)
  BY <1>1, <1>3 DEF Check, Goto, LogStep, PlaceOK, At
<1>4. CASE Fund(r)
  <2>1. PICK j \in Job : /\ job' = [job EXCEPT ![r] = j]
                         /\ j.kind = "init"
                         /\ j.at \in {"view_sender", "mint_to", "deposit"}
    BY <1>4, FundFacts
  <2>2. QED BY <1>1, <2>1 DEF LogStep
<1>5. CASE Preview(r)
  BY <1>1, <1>5, PreviewFacts DEF LogStep
<1>6. CASE OwnConfirm(r)
  BY <1>1, <1>6, OwnConfirmFacts DEF LogStep
<1>7. CASE Log(r)
  BY <1>7 DEF LogStep
<1>8. CASE View(r)
  <2>1. PICK j \in Job :
          /\ job' = [job EXCEPT ![r] = j]
          /\ j.kind = job[r].kind /\ j.lib = job[r].lib /\ j.amount = job[r].amount
          /\ \/ job[r].at = "view_sender" /\ j.at = "view_receiver"
             \/ job[r].at = "view_receiver" /\ j.at = "ok"
    BY <1>8, ViewFacts
  <2>2. QED BY <1>1, <2>1 DEF LogStep, Same
<1>9. CASE LibBegin(r)
  <2> DEFINE c == <<r, job[r].lib + 1>>
  <2>1. /\ job[r].at \in LibOps /\ ~Awaiting(r) /\ job[r].lib \in 0..3
        /\ status'[c] \in {"running", "err"}
    BY <1>9, LibBeginFacts
  <2>2. PICK j \in Job :
          /\ job' = [job EXCEPT ![r] = j]
          /\ j.kind = job[r].kind /\ j.amount = job[r].amount
          /\ j.lib = job[r].lib + 1
          /\ j.at = IF status'[c] = "err" THEN "err" ELSE job[r].at
    BY <1>9, LibBeginFacts
  <2>3. job'[r] = j
    BY <1>1, <2>2
  <2>4. CASE status'[c] = "err"
    BY <2>2, <2>3, <2>4 DEF LogStep
  <2>5. CASE status'[c] = "running"
    <3>1. Awaiting(r)'
      BY <2>1, <2>2, <2>3, <2>5 DEF Awaiting, Latest
    <3>2. Returned(r)' = job[r].lib
      BY <2>1, <2>2, <2>3, <2>5, <3>1 DEF Returned
    <3>3. Returned(r) = job[r].lib
      BY <2>1 DEF Returned
    <3>4. QED BY <2>1, <2>2, <2>3, <2>5, <3>2, <3>3 DEF LogStep, Bystander
  <2>6. QED BY <2>1, <2>4, <2>5
<1>10. CASE LibAwait(r)
  <2> DEFINE c == Latest(r)
  <2>1. /\ job[r].at \in LibOps /\ Awaiting(r) /\ status[c] = "running"
        /\ c \in Calls /\ c = <<r, job[r].lib>> /\ job[r].lib \in 1..4
        /\ Confirm(c) \/ Fail(c) \/ Timeout(c)
        /\ call[c] = LibRequest(job[r])
        /\ mint' = mint /\ ata' = ata
        /\ status'[c] \in {"running", "ok", "err"}
    BY <1>10, LibAwaitFacts
  <2>2. PICK j \in Job :
          /\ job' = [job EXCEPT ![r] = j]
          /\ j.kind = job[r].kind /\ j.lib = job[r].lib /\ j.amount = job[r].amount
          /\ \/ status'[c] = "running" /\ j = job[r]
             \/ status'[c] = "err" /\ j.at = "err"
             \/ /\ status'[c] = "ok" /\ job[r].at = "configure"
                /\ j.at \in {"ensure", "fund"}
             \/ status'[c] = "ok" /\ job[r].at = "deposit" /\ j.at = "apply"
             \/ status'[c] = "ok" /\ job[r].at \in {"apply", "transfer"} /\ j.at = "log"
    BY <1>10, LibAwaitFacts
  <2>3. job'[r] = j
    BY <1>1, <2>2
  <2>4. IInv' /\ call' = call
    BY <2>1, LibEffect
  <2>5. Returned(r) = job[r].lib - 1
    BY <2>1 DEF Returned
  <2> HIDE DEF c
  <2>6. CASE status'[c] = "running"
    <3>1. j = job[r]
      BY <2>2, <2>6
    <3>2. Awaiting(r)'
      BY <2>1, <2>3, <2>6, <3>1 DEF Awaiting, Latest, c
    <3>3. Returned(r)' = job[r].lib - 1
      BY <2>1, <2>3, <3>1, <3>2 DEF Returned
    <3>4. QED BY <2>3, <2>5, <3>1, <3>3 DEF LogStep, Bystander
  <2>7. CASE status'[c] = "err"
    BY <2>2, <2>3, <2>7 DEF LogStep
  <2>8. CASE status'[c] = "ok"
    <3>1. Landed(r, job[r].lib)
      BY <2>1, <2>4, <2>8 DEF Landed, IInv, CallOK, LibRequest
    <3>2. CASE job[r].at = "configure"
      BY <2>2, <2>3, <2>8, <3>2 DEF LogStep
    <3>3. CASE job[r].at = "deposit"
      <4>1. ~Awaiting(r)'
        BY <2>1, <2>2, <2>3, <2>8 DEF Awaiting, Latest, c
      <4>2. Returned(r)' = job[r].lib
        BY <2>2, <2>3, <4>1 DEF Returned
      <4>3. j.at = "apply"
        BY <2>2, <2>8, <3>3
      <4>4. QED BY <2>2, <2>3, <3>1, <3>3, <4>2, <4>3 DEF LogStep, Same
    <3>4. CASE job[r].at \in {"apply", "transfer"}
      <4>1. j.at = "log"
        BY <2>2, <2>8, <3>4
      <4>2. job[r].at = "transfer" => job[r].kind = "transfer"
        BY <1>1 DEF PlaceOK
      <4>3. QED BY <2>2, <2>3, <2>5, <3>1, <3>4, <4>1, <4>2 DEF LogStep, Same
    <3>5. QED BY <2>1, <3>2, <3>3, <3>4 DEF LibOps
  <2>9. QED BY <2>1, <2>6, <2>7, <2>8
<1>11. QED BY <1>2, <1>3, <1>4, <1>5, <1>6, <1>7, <1>8, <1>9, <1>10 DEF Handle

\* A restart ends every handler.
LEMMA RestartEnds ==
    ASSUME job \in [Requests -> Job], Restart, NEW q \in Requests
    PROVE  job'[q].at \in {"lost", "idle"} \cup Ended
<1>1. PICK sent : job' = [r \in Requests |->
               IF Running(r)
               THEN [job[r] EXCEPT !.at = "lost",
                                   !.late = IF r \in sent /\ job[r].at \in OwnTxs
                                            THEN job[r].at ELSE @]
               ELSE job[r]]
  BY Zenon DEF Restart
<1>2. CASE Running(q)
  <2> DEFINE late == IF q \in sent /\ job[q].at \in OwnTxs THEN job[q].at ELSE job[q].late
  <2>1. job'[q] = [job[q] EXCEPT !.at = "lost", !.late = late]
    BY <1>1, <1>2
  <2>2. job[q] \in Job
    OBVIOUS
  <2> HIDE DEF late
  <2>3. job'[q].at = "lost"
    BY <2>1, <2>2 DEF Job
  <2>4. QED BY <2>3
<1>3. CASE ~Running(q)
  <2>1. job'[q] = job[q]
    BY <1>1, <1>3
  <2>2. QED BY <1>3, <2>1 DEF Running
<1>4. QED BY <1>2, <1>3

LEMMA LogSteps ==
    ASSUME SInv, [ServerNext]_allVars, NEW q \in Requests
    PROVE  LogStep(q)
<1>1. job \in [Requests -> Job]
  BY Places
<1>2. ASSUME NEW r \in Requests, Handle(r) PROVE LogStep(q)
  <2>1. CASE r = q
    BY <1>2, <2>1, OwnLogStep
  <2>2. CASE r # q
    BY <1>2, <2>2, OtherCalls DEF LogStep
  <2>3. QED BY <2>1, <2>2
<1>3. ASSUME NEW r \in Requests, NEW b \in Bodies, Receive(r, b) PROVE LogStep(q)
  <2>1. CASE r = q
    <3>1. b \in Body
      BY ServerAssumption
    <3>2. job'[q].at = Entry[b.kind] /\ job'[q].kind = b.kind
      BY <1>1, <1>3, <2>1 DEF Receive, NoJob
    <3>3. \/ job'[q].at \in {"mint", "check"}
          \/ job'[q].at = "view_sender" /\ job'[q].kind = "state"
      BY <3>1, <3>2 DEF Entry, Body
    <3>4. QED BY <3>3 DEF LogStep
  <2>2. CASE r # q
    <3>1. job'[q] = job[q] /\ status' = status
      BY <1>1, <1>3, <2>2 DEF Receive, vars, clientVars
    <3>2. QED BY <3>1, StillBystander DEF LogStep
  <2>3. QED BY <2>1, <2>2
<1>4. ASSUME NEW r \in Requests, OwnLandLate(r) \/ OwnExpire(r) PROVE LogStep(q)
  <2>1. status' = status /\ job' = [job EXCEPT ![r].late = "none"]
    BY <1>4 DEF OwnLandLate, OwnExpire, OwnTx, clientVars, vars
  <2>2. /\ job'[q].kind = job[q].kind /\ job'[q].at = job[q].at
        /\ job'[q].amount = job[q].amount /\ job'[q].lib = job[q].lib
    BY <1>1, <2>1 DEF Job
  <2>3. QED BY <2>1, <2>2, StillBystander DEF LogStep
<1>5. ASSUME NEW c \in Calls, LibSettle(c) PROVE LogStep(q)
  <2>1. job' = job /\ status' = status
    BY <1>5 DEF LibSettle, serverVars, LandLate, Expire
  <2>2. QED BY <2>1, StillBystander DEF LogStep
<1>6. CASE Restart
  <2>1. job'[q].at \in {"lost", "idle"} \cup Ended
    BY <1>1, <1>6, RestartEnds
  <2>2. QED BY <2>1 DEF LogStep, Ended
<1>7. CASE UNCHANGED allVars
  <2>1. job' = job /\ status' = status
    BY <1>7 DEF allVars
  <2>2. QED BY <2>1, StillBystander DEF LogStep
<1>8. QED BY <1>2, <1>3, <1>4, <1>5, <1>6, <1>7 DEF ServerNext

-----------------------------------------------------------------------------
\* The invariant.

\* What a handler that is about to log, or to deposit and then log, relies on.
LogReady(r) ==
    /\ job[r].at = "apply" /\ job[r].kind = "init" =>
           /\ <<r, Returned(r)>> \in Calls /\ <<r, Returned(r)>> \in landed
           /\ call[<<r, Returned(r)>>].amount = job[r].amount
    /\ job[r].at = "log" /\ job[r].kind = "init" =>
           /\ <<r, job[r].lib - 1>> \in Calls /\ <<r, job[r].lib - 1>> \in landed
           /\ call[<<r, job[r].lib - 1>>].amount = job[r].amount
    /\ job[r].at = "log" /\ job[r].kind # "init" =>
           /\ Latest(r) \in Calls /\ Latest(r) \in landed
           /\ job[r].kind = "transfer" => call[Latest(r)].amount = job[r].amount

\* Where a handler is that has logged or will not.
Past == {"view_sender", "view_receiver"} \cup Ended

\* A request has its place in the order once it has logged, and only then.
OrderOK(r) ==
    /\ job[r].at \notin Past => job[r].order = {}
    /\ job[r].at \in {"view_sender", "view_receiver"} /\ job[r].kind \in {"transfer", "apply"} =>
           job[r].order # {}

\* The request that has written entry i.
Author(i) == events[i].sig[1][1]

\* The entries are of different requests, the newest first.
EntriesInOrder ==
    \A i \in 1..Len(events) :
        /\ Author(i) \in job[Author(i)].order
        /\ \A k \in 1..Len(events) :
              i < k => Author(i) # Author(k) /\ Author(k) \in job[Author(i)].order

LInv ==
    /\ SInv
    /\ LogFaithful
    /\ \A r \in Requests : LogReady(r) /\ OrderOK(r)
    /\ EntriesInOrder

LEMMA ReadySteps ==
    ASSUME LInv, [ServerNext]_allVars, NEW q \in Requests
    PROVE  LogReady(q)'
<1>1. SInv /\ LogReady(q) /\ LogStep(q)
  BY LogSteps DEF LInv
<1>2. \A c \in Calls : c \in landed => c \in landed' /\ call'[c] = call[c]
  BY <1>1, LandedStays
<1>3. CASE Bystander(q)
  <2>1. /\ job'[q].kind = job[q].kind /\ job'[q].at = job[q].at
        /\ job'[q].amount = job[q].amount /\ Returned(q)' = Returned(q)
        /\ job[q].at = "log" => job'[q].lib = job[q].lib
    BY <1>3 DEF Bystander, LibOps
  <2>2. QED BY <1>1, <1>2, <2>1 DEF LogReady, Latest
<1>4. CASE \/ job'[q].at \notin {"apply", "log"}
           \/ job'[q].at = "apply" /\ job'[q].kind # "init"
  BY <1>4 DEF LogReady
<1>5. CASE /\ job[q].at = "deposit" /\ job'[q].at = "apply" /\ Same(q)
           /\ Returned(q)' = job[q].lib /\ Landed(q, job[q].lib)
  BY <1>5 DEF LogReady, Landed, Same
<1>6. CASE /\ job[q].at \in {"apply", "transfer"} /\ job'[q].at = "log" /\ Same(q)
           /\ Returned(q) = job[q].lib - 1 /\ Landed(q, job[q].lib)
           /\ job[q].at = "transfer" => job[q].kind = "transfer"
  <2>1. CASE job[q].kind = "init"
    <3>1. /\ <<q, job[q].lib - 1>> \in Calls /\ <<q, job[q].lib - 1>> \in landed
          /\ call[<<q, job[q].lib - 1>>].amount = job[q].amount
      BY <1>1, <1>6, <2>1 DEF LogReady
    <3>2. QED BY <1>2, <1>6, <2>1, <3>1 DEF LogReady, Same
  <2>2. CASE job[q].kind # "init"
    BY <1>6, <2>2 DEF LogReady, Landed, Same, Latest
  <2>3. QED BY <2>1, <2>2
<1>7. CASE Log(q)
  <2>1. job'[q].at = "view_sender"
    BY <1>1, <1>7, LogFacts, Places
  <2>2. QED BY <2>1 DEF LogReady
<1>8. QED BY <1>1, <1>3, <1>4, <1>5, <1>6, <1>7 DEF LogStep

\* An entry that has just been written tells of what has happened.
LEMMA EntryTrue ==
    ASSUME LInv, NEW r \in Requests, Log(r)
    PROVE  LET e == [kind |-> job[r].kind, amount |-> job[r].amount, sig |-> LoggedSig(r)]
           IN  /\ e \in LogEntry /\ events' = Logged(events, e)
               /\ e.sig[1] \in Calls /\ e.sig[1] \in landed
               /\ e.kind # "apply" => e.amount = call[e.sig[1]].amount
               /\ e.kind # "init" => e.sig[1] = Latest(r)
               /\ e.sig[1][1] = r
<1>1. /\ job[r].at = "log" /\ job[r].kind \in {"init", "transfer", "apply"} /\ LogReady(r)
      /\ [kind |-> job[r].kind, amount |-> job[r].amount, sig |-> LoggedSig(r)] \in LogEntry
      /\ events' = Logged(events, [kind |-> job[r].kind, amount |-> job[r].amount,
                                   sig |-> LoggedSig(r)])
  BY LogFacts DEF LInv
<1>2. CASE job[r].kind = "init"
  <2>1. LoggedSig(r)[1] = <<r, job[r].lib - 1>>
    BY <1>2 DEF LoggedSig
  <2>2. QED BY <1>1, <1>2, <2>1 DEF LogReady
<1>3. CASE job[r].kind # "init"
  <2>1. LoggedSig(r)[1] = Latest(r) /\ Latest(r) = <<r, job[r].lib>>
    BY <1>1, <1>3 DEF LoggedSig, Latest
  <2>2. QED BY <1>1, <1>3, <2>1 DEF LogReady
<1>4. QED BY <1>2, <1>3

\* What the log holds after an entry has been written.
LEMMA LogHolds ==
    ASSUME LInv, NEW r \in Requests, Log(r), NEW new \in LogEntry,
           events' = Logged(events, new)
    PROVE  /\ Len(events) \in Nat /\ Len(events') \in Nat /\ Len(events') > 0
           /\ Len(events') = (IF Len(events) < Keep THEN Len(events) + 1 ELSE Keep)
           /\ Len(events) <= Keep
           /\ events'[1] = new
           /\ \A i \in 1..Len(events') :
                 i # 1 => i - 1 \in 1..Len(events) /\ events'[i] = events[i - 1]
           /\ \A e : e \in EventsRange' <=> \E i \in 1..Len(events') : e = events'[i]
           /\ new \in EventsRange'
           /\ \A e \in EventsRange' : e = new \/ e \in EventsRange
<1>1. events \in Seq(LogEntry) /\ Len(events) \in Nat /\ Len(events) <= Keep
      /\ Keep \in Nat \ {0}
  BY ServerAssumption DEF LInv, SInv, ServerTypeOK
<1>2. /\ events' \in Seq(LogEntry)
      /\ Len(events') = (IF Len(events) < Keep THEN Len(events) + 1 ELSE Keep)
      /\ events'[1] = new
      /\ \A i \in 2..Len(events') : events'[i] = events[i - 1]
  BY <1>1, LoggedFacts
<1>3. \A e : e \in EventsRange' <=> \E i \in 1..Len(events') : e = events'[i]
  BY DEF EventsRange
<1>4. Len(events') \in Nat /\ Len(events') > 0
  BY <1>1, <1>2
<1>5. new \in EventsRange'
  BY <1>2, <1>3, <1>4
<1>6. ASSUME NEW i \in 1..Len(events'), i # 1
      PROVE  i - 1 \in 1..Len(events) /\ events'[i] = events[i - 1]
  <2>1. i \in 2..Len(events') /\ i - 1 \in 1..Len(events)
    BY <1>1, <1>2, <1>6
  <2>2. QED BY <1>2, <2>1
<1>7. ASSUME NEW e \in EventsRange' PROVE e = new \/ e \in EventsRange
  <2>1. PICK i \in 1..Len(events') : e = events'[i]
    BY <1>3, <1>7
  <2>2. CASE i = 1
    BY <1>2, <2>1, <2>2
  <2>3. CASE i # 1
    BY <1>6, <2>1, <2>3 DEF EventsRange
  <2>4. QED BY <2>2, <2>3
<1>8. QED BY <1>1, <1>2, <1>3, <1>4, <1>5, <1>6, <1>7

\* The log of a process that has just started is empty, and nobody waits for an answer.
LEMMA RestartForgets ==
    ASSUME SInv, Restart
    PROVE  /\ EventsRange' = {}
           /\ \A q \in Requests : job'[q].at \notin {"view_sender", "view_receiver"}
<1>1. job \in [Requests -> Job]
  BY DEF SInv, ServerTypeOK
<1>2. EventsRange' = {}
  <2>1. events' = <<>>
    BY DEF Restart
  <2>2. EventsRange' = {<<>>[i] : i \in 1..0}
    BY <2>1 DEF EventsRange
  <2>3. QED BY <2>2
<1>3. \A q \in Requests : job'[q].at \in {"lost", "idle"} \cup Ended
  BY <1>1, RestartEnds
<1>4. QED BY <1>2, <1>3 DEF Ended

\* Who is at a view was there before, or comes from writing an entry.
LEMMA WhoViews ==
    ASSUME SInv, [ServerNext]_allVars, NEW q \in Requests,
           job'[q].at \in {"view_sender", "view_receiver"},
           job'[q].kind \in {"transfer", "apply"}
    PROVE  \/ Log(q) /\ Latest(q)' = Latest(q) /\ job'[q].kind = job[q].kind
           \/ /\ job[q].at \in {"view_sender", "view_receiver"}
              /\ job[q].kind = job'[q].kind /\ Latest(q)' = Latest(q)
<1>1. LogStep(q)
  BY LogSteps
<1>2. CASE Log(q)
  <2>1. job \in [Requests -> Job]
    BY Places
  <2>2. job'[q].kind = job[q].kind /\ job'[q].lib = job[q].lib
    BY <1>2, <2>1, LogFacts
  <2>3. QED BY <1>2, <2>2 DEF Latest
<1>3. CASE Bystander(q)
  BY <1>3 DEF Bystander, LibOps, Latest
<1>4. CASE job[q].at = "view_sender" /\ job'[q].at = "view_receiver" /\ Same(q)
  BY <1>4 DEF Same, Latest
<1>5. QED BY <1>1, <1>2, <1>3, <1>4 DEF LogStep

-----------------------------------------------------------------------------
\* The order of the entries.

OrderStep(q) ==
    \/ /\ job'[q].order = job[q].order
       /\ job[q].at \in Past => job'[q].at \in Past
    \/ Log(q)

LEMMA OwnOrderStep ==
    ASSUME SInv, NEW r \in Requests, Handle(r)
    PROVE  OrderStep(r)
<1>1. job \in [Requests -> Job] /\ job[r] \in Job
  BY Places
<1>2. CASE View(r)
  <2>1. PICK j \in Job :
          /\ job' = [job EXCEPT ![r] = j]
          /\ j.order = job[r].order /\ j.at \in {"view_receiver", "ok"}
    BY <1>2, ViewFacts
  <2>2. QED BY <1>1, <2>1 DEF OrderStep, Past, Ended
<1>3. CASE Log(r)
  BY <1>3 DEF OrderStep
<1>4. CASE ReadFails(r) \/ OwnFail(r)
  <2>1. job' = [job EXCEPT ![r].at = "err"]
    BY <1>4 DEF ReadFails, OwnFail, Goto
  <2>2. job'[r].at = "err" /\ job'[r].order = job[r].order
    BY <1>1, <2>1 DEF Job
  <2>3. QED BY <2>2 DEF OrderStep, Past, Ended
<1>5. CASE CheckMint(r) \/ Check(r)
  <2>1. job[r].at \notin Past
    BY <1>5 DEF CheckMint, Check, At, Past, Ended
  <2>2. job'[r].order = job[r].order
    BY <1>1, <1>5 DEF CheckMint, Check, Goto, Job
  <2>3. QED BY <2>1, <2>2 DEF OrderStep
<1>6. CASE Ensure(r) \/ OwnTimeout(r)
  <2>1. job[r].at \notin Past
    BY <1>6 DEF Ensure, OwnTimeout, At, Past, OwnTxs, Ended
  <2>2. AccountReady(job[r]).order = job[r].order
    BY <1>1 DEF AccountReady, Job
  <2>3. job'[r].order = job[r].order
    BY <1>1, <1>6, <2>2 DEF Ensure, OwnTimeout, Job
  <2>4. QED BY <2>1, <2>3 DEF OrderStep
<1>7. CASE Fund(r) \/ Preview(r)
  <2>1. job[r].at \in {"fund", "preview"}
    BY <1>7 DEF Fund, Preview, At
  <2>2. job'[r].order = job[r].order
    BY <1>1, <1>7, FundFacts, PreviewFacts
  <2>3. QED BY <2>1, <2>2 DEF OrderStep, Past, Ended
<1>8. CASE OwnConfirm(r)
  <2>1. job[r].at \in OwnTxs /\ job'[r].order = job[r].order
    BY <1>1, <1>8, OwnConfirmFacts
  <2>2. QED BY <2>1 DEF OrderStep, Past, OwnTxs, Ended
<1>9. CASE LibBegin(r)
  <2>1. job[r].at \in LibOps /\ job'[r].order = job[r].order
    BY <1>1, <1>9, LibBeginFacts
  <2>2. QED BY <2>1 DEF OrderStep, Past, LibOps, Ended
<1>10. CASE LibAwait(r)
  <2>1. job[r].at \in LibOps /\ job'[r].order = job[r].order
    BY <1>1, <1>10, LibAwaitFacts
  <2>2. QED BY <2>1 DEF OrderStep, Past, LibOps, Ended
<1>11. QED BY <1>2, <1>3, <1>4, <1>5, <1>6, <1>7, <1>8, <1>9, <1>10 DEF Handle

LEMMA OthersOrder ==
    ASSUME SInv, NEW r \in Requests, NEW q \in Requests, q # r,
           \E j : job' = [job EXCEPT ![r] = j]
    PROVE  OrderStep(q)
<1>1. job \in [Requests -> Job]
  BY Places
<1>2. job'[q] = job[q]
  BY <1>1
<1>3. QED BY <1>2 DEF OrderStep

LEMMA OrderSteps ==
    ASSUME LInv, [ServerNext]_allVars, NEW q \in Requests
    PROVE  OrderStep(q)
<1>1. job \in [Requests -> Job] /\ job[q] \in Job /\ SInv
  BY Places DEF LInv
<1>2. ASSUME NEW r \in Requests, Handle(r) PROVE OrderStep(q)
  <2>1. CASE r = q
    BY <1>1, <1>2, <2>1, OwnOrderStep
  <2>2. CASE r # q
    <3>1. job'[q] = job[q]
      BY <1>1, <1>2, <2>2, OtherJobs
    <3>2. QED BY <3>1 DEF OrderStep
  <2>3. QED BY <2>1, <2>2
<1>3. ASSUME NEW r \in Requests, NEW b \in Bodies, Receive(r, b) PROVE OrderStep(q)
  <2>1. CASE r = q
    <3>1. job[q].at = "idle" /\ job'[q].order = {}
      BY <1>1, <1>3, <2>1 DEF Receive, At, NoJob
    <3>2. job[q].order = {} /\ job[q].at \notin Past
      BY <3>1 DEF LInv, OrderOK, Past, Ended
    <3>3. QED BY <3>1, <3>2 DEF OrderStep
  <2>2. CASE r # q
    BY <1>1, <1>3, <2>2, OthersOrder DEF Receive
  <2>3. QED BY <2>1, <2>2
<1>4. ASSUME NEW r \in Requests, OwnLandLate(r) \/ OwnExpire(r) PROVE OrderStep(q)
  <2>1. job' = [job EXCEPT ![r].late = "none"]
    BY <1>4 DEF OwnLandLate, OwnExpire
  <2>2. job'[q].order = job[q].order /\ job'[q].at = job[q].at
    BY <1>1, <2>1 DEF Job
  <2>3. QED BY <2>2 DEF OrderStep
<1>5. ASSUME NEW c \in Calls, LibSettle(c) PROVE OrderStep(q)
  BY <1>5 DEF LibSettle, serverVars, OrderStep
<1>6. CASE Restart
  <2>1. CASE Running(q)
    <3>1. PICK late : job'[q] = [job[q] EXCEPT !.at = "lost", !.late = late]
      BY <1>1, <1>6, <2>1 DEF Restart
    <3>2. job'[q].at = "lost" /\ job'[q].order = job[q].order
      BY <1>1, <3>1 DEF Job
    <3>3. QED BY <3>2 DEF OrderStep, Past, Ended
  <2>2. CASE ~Running(q)
    BY <1>1, <1>6, <2>2 DEF Restart, OrderStep
  <2>3. QED BY <2>1, <2>2
<1>7. CASE UNCHANGED allVars
  BY <1>7 DEF allVars, OrderStep
<1>8. QED BY <1>2, <1>3, <1>4, <1>5, <1>6, <1>7 DEF ServerNext

\* Who has logged before somebody else will always have.
LEMMA OrderGrows ==
    ASSUME LInv, [ServerNext]_allVars, NEW q \in Requests
    PROVE  job[q].order \subseteq job'[q].order
<1>1. CASE Log(q)
  <2>1. job[q].order = {}
    BY <1>1 DEF Log, At, LInv, OrderOK, Past, Ended
  <2>2. QED BY <2>1
<1>2. QED BY <1>1, OrderSteps DEF OrderStep

LEMMA OrderKept ==
    ASSUME LInv, [ServerNext]_allVars, NEW q \in Requests
    PROVE  OrderOK(q)'
<1>1. SInv /\ OrderOK(q) /\ OrderStep(q)
  BY OrderSteps DEF LInv
<1>2. CASE Log(q)
  <2>1. job'[q].at = "view_sender" /\ q \in job'[q].order
    BY <1>1, <1>2, LogFacts, Places
  <2>2. QED BY <2>1 DEF OrderOK, Past
<1>3. CASE ~Log(q)
  <2>1. /\ job'[q].order = job[q].order
        /\ job[q].at \in Past => job'[q].at \in Past
    BY <1>1, <1>3 DEF OrderStep
  <2>2. ASSUME job'[q].at \in {"view_sender", "view_receiver"},
               job'[q].kind \in {"transfer", "apply"}
        PROVE  job'[q].order # {}
    <3>1. /\ job[q].at \in {"view_sender", "view_receiver"}
          /\ job[q].kind = job'[q].kind
      BY <1>1, <1>3, <2>2, WhoViews
    <3>2. QED BY <1>1, <2>1, <2>2, <3>1 DEF OrderOK
  <2>3. QED BY <1>1, <2>1, <2>2 DEF OrderOK
<1>4. QED BY <1>2, <1>3

LEMMA AuthorType ==
    ASSUME SInv, NEW i \in 1..Len(events)
    PROVE  Author(i) \in Requests
<1>1. events[i] \in LogEntry
  BY DEF SInv, ServerTypeOK
<1>2. events[i].sig[1] \in Calls
  BY <1>1 DEF LogEntry
<1>3. QED BY <1>2, ServerAssumption DEF Author

\* The entry that has just been written.
LEMMA NewEntry ==
    ASSUME LInv, [ServerNext]_allVars, NEW r \in Requests, Log(r)
    PROVE  /\ Author(1)' = r /\ job'[r].order = HaveLogged \cup {r}
           /\ job[r].order = {}
           /\ \A i \in 1..Len(events') : i # 1 => Author(i)' = Author(i - 1)
<1>1. PICK new \in LogEntry : events' = Logged(events, new) /\ new.sig[1][1] = r
  BY EntryTrue
<1>2. /\ events'[1] = new
      /\ \A i \in 1..Len(events') : i # 1 => events'[i] = events[i - 1]
  BY <1>1, LogHolds
<1>3. job'[r].order = HaveLogged \cup {r}
  BY LogFacts, Places DEF LInv
<1>4. job[r].order = {}
  BY DEF Log, At, LInv, OrderOK, Past, Ended
<1>5. QED BY <1>1, <1>2, <1>3, <1>4 DEF Author

LEMMA EntriesKeepOrder ==
    ASSUME LInv, [ServerNext]_allVars
    PROVE  EntriesInOrder'
<1>1. SInv /\ EntriesInOrder
  BY DEF LInv
<1>2. \A i \in 1..Len(events) : Author(i) \in Requests
  BY <1>1, AuthorType
<1>3. CASE events' = events
  <2>1. \A i : Author(i)' = Author(i)
    BY <1>3 DEF Author
  <2>2. QED BY <1>1, <1>2, <1>3, <2>1, OrderGrows DEF EntriesInOrder
<1>4. CASE Restart
  <2>1. events' = <<>> /\ Len(events') = 0
    BY <1>4 DEF Restart
  <2>2. QED BY <2>1 DEF EntriesInOrder
<1>5. ASSUME NEW r \in Requests, Log(r) PROVE EntriesInOrder'
  <2>1. PICK new \in LogEntry : events' = Logged(events, new)
    BY <1>5, EntryTrue
  <2>2. /\ Len(events') \in Nat
        /\ \A i \in 1..Len(events') : i # 1 => i - 1 \in 1..Len(events)
    BY <1>5, <2>1, LogHolds
  <2>3. /\ Author(1)' = r /\ job'[r].order = HaveLogged \cup {r} /\ job[r].order = {}
        /\ \A i \in 1..Len(events') : i # 1 => Author(i)' = Author(i - 1)
    BY <1>5, NewEntry
  <2>4. ASSUME NEW i \in 1..Len(events)
        PROVE  Author(i) \in HaveLogged /\ Author(i) # r
    BY <1>1, <1>2, <2>3, <2>4 DEF EntriesInOrder, HaveLogged
  <2>5. ASSUME NEW i \in 1..Len(events') PROVE Author(i)' \in job'[Author(i)'].order
    <3>1. CASE i = 1
      BY <2>3, <3>1
    <3>2. CASE i # 1
      <4>1. Author(i)' = Author(i - 1) /\ i - 1 \in 1..Len(events)
        BY <2>2, <2>3, <2>5, <3>2
      <4>2. Author(i - 1) \in Requests /\ Author(i - 1) \in job[Author(i - 1)].order
        BY <1>1, <1>2, <4>1 DEF EntriesInOrder
      <4>3. QED BY <4>1, <4>2, OrderGrows
    <3>3. QED BY <3>1, <3>2
  <2>6. ASSUME NEW i \in 1..Len(events'), NEW k \in 1..Len(events'), i < k
        PROVE  Author(i)' # Author(k)' /\ Author(k)' \in job'[Author(i)'].order
    <3>1. k # 1
      BY <2>6
    <3>2. Author(k)' = Author(k - 1) /\ k - 1 \in 1..Len(events)
      BY <2>2, <2>3, <3>1
    <3>3. CASE i = 1
      BY <2>3, <2>4, <3>2, <3>3
    <3>4. CASE i # 1
      <4>1. Author(i)' = Author(i - 1) /\ i - 1 \in 1..Len(events)
        BY <2>2, <2>3, <3>4
      <4>2. i - 1 < k - 1
        BY <2>6
      <4>3. /\ Author(i - 1) # Author(k - 1)
            /\ Author(k - 1) \in job[Author(i - 1)].order
        BY <1>1, <3>2, <4>1, <4>2 DEF EntriesInOrder
      <4>4. QED BY <1>2, <3>2, <4>1, <4>3, OrderGrows
    <3>5. QED BY <3>3, <3>4
  <2>7. QED BY <2>5, <2>6 DEF EntriesInOrder
<1>6. QED BY <1>1, <1>3, <1>4, <1>5, EventsSteps

-----------------------------------------------------------------------------
\* What the log tells.

LEMMA EntriesStayTrue ==
    ASSUME LInv, [ServerNext]_allVars, NEW e \in EventsRange'
    PROVE  e.sig[1] \in landed' /\ (e.kind # "apply" => e.amount = call'[e.sig[1]].amount)
<1>1. SInv /\ LogFaithful
  BY DEF LInv
<1>2. \A c \in Calls : c \in landed => c \in landed' /\ call'[c] = call[c]
  BY <1>1, LandedStays
<1>3. ASSUME NEW f \in EventsRange
      PROVE  /\ f.sig[1] \in Calls /\ f.sig[1] \in landed' /\ call'[f.sig[1]] = call[f.sig[1]]
             /\ f.kind # "apply" => f.amount = call'[f.sig[1]].amount
  <2>1. events \in Seq(LogEntry)
    BY <1>1 DEF SInv, ServerTypeOK
  <2>2. f \in LogEntry
    BY <1>3, <2>1 DEF EventsRange
  <2>3. f.sig[1] \in Calls
    BY <2>2 DEF LogEntry
  <2>4. QED BY <1>1, <1>2, <1>3, <2>3 DEF LogFaithful
<1>4. CASE events' = events
  BY <1>3, <1>4 DEF EventsRange
<1>5. CASE Restart
  <2>1. EventsRange' = {}
    BY <1>1, <1>5, RestartForgets
  <2>2. QED BY <2>1
<1>6. ASSUME NEW r \in Requests, Log(r)
      PROVE  e.sig[1] \in landed' /\ (e.kind # "apply" => e.amount = call'[e.sig[1]].amount)
  <2>1. PICK new \in LogEntry :
          /\ events' = Logged(events, new)
          /\ new.sig[1] \in Calls /\ new.sig[1] \in landed
          /\ new.kind # "apply" => new.amount = call[new.sig[1]].amount
    BY <1>6, EntryTrue
  <2>2. e = new \/ e \in EventsRange
    BY <1>6, <2>1, LogHolds
  <2>3. QED BY <1>2, <1>3, <2>1, <2>2
<1>7. QED BY <1>1, <1>4, <1>5, <1>6, EventsSteps

Shows(q) == \E e \in EventsRange : e.sig[1] = Latest(q)

FullOfNewer(q) == Len(events) = Keep /\ \A e \in EventsRange : NewerThan(e, q)

LEMMA NewerStays ==
    ASSUME LInv, [ServerNext]_allVars, NEW q \in Requests, NEW e \in EventsRange,
           NewerThan(e, q)
    PROVE  NewerThan(e, q)'
<1>1. PICK i \in 1..Len(events) : e = events[i]
  BY DEF EventsRange
<1>2. Author(i) \in Requests /\ Author(i) = e.sig[1][1]
  BY <1>1, AuthorType DEF LInv, Author
<1>3. QED BY <1>2, OrderGrows DEF NewerThan

\* An entry is written by another request than q, which has logged.
LEMMA PushedOut ==
    ASSUME LInv, [ServerNext]_allVars, NEW q \in Requests, NEW r \in Requests, Log(r),
           job[q].order # {}, Shows(q) \/ FullOfNewer(q), Latest(q)' = Latest(q)
    PROVE  Shows(q)' \/ FullOfNewer(q)'
<1>1. PICK new \in LogEntry : events' = Logged(events, new) /\ new.sig[1][1] = r
  BY EntryTrue
<1>2. /\ Len(events) \in Nat /\ Len(events') \in Nat
      /\ Len(events') = (IF Len(events) < Keep THEN Len(events) + 1 ELSE Keep)
      /\ Len(events) <= Keep /\ Keep \in Nat
      /\ events'[1] = new
      /\ \A i \in 1..Len(events') :
            i # 1 => i - 1 \in 1..Len(events) /\ events'[i] = events[i - 1]
      /\ \A e : e \in EventsRange' <=> \E i \in 1..Len(events') : e = events'[i]
      /\ \A e \in EventsRange' : e = new \/ e \in EventsRange
  BY <1>1, LogHolds, ServerAssumption
<1>3. NewerThan(new, q)'
  BY <1>1, NewEntry DEF HaveLogged, NewerThan
<1>4. CASE FullOfNewer(q)
  <2>1. \A e \in EventsRange' : NewerThan(e, q)'
    BY <1>2, <1>3, <1>4, NewerStays DEF FullOfNewer
  <2>2. Len(events') = Keep
    BY <1>2, <1>4 DEF FullOfNewer
  <2>3. QED BY <2>1, <2>2 DEF FullOfNewer
<1>5. CASE Shows(q)
  <2>1. PICK i \in 1..Len(events) : events[i].sig[1] = Latest(q)
    BY <1>5 DEF Shows, EventsRange
  <2>2. Author(i) = q
    BY <2>1 DEF Author, Latest
  <2>3. CASE i + 1 <= Len(events')
    <3>1. i + 1 \in 1..Len(events') /\ i + 1 # 1 /\ i + 1 - 1 = i
      BY <1>2, <2>3
    <3>2. events'[i + 1] = events[i]
      BY <1>2, <3>1
    <3>3. events[i] \in EventsRange'
      BY <1>2, <3>1, <3>2
    <3>4. QED BY <2>1, <3>3 DEF Shows
  <2>4. CASE ~(i + 1 <= Len(events'))
    <3>1. i = Len(events) /\ Len(events') = Keep
      BY <1>2, <2>4
    <3>2. ASSUME NEW e \in EventsRange' PROVE NewerThan(e, q)'
      <4>1. PICK k \in 1..Len(events') : e = events'[k]
        BY <1>2, <3>2
      <4>2. CASE k = 1
        BY <1>2, <1>3, <4>1, <4>2
      <4>3. CASE k # 1
        <5>1. k - 1 \in 1..Len(events) /\ e = events[k - 1] /\ k - 1 < i
          BY <1>2, <2>4, <4>1, <4>3
        <5>2. Author(i) \in job[Author(k - 1)].order
          BY <5>1 DEF LInv, EntriesInOrder
        <5>3. NewerThan(e, q) /\ e \in EventsRange
          BY <2>2, <5>1, <5>2 DEF NewerThan, Author, EventsRange
        <5>4. QED BY <5>3, NewerStays
      <4>4. QED BY <4>2, <4>3
    <3>3. QED BY <3>1, <3>2 DEF FullOfNewer
  <2>5. QED BY <2>3, <2>4
<1>6. QED BY <1>4, <1>5

LEMMA AnsweredShown ==
    ASSUME LInv, [ServerNext]_allVars, NEW q \in Requests,
           job'[q].at \in {"view_sender", "view_receiver"},
           job'[q].kind \in {"transfer", "apply"}
    PROVE  Shows(q)' \/ FullOfNewer(q)'
<1>1. SInv
  BY DEF LInv
<1>2. CASE Log(q)
  <2>1. job'[q].kind = job[q].kind /\ Latest(q)' = Latest(q)
    <3>1. job[q].at = "log"
      BY <1>2 DEF Log, At
    <3>2. QED BY <1>1, <3>1, WhoViews
  <2>2. PICK new \in LogEntry :
          /\ events' = Logged(events, new)
          /\ new.kind = job[q].kind /\ (new.kind # "init" => new.sig[1] = Latest(q))
    BY <1>2, EntryTrue
  <2>3. new \in EventsRange'
    BY <1>2, <2>2, LogHolds
  <2>4. QED BY <2>1, <2>2, <2>3 DEF Shows
<1>3. CASE ~Log(q)
  <2>1. /\ job[q].at \in {"view_sender", "view_receiver"}
        /\ job[q].kind = job'[q].kind /\ Latest(q)' = Latest(q)
    BY <1>1, <1>3, WhoViews
  <2>2. (Shows(q) \/ FullOfNewer(q)) /\ job[q].order # {}
    BY <2>1 DEF LInv, LogFaithful, Shows, FullOfNewer, OrderOK
  <2>3. CASE events' = events
    <3>1. EventsRange' = EventsRange
      BY <2>3 DEF EventsRange
    <3>2. QED BY <2>1, <2>2, <2>3, <3>1, NewerStays DEF Shows, FullOfNewer
  <2>4. CASE Restart
    BY <1>1, <2>4, RestartForgets
  <2>5. QED BY <1>1, <2>1, <2>2, <2>3, <2>4, EventsSteps, PushedOut
<1>4. QED BY <1>2, <1>3

LEMMA NextKeepsLInv == LInv /\ [ServerNext]_allVars => LInv'
<1> SUFFICES ASSUME LInv, [ServerNext]_allVars PROVE LInv'
  OBVIOUS
<1>1. SInv'
  BY NextKeepsSInv DEF LInv
<1>2. \A q \in Requests : LogReady(q)' /\ OrderOK(q)'
  BY ReadySteps, OrderKept
<1>3. EntriesInOrder'
  BY EntriesKeepOrder
<1>4. ASSUME NEW i \in 1..Len(events'), NEW k \in 1..Len(events'), i # k
      PROVE  events'[i].sig[1] # events'[k].sig[1]
  <2>1. i < k \/ k < i
    BY <1>4
  <2>2. Author(i)' # Author(k)'
    BY <1>3, <2>1 DEF EntriesInOrder
  <2>3. QED BY <2>2 DEF Author
<1>5. \A q \in Requests :
        /\ job'[q].at \in {"view_sender", "view_receiver"}
        /\ job'[q].kind \in {"transfer", "apply"}
        => Shows(q)' \/ FullOfNewer(q)'
  BY AnsweredShown
<1>6. LogFaithful'
  BY <1>4, <1>5, EntriesStayTrue DEF LogFaithful, Shows, FullOfNewer
<1>7. QED BY <1>1, <1>2, <1>3, <1>6 DEF LInv

LEMMA InitLInv == ServerInit => LInv
<1> SUFFICES ASSUME ServerInit PROVE LInv
  OBVIOUS
<1>1. SInv
  BY InitSInv
<1>2. /\ events = <<>> /\ Len(events) = 0
      /\ \A r \in Requests : job[r].at = "idle" /\ job[r].order = {}
  BY DEF ServerInit, NoJob
<1>3. LogFaithful /\ EntriesInOrder
  BY <1>2 DEF LogFaithful, EventsRange, EntriesInOrder
<1>4. QED BY <1>1, <1>2, <1>3 DEF LInv, LogReady, OrderOK

\* The inductive invariant: what a handler that will write an entry relies on,
\* what the entries tell, and in which order they are.
THEOREM LogInvariant == ServerSpec => []LInv
<1>1. ServerInit => LInv
  BY InitLInv
<1>2. LInv /\ [ServerNext]_allVars => LInv'
  BY NextKeepsLInv
<1>3. QED BY <1>1, <1>2, PTL DEF ServerSpec

\* The auditor's log (demo-server.rs:963) tells of nothing that has not
\* happened and of nothing twice, and shows an answered transfer or apply unless
\* it holds Keep entries that were all written later.
THEOREM LogTellsTheTruth == ServerSpec => []LogFaithful
<1>1. LInv => LogFaithful
  BY DEF LInv
<1>2. QED BY <1>1, LogInvariant, PTL
=============================================================================
