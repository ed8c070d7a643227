---------------------------- MODULE MCDemoServer ----------------------------
(* Small instances of DemoServer for TLC. A fault is a request that ends in   *)
(* an error, or is lost, although it could have gone on; faults are counted   *)
(* and bounded, so that what is left after the last one can be looked at.     *)
EXTENDS DemoServer, FiniteSetsExt, TLC

CONSTANTS
    a, b,        \* the sender's and the receiver's wallet
    MaxFaults

VARIABLE faults

mcVars == <<allVars, faults>>

\* The handler of r can only answer an error.
Doomed(r) ==
    LET at == job[r].at
    IN  \/ at = "mint" /\ mint = "foreign"
        \/ at = "check" /\ ~RequireInitialized
        \/ at \in OwnTxs /\ ~ENABLED OwnTx(job[r], at)
        \/ at \in LibOps /\ ~Awaiting(r)
        \/ at \in LibOps /\ Awaiting(r) /\ ~ENABLED Land(Latest(r))

Faulty ==
    \E r \in Requests :
        \/ /\ Running(r)
           /\ job'[r].at \in {"err", "lost"}
           /\ ~Doomed(r) \/ job'[r].at = "lost" \/ job'[r].late # job[r].late \/ flight' # flight
        \/ At(r, "preview") /\ job'[r].amount # PendingShown(acct[job[r].wallet])

Count ==
    /\ faults' = IF Faulty THEN faults + 1 ELSE faults
    /\ faults' <= MaxFaults

\* No fault will happen any more.
Calm ==
    /\ faults < MaxFaults
    /\ faults' = MaxFaults
    /\ UNCHANGED allVars

MCInit == ServerInit /\ faults = 0

MCNext == (ServerNext /\ Count) \/ Calm

MCSpec == MCInit /\ [][MCNext]_mcVars

\* Between two awaits a handler runs on, and every await is answered or gives
\* up; what was sent and not confirmed lands or expires.
MCFairness ==
    /\ \A r \in Requests :
          /\ WF_mcVars(Handle(r) /\ Count)
          /\ WF_mcVars((OwnLandLate(r) \/ OwnExpire(r)) /\ Count)
    /\ \A c \in Calls : WF_mcVars(LibSettle(c) /\ Count)

MCLiveSpec == MCSpec /\ MCFairness

\* An init that is alone, begun after the last fault.
LastInit(r) ==
    /\ job[r].kind = "init" /\ At(r, "mint")
    /\ mint # "foreign"
    /\ faults = MaxFaults
    /\ \A q \in Requests \ {r} : job[q].at \in Ended /\ job[q].late = "none"
    /\ \A c \in Calls : ~flight[c]

\* Whatever an earlier init has left behind when it failed, was given up on or
\* lost with the process, another run of init sets the demo up: no account
\* half-way between created, configured, funded and applied stops it.
InitRecovers == \A r \in Requests : LastInit(r) ~> At(r, "ok")

\* Every request that is received is answered or dies with the process, and
\* whatever it or a library call of it has sent last lands or expires: nothing
\* is left that could still move tokens. After the last fault a handler cannot
\* just give up.
EveryRequestSettles ==
    \A r \in Requests :
        Running(r) ~> /\ job[r].at \in Ended /\ job[r].late = "none"
                      /\ \A c \in Calls : c[1] = r => ~flight[c]

-----------------------------------------------------------------------------
Symmetry == Permutations(Requests)

Both == {a, b}
CallIds == Requests \X (1..4)

Ask(kind, wallet, amount) == [kind |-> kind, wallet |-> wallet, amount |-> amount]

AllBodies ==
    {Ask("init", a, 0), Ask("transfer", a, 2), Ask("apply", a, 0), Ask("apply", b, 0),
     Ask("state", a, 0)}
PostBodies == {q \in AllBodies : q.kind # "state"}
MoveBodies == {Ask("init", a, 0), Ask("transfer", a, 2), Ask("apply", b, 0)}
InitBodies == {Ask("init", a, 0)}

Nothing == a :> 0 @@ b :> 0
OneEach == a :> 1 @@ b :> 0
Funded  == a :> 3 @@ b :> 0
=============================================================================
