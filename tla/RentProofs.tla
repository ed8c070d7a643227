------------------------------ MODULE RentProofs ------------------------------
(* Which auxiliary accounts a call of BalanceOps holds after each of its      *)
(* transactions, and that none of those of withdraw and transfer is left when *)
(* the call returns Ok, be the caller any client or a handler of DemoServer.  *)
EXTENDS DemoServerProofs

\* The accounts of a call by the number of its transactions that are done. The
\* first entry is for none.
Held ==
    [configure |-> <<{}, {"pubkey"}>>,
     deposit   |-> <<{}, {}>>,
     apply     |-> <<{}, {}>>,
     withdraw  |-> <<{}, {"equality"}, {"equality", "range"}, {"equality", "range"},
                     {"range"}, {}>>,
     transfer  |-> <<{}, {"equality"}, {"equality", "validity"},
                     {"equality", "validity", "record"},
                     {"equality", "validity", "record", "range"}, {}>>]

\* A call that has not failed has got the accounts it should have, and no others.
Holds(c) ==
    status[c] \in {"running", "ok"} =>
        \A k \in ContextKinds : <<c, k>> \in ctx <=> k \in Held[call[c].op][done[c] + 1]

\* A call that has returned Ok has sent its whole script.
Complete(c) == status[c] = "ok" => call[c].op \in Ops /\ done[c] = Len(Script[call[c].op])

RentInv ==
    /\ IInv
    /\ \A c \in Calls : Holds(c) /\ Complete(c)

LEMMA HeldNext ==
    ASSUME IInv, NEW c \in Calls, status[c] = "running", Holds(c), Land(c)
    PROVE  \A k \in ContextKinds :
               <<c, k>> \in ctx' <=> k \in Held[call[c].op][done[c] + 2]
<1> DEFINE op == call[c].op
           n  == done[c]
           tx == NextTx(c)
<1>1. /\ op \in Ops /\ n \in 0..5 /\ n < Len(Script[op]) /\ tx = Script[op][n + 1]
      /\ \A k \in ContextKinds : <<c, k>> \in ctx <=> k \in Held[op][n + 1]
  BY ActiveCall DEF IInv, TypeOK, CallOK, Active, Holds, NextTx
<1>2. \/ /\ tx \in {"deposit", "apply", "withdraw"} /\ ctx' = ctx
      \/ /\ tx = "configure" /\ ctx' = ctx \cup Contexts(c, {"pubkey"})
      \/ /\ tx \in {"equality", "validity", "record", "range"}
         /\ ctx' = ctx \cup Contexts(c, {tx})
      \/ tx = "close_equality" /\ ctx' = ctx \ Contexts(c, {"equality"})
      \/ tx = "close_range" /\ ctx' = ctx \ Contexts(c, {"range"})
      \/ tx = "transfer" /\ ctx' = ctx \ Contexts(c, {"equality", "validity", "range", "record"})
  BY DEF Land, LandConfigure, LandDeposit, LandApply, LandEquality, LandValidity, LandRecord,
         LandRange, LandWithdraw, LandClose, LandTransfer
<1>3. \A k \in ContextKinds :
         /\ tx \in {"deposit", "apply", "withdraw"} => (<<c, k>> \in ctx' <=> <<c, k>> \in ctx)
         /\ tx = "configure" => (<<c, k>> \in ctx' <=> <<c, k>> \in ctx \/ k = "pubkey")
         /\ tx \in {"equality", "validity", "record", "range"} =>
                (<<c, k>> \in ctx' <=> <<c, k>> \in ctx \/ k = tx)
         /\ tx = "close_equality" => (<<c, k>> \in ctx' <=> <<c, k>> \in ctx /\ k # "equality")
         /\ tx = "close_range" => (<<c, k>> \in ctx' <=> <<c, k>> \in ctx /\ k # "range")
         /\ tx = "transfer" =>
                (<<c, k>> \in ctx' <=>
                     <<c, k>> \in ctx /\ k \notin {"equality", "validity", "range", "record"})
  BY <1>2 DEF Contexts
<1> HIDE DEF op, n, tx
<1> SUFFICES ASSUME NEW k \in ContextKinds
    PROVE  <<c, k>> \in ctx' <=> k \in Held[op][n + 2]
  BY DEF op, n
<1>4. CASE op \in {"configure", "deposit", "apply"}
  <2>1. n = 0 /\ tx = op
    BY <1>1, <1>4 DEF Script
  <2>2. Held[op][n + 1] = {}
    BY <1>4, <2>1 DEF Held
  <2>3. <<c, k>> \notin ctx
    BY <1>1, <2>2
  <2>4. <<c, k>> \in ctx' <=> op = "configure" /\ k = "pubkey"
    BY <1>3, <1>4, <2>1, <2>3
  <2>5. Held[op][n + 2] = IF op = "configure" THEN {"pubkey"} ELSE {}
    BY <1>4, <2>1 DEF Held
  <2>6. QED BY <2>4, <2>5
<1>5. CASE op = "withdraw"
  <2>1. n \in 0..4
    BY <1>1, <1>5 DEF Script
  <2>2. CASE n = 0
    BY <1>1, <1>3, <1>5, <2>2 DEF Script, Held
  <2>3. CASE n = 1
    BY <1>1, <1>3, <1>5, <2>3 DEF Script, Held
  <2>4. CASE n = 2
    BY <1>1, <1>3, <1>5, <2>4 DEF Script, Held
  <2>5. CASE n = 3
    BY <1>1, <1>3, <1>5, <2>5 DEF Script, Held
  <2>6. CASE n = 4
    BY <1>1, <1>3, <1>5, <2>6 DEF Script, Held
  <2>7. QED BY <2>1, <2>2, <2>3, <2>4, <2>5, <2>6
<1>6. CASE op = "transfer"
  <2>1. n \in 0..4
    BY <1>1, <1>6 DEF Script
  <2>2. CASE n = 0
    BY <1>1, <1>3, <1>6, <2>2 DEF Script, Held
  <2>3. CASE n = 1
    BY <1>1, <1>3, <1>6, <2>3 DEF Script, Held
  <2>4. CASE n = 2
    BY <1>1, <1>3, <1>6, <2>4 DEF Script, Held
  <2>5. CASE n = 3
    BY <1>1, <1>3, <1>6, <2>5 DEF Script, Held
  <2>6. CASE n = 4
    BY <1>1, <1>3, <1>6, <2>6 DEF Script, Held
  <2>7. QED BY <2>1, <2>2, <2>3, <2>4, <2>5, <2>6
<1>7. QED BY <1>1, <1>4, <1>5, <1>6 DEF Ops

LEMMA InitRentInv == Init => RentInv
<1>1. Init => \A c \in Calls : Holds(c) /\ Complete(c)
  BY DEF Init, Holds, Complete
<1>2. QED BY <1>1, InitIInv DEF RentInv

\* A call is not concerned by a step that leaves it and its accounts alone.
LEMMA HeldUndisturbed ==
    ASSUME NEW d \in Calls, Holds(d), Complete(d),
           \/ status'[d] = "err"
           \/ /\ call'[d] = call[d] /\ status'[d] = status[d] /\ done'[d] = done[d]
              /\ \A k \in ContextKinds : <<d, k>> \in ctx' <=> <<d, k>> \in ctx
    PROVE  Holds(d)' /\ Complete(d)'
BY DEF Holds, Complete

\* What the steps of a call c do to the accounts of a call d.
LEMMA InvokeHolds ==
    ASSUME RentInv, NEW c \in Calls, NEW r \in Request, Invoke(c, r), NEW d \in Calls
    PROVE  Holds(d)' /\ Complete(d)'
<1>1. IInv /\ TypeOK /\ \A e \in Calls : Holds(e) /\ Complete(e)
  BY DEF RentInv, IInv
<1>2. ctx' = ctx /\ done' = done
  BY DEF Invoke
<1>3. CASE d = c
  <2>1. status[c] = "idle" /\ Untouched(c)
    BY <1>1 DEF Invoke, IInv, CallOK
  <2>2. status'[c] \in {"running", "err"}
    BY <1>1 DEF Invoke, TypeOK
  <2>3. done'[c] = 0 /\ \A k \in ContextKinds : <<c, k>> \notin ctx'
    BY <1>2, <2>1 DEF Untouched
  <2>4. call'[c] = r /\ r.op \in Ops
    BY <1>1 DEF Invoke, TypeOK, Request
  <2>5. Held[r.op][1] = {}
    BY <2>4 DEF Held, Ops
  <2>6. QED BY <1>3, <2>2, <2>3, <2>4, <2>5 DEF Holds, Complete
<1>4. CASE d # c
  <2>1. call'[d] = call[d] /\ status'[d] = status[d]
    BY <1>1, <1>4 DEF Invoke, TypeOK
  <2>2. QED BY <1>1, <1>2, <2>1, HeldUndisturbed
<1>5. QED BY <1>3, <1>4

LEMMA ConfirmHolds ==
    ASSUME RentInv, NEW c \in Calls, Confirm(c), NEW d \in Calls
    PROVE  Holds(d)' /\ Complete(d)'
<1>1. IInv /\ TypeOK /\ \A e \in Calls : Holds(e) /\ Complete(e)
  BY DEF RentInv, IInv
<1>2. /\ status[c] = "running" /\ Active(c) /\ Land(c) /\ call' = call
      /\ done' = [done EXCEPT ![c] = done[c] + 1]
      /\ status' = [status EXCEPT ![c] =
                       IF done[c] + 1 = Len(Script[call[c].op]) THEN "ok" ELSE status[c]]
  BY DEF Confirm, Active
<1>3. CASE d = c
  <2>1. \A k \in ContextKinds : <<c, k>> \in ctx' <=> k \in Held[call[c].op][done[c] + 2]
    BY <1>1, <1>2, HeldNext
  <2>2. /\ done[c] \in 0..5 /\ done'[c] = done[c] + 1 /\ call'[c] = call[c]
        /\ status'[c] = "ok" => done'[c] = Len(Script[call[c].op])
    BY <1>1, <1>2 DEF TypeOK
  <2>3. done'[c] + 1 = done[c] + 2
    BY <2>2
  <2>4. call[c].op \in Ops
    BY <1>1, <1>2, ActiveCall
  <2>5. QED BY <1>3, <2>1, <2>2, <2>3, <2>4 DEF Holds, Complete
<1>4. CASE d # c
  <2>1. status'[d] = status[d] /\ done'[d] = done[d] /\ call'[d] = call[d]
    BY <1>1, <1>2, <1>4 DEF TypeOK
  <2>2. \A k \in ContextKinds : <<d, k>> \in ctx' <=> <<d, k>> \in ctx
    BY <1>1, <1>2, <1>4, LandKeepsContexts
  <2>3. QED BY <1>1, <2>1, <2>2, HeldUndisturbed
<1>5. QED BY <1>3, <1>4

LEMMA LandLateHolds ==
    ASSUME RentInv, NEW c \in Calls, LandLate(c), NEW d \in Calls
    PROVE  Holds(d)' /\ Complete(d)'
<1>1. IInv /\ TypeOK /\ \A e \in Calls : Holds(e) /\ Complete(e)
  BY DEF RentInv, IInv
<1>2. /\ flight[c] /\ Active(c) /\ Land(c)
      /\ call' = call /\ status' = status /\ done' = done
  BY DEF LandLate, Active
<1>3. CASE d = c
  <2>1. status'[c] = "err"
    BY <1>1, <1>2 DEF IInv, CallOK
  <2>2. QED BY <1>1, <1>3, <2>1, HeldUndisturbed
<1>4. CASE d # c
  <2>1. \A k \in ContextKinds : <<d, k>> \in ctx' <=> <<d, k>> \in ctx
    BY <1>1, <1>2, <1>4, LandKeepsContexts
  <2>2. QED BY <1>1, <1>2, <2>1, HeldUndisturbed
<1>5. QED BY <1>3, <1>4

LEMMA GivingUpHolds ==
    ASSUME RentInv, NEW c \in Calls, Fail(c) \/ Timeout(c) \/ Expire(c), NEW d \in Calls
    PROVE  Holds(d)' /\ Complete(d)'
<1>1. IInv /\ TypeOK /\ \A e \in Calls : Holds(e) /\ Complete(e)
  BY DEF RentInv, IInv
<1>2. /\ ctx' = ctx /\ call' = call /\ done' = done
      /\ status'[d] = "err" \/ status'[d] = status[d]
  BY <1>1 DEF Fail, Timeout, Expire, TypeOK
<1>3. QED BY <1>1, <1>2, HeldUndisturbed

LEMMA NextKeepsRentInv == RentInv /\ [Next]_vars => RentInv'
<1> SUFFICES ASSUME RentInv, [Next]_vars PROVE RentInv'
  OBVIOUS
<1>1. IInv'
  BY NextKeepsIInv DEF RentInv
<1>2. ASSUME NEW d \in Calls PROVE Holds(d)' /\ Complete(d)'
  <2>1. CASE UNCHANGED vars
    BY <2>1, HeldUndisturbed DEF RentInv, vars
  <2>2. CASE Next
    BY <2>2, MenuAssumption, InvokeHolds, ConfirmHolds, LandLateHolds, GivingUpHolds DEF Next
  <2>3. QED BY <2>1, <2>2
<1>3. QED BY <1>1, <1>2 DEF RentInv

THEOREM RentInvariant == Spec => []RentInv
BY InitRentInv, NextKeepsRentInv, PTL DEF Spec

LEMMA HeldReclaimed == RentInv => RentReclaimed
<1> SUFFICES ASSUME RentInv, NEW c \in Calls, NEW k \in ContextKinds,
                    status[c] = "ok", <<c, k>> \in ctx
    PROVE  call[c].op = "configure" /\ k = "pubkey"
  BY DEF RentReclaimed
<1>1. /\ call[c].op \in Ops
      /\ k \in Held[call[c].op][Len(Script[call[c].op]) + 1]
  BY DEF RentInv, Holds, Complete
<1>2. CASE call[c].op = "withdraw"
  BY <1>1, <1>2 DEF Held, Script
<1>3. CASE call[c].op = "transfer"
  BY <1>1, <1>3 DEF Held, Script
<1>4. CASE call[c].op \in {"configure", "deposit", "apply"}
  <2>1. Len(Script[call[c].op]) = 1
    BY <1>4 DEF Script
  <2>2. k \in Held[call[c].op][2]
    BY <1>1, <2>1
  <2>3. QED BY <1>4, <2>2 DEF Held
<1>5. QED BY <1>1, <1>2, <1>3, <1>4 DEF Ops

\* A withdrawal or a transfer that returns Ok has closed all its proof and
\* record accounts, with any number of other calls interleaved; the proof
\* account of configure is the only one that is left.
THEOREM OkLeavesNothing == Spec => []RentReclaimed
BY HeldReclaimed, RentInvariant, PTL

LEMMA HeldInPlace == RentInv => ProofsInPlace
<1> SUFFICES ASSUME RentInv, NEW c \in Calls, status[c] = "running"
    PROVE  LET named == CASE NextTx(c) = "withdraw"       -> {"equality", "range"}
                          [] NextTx(c) = "close_equality" -> {"equality"}
                          [] NextTx(c) = "close_range"    -> {"range"}
                          [] NextTx(c) = "range" /\ call[c].op = "transfer" -> {"record"}
                          [] NextTx(c) = "transfer" ->
                                 {"equality", "validity", "range", "record"}
                          [] OTHER -> {}
           IN  Contexts(c, named) \subseteq ctx
  BY DEF ProofsInPlace
<1> DEFINE op == call[c].op
           n  == done[c]
           tx == NextTx(c)
           named == CASE tx = "withdraw"       -> {"equality", "range"}
                      [] tx = "close_equality" -> {"equality"}
                      [] tx = "close_range"    -> {"range"}
                      [] tx = "range" /\ op = "transfer" -> {"record"}
                      [] tx = "transfer" -> {"equality", "validity", "range", "record"}
                      [] OTHER -> {}
<1>1. /\ op \in Ops /\ n \in 0..5 /\ n < Len(Script[op]) /\ tx = Script[op][n + 1]
      /\ \A k \in ContextKinds : <<c, k>> \in ctx <=> k \in Held[op][n + 1]
  BY ActiveCall DEF RentInv, IInv, TypeOK, CallOK, Active, Holds, NextTx
<1> HIDE DEF op, n, tx
<1>2. named \subseteq Held[op][n + 1] /\ named \subseteq ContextKinds
  <2>1. CASE op \in {"configure", "deposit", "apply"}
    <3>1. n = 0 /\ tx = op
      BY <1>1, <2>1 DEF Script
    <3>2. QED BY <2>1, <3>1
  <2>2. CASE op = "withdraw"
    <3>1. n \in 0..4
      BY <1>1, <2>2 DEF Script
    <3>2. CASE n \in {0, 1}
      BY <1>1, <2>2, <3>2 DEF Script
    <3>3. CASE n = 2
      BY <1>1, <2>2, <3>3 DEF Script, Held, ContextKinds
    <3>4. CASE n = 3
      BY <1>1, <2>2, <3>4 DEF Script, Held, ContextKinds
    <3>5. CASE n = 4
      BY <1>1, <2>2, <3>5 DEF Script, Held, ContextKinds
    <3>6. QED BY <3>1, <3>2, <3>3, <3>4, <3>5
  <2>3. CASE op = "transfer"
    <3>1. n \in 0..4
      BY <1>1, <2>3 DEF Script
    <3>2. CASE n \in {0, 1, 2}
      BY <1>1, <2>3, <3>2 DEF Script
    <3>3. CASE n = 3
      BY <1>1, <2>3, <3>3 DEF Script, Held, ContextKinds
    <3>4. CASE n = 4
      BY <1>1, <2>3, <3>4 DEF Script, Held, ContextKinds
    <3>5. QED BY <3>1, <3>2, <3>3, <3>4
  <2>4. QED BY <1>1, <2>1, <2>2, <2>3 DEF Ops
<1> HIDE DEF named
<1>3. Contexts(c, named) \subseteq ctx
  BY <1>1, <1>2 DEF Contexts
<1>4. QED BY <1>3 DEF named, tx, op

\* The proof and record accounts that a transaction names are always there, with
\* any number of other calls interleaved: no withdrawal and no transfer is ever
\* refused for lack of its own preparation, and no closing finds nothing.
THEOREM NothingMissing == Spec => []ProofsInPlace
BY HeldInPlace, RentInvariant, PTL

-----------------------------------------------------------------------------
\* The same of the calls of DemoServer.

LEMMA ServerKeepsRentInv == RentInv /\ SInv /\ SInv' /\ [ServerNext]_allVars => RentInv'
<1> SUFFICES ASSUME RentInv, SInv, SInv', [ServerNext]_allVars PROVE RentInv'
  OBVIOUS
<1> SUFFICES ASSUME NEW d \in Calls PROVE Holds(d)' /\ Complete(d)'
  BY DEF RentInv, SInv
<1>1. Holds(d) /\ Complete(d)
  BY DEF RentInv
<1>2. UNCHANGED <<ctx, call, status, done>> => Holds(d)' /\ Complete(d)'
  BY <1>1, HeldUndisturbed
<1>3. ASSUME NEW r \in Requests, Handle(r) PROVE Holds(d)' /\ Complete(d)'
  <2>1. CASE LibBegin(r)
    BY <2>1, InvokeHolds, LibBeginFacts
  <2>2. CASE LibAwait(r)
    BY <2>2, ConfirmHolds, GivingUpHolds, LibAwaitFacts
  <2>3. CASE OwnConfirm(r)
    BY <1>2, <2>3 DEF OwnConfirm, OwnTx, clientVars
  <2>4. CASE \/ CheckMint(r) \/ Ensure(r) \/ Fund(r) \/ Check(r) \/ Preview(r)
             \/ OwnFail(r) \/ OwnTimeout(r) \/ Log(r) \/ View(r) \/ ReadFails(r)
    BY <1>2, <2>4 DEF CheckMint, Ensure, Fund, Check, Preview, OwnFail, OwnTimeout, Log,
                      View, ReadFails, vars
  <2>5. QED BY <1>3, <2>1, <2>2, <2>3, <2>4 DEF Handle
<1>4. ASSUME NEW c \in Calls, LibSettle(c) PROVE Holds(d)' /\ Complete(d)'
  BY <1>4, LandLateHolds, GivingUpHolds DEF LibSettle
<1>5. CASE Restart
  <2>1. /\ ctx' = ctx /\ call' = call /\ done' = done
        /\ status'[d] = "err" \/ status'[d] = status[d]
    BY <1>5 DEF Restart
  <2>2. QED BY <1>1, <2>1, HeldUndisturbed
<1>6. ASSUME \/ \E r \in Requests : OwnLandLate(r) \/ OwnExpire(r)
             \/ \E r \in Requests, b \in Bodies : Receive(r, b)
             \/ UNCHANGED allVars
      PROVE  Holds(d)' /\ Complete(d)'
  BY <1>2, <1>6 DEF OwnLandLate, OwnTx, clientVars, OwnExpire, Receive, vars, allVars
<1>7. QED BY <1>3, <1>4, <1>5, <1>6 DEF ServerNext

LEMMA ServerRentInvariant == ServerSpec => []RentInv
<1>1. ServerInit => RentInv
  BY InitRentInv DEF ServerInit
<1>2. QED BY <1>1, ServerKeepsRentInv, ServerInvariant, PTL DEF ServerSpec

\* Whatever the handlers interleave and wherever the process was stopped before,
\* a transfer of theirs that returns Ok has closed all its accounts.
THEOREM ServerOkLeavesNothing == ServerSpec => []RentReclaimed
BY ServerRentInvariant, HeldReclaimed, PTL

\* No transaction of theirs finds its proof accounts missing.
THEOREM ServerNothingMissing == ServerSpec => []ProofsInPlace
BY ServerRentInvariant, HeldInPlace, PTL
=============================================================================
