--------------------------- MODULE FundingProofs ---------------------------
(* On from DemoServerProofs: what the sender of DemoServer was given          *)
(* and what an answer shows. Tokens only move one way, from the sender to the *)
(* receiver, so what init has found or provided cannot be taken away before   *)
(* it answers, and a receiver read after the sender has what the sender lost. *)
EXTENDS DemoServerProofs, SumTheorems

-----------------------------------------------------------------------------
\* What moves.

\* Funds with what has not been applied.
Gross == Funds + Pending(acct[SenderWallet])

LEMMA Amounts ==
    ASSUME IInv
    PROVE  /\ \A w \in Wallets : /\ acct[w] \in Account(Calls)
                                 /\ acct[w].public \in Nat /\ Pending(acct[w]) \in Nat
                                 /\ acct[w].available \in Nat
                                 /\ acct[w].decryptable_available \in Nat
           /\ Funds \in Nat /\ Gross \in Nat
<1>1. \A w \in Wallets : /\ acct[w] \in Account(Calls)
                         /\ acct[w].public \in Nat /\ Pending(acct[w]) \in Nat
                         /\ acct[w].available \in Nat
                         /\ acct[w].decryptable_available \in Nat
  BY PendingType DEF IInv, AcctOK, Account
<1>2. QED BY <1>1, WalletFacts DEF Funds, Gross

LEMMA AmountsThen ==
    ASSUME SInv'
    PROVE  Funds' \in Nat /\ Gross' \in Nat
<1>1. \A w \in Wallets : acct'[w] \in Account(Calls)
  BY DEF SInv, IInv, AcctOK
<1>2. \A w \in Wallets : acct'[w].available \in Nat /\ Pending(acct'[w]) \in Nat
  BY <1>1, PendingType DEF Account
<1>3. /\ Funds' = acct'[SenderWallet].available + acct'[ReceiverWallet].available
                     + Pending(acct'[ReceiverWallet])
      /\ Gross' = Funds' + Pending(acct'[SenderWallet])
  BY DEF Funds, Gross
<1>4. QED BY <1>2, <1>3, WalletFacts

\* What a call's move does to the sum of the balances. It is the sender who
\* pays and the receiver who is paid.
LEMMA MoveFlow ==
    ASSUME SInv, NEW c \in Calls, call[c] # NoRequest, MoveOf(c)
    PROVE  /\ Funds' >= Funds /\ Gross' >= Gross
           /\ Worth(SenderWallet)' + Worth(ReceiverWallet)' =
                  Worth(SenderWallet) + Worth(ReceiverWallet)
           /\ Worth(ReceiverWallet)' >= Worth(ReceiverWallet)
           /\ call[c].op = "deposit" /\ Sender(c) = SenderWallet =>
                  Gross' = Gross + call[c].amount
           /\ call[c].op = "apply" /\ Sender(c) = SenderWallet => Funds' = Gross
<1> DEFINE s == acct[SenderWallet]
           r == acct[ReceiverWallet]
           t == acct'[SenderWallet]
           q == acct'[ReceiverWallet]
           n == call[c].amount
<1>1. /\ s.public \in Nat /\ Pending(s) \in Nat /\ s.available \in Nat
      /\ s.decryptable_available \in Nat
      /\ r.public \in Nat /\ Pending(r) \in Nat /\ r.available \in Nat
  BY Amounts, WalletFacts DEF SInv
<1>2. /\ call[c].op \in LibOps
      /\ call[c].op = "transfer" => Sender(c) = SenderWallet /\ call[c].to = ReceiverWallet
      /\ Sender(c) = SenderWallet \/ Sender(c) = ReceiverWallet
      /\ n \in Nat /\ snap[c] \in Account(Calls)
  BY WalletFacts DEF SInv, Served, MoveOf
<1>3. \/ /\ call[c].op = "configure"
         /\ t.public = s.public /\ Pending(t) = Pending(s) /\ t.available = s.available
         /\ t.decryptable_available = s.decryptable_available
         /\ q.public = r.public /\ Pending(q) = Pending(r) /\ q.available = r.available
      \/ /\ call[c].op = "deposit" /\ Sender(c) = SenderWallet /\ q = r
         /\ t.public = s.public - n /\ Pending(t) = Pending(s) + n
         /\ t.available = s.available /\ t.decryptable_available = s.decryptable_available
      \/ /\ call[c].op = "deposit" /\ Sender(c) = ReceiverWallet /\ t = s
         /\ q.public = r.public - n /\ Pending(q) = Pending(r) + n
         /\ q.available = r.available
      \/ /\ call[c].op = "apply" /\ Sender(c) = SenderWallet /\ q = r
         /\ t.public = s.public /\ Pending(t) = 0 /\ t.available = s.available + Pending(s)
         /\ t.decryptable_available = snap[c].available + Pending(snap[c])
      \/ /\ call[c].op = "apply" /\ Sender(c) = ReceiverWallet /\ t = s
         /\ q.public = r.public /\ Pending(q) = 0 /\ q.available = r.available + Pending(r)
      \/ /\ call[c].op = "transfer"
         /\ t.public = s.public /\ Pending(t) = Pending(s) /\ t.available = s.available - n
         /\ t.decryptable_available = t.available
         /\ q.public = r.public /\ Pending(q) = Pending(r) + n /\ q.available = r.available
         /\ t.available \in Nat
  <2>1. CASE call[c].op = "configure"
    BY <1>2, <2>1, WalletFacts DEF MoveOf, Moves, SameBalances
  <2>2. CASE call[c].op = "deposit"
    BY <1>2, <2>2, WalletFacts DEF MoveOf, Moves
  <2>3. CASE call[c].op = "apply"
    BY <1>2, <2>3, WalletFacts DEF MoveOf, Moves
  <2>4. CASE call[c].op = "transfer"
    <3>1. /\ n <= snap[c].decryptable_available
          /\ snap[c].decryptable_available = snap[c].available
          /\ s.available = snap[c].available
          /\ t.public = s.public /\ Pending(t) = Pending(s)
          /\ t.available = s.available - n
          /\ t.decryptable_available = snap[c].decryptable_available - n
      BY <1>2, <2>4 DEF MoveOf, Moves, Synced
    <3>2. /\ q.public = r.public /\ Pending(q) = Pending(r) + n /\ q.available = r.available
      BY <1>2, <2>4 DEF MoveOf, Credits
    <3> HIDE DEF s, t, q, r, n
    <3>3. t.available \in Nat /\ t.decryptable_available = t.available
      BY <1>1, <1>2, <3>1
    <3>4. QED BY <2>4, <3>1, <3>2, <3>3
  <2>5. QED BY <1>2, <2>1, <2>2, <2>3, <2>4 DEF LibOps
<1>4. /\ Funds = s.available + r.available + Pending(r)
      /\ Gross = s.available + r.available + Pending(r) + Pending(s)
      /\ Funds' = t.available + q.available + Pending(q)
      /\ Gross' = t.available + q.available + Pending(q) + Pending(t)
      /\ Worth(SenderWallet) = s.public + Pending(s) + s.available
      /\ Worth(ReceiverWallet) = r.public + Pending(r) + r.available
      /\ Worth(SenderWallet)' = t.public + Pending(t) + t.available
      /\ Worth(ReceiverWallet)' = q.public + Pending(q) + q.available
  BY DEF Funds, Gross, Worth
<1> HIDE DEF s, r, t, q, n
<1>5. QED BY <1>1, <1>2, <1>3, <1>4, WalletFacts DEF s, t, n

LEMMA LandingMoves ==
    ASSUME SInv, NEW c \in Calls, Confirm(c) \/ LandLate(c)
    PROVE  /\ Active(c) /\ call[c] # NoRequest
           /\ Quiet \/ MoveOf(c)
<1>1. Active(c) /\ Land(c)
  BY DEF Confirm, LandLate, Active
<1>2. /\ call[c] \in Request /\ Sender(c) \in Wallets /\ call[c].amount \in Nat
      /\ snap[c] \in Account(Calls)
  BY <1>1, ActiveCall DEF SInv
<1>3. call[c] # NoRequest
  BY <1>2 DEF Request, NoRequest, Ops
<1>4. Quiet \/ MoveOf(c)
  <2>1. CASE acct' = acct /\ landed' = landed
    BY <2>1 DEF Quiet
  <2>2. CASE ~(acct' = acct /\ landed' = landed)
    <3>1. /\ c \notin landed /\ landed' = landed \cup {c}
          /\ Moves(c)
          /\ call[c].op = "transfer" => call[c].to # Sender(c) /\ Credits(c)
          /\ \A v \in Wallets :
                v # Sender(c) /\ (call[c].op = "transfer" => v # call[c].to)
                    => acct'[v] = acct[v]
      BY <1>1, <2>2, LandMoves DEF SInv
    <3>2. landed' \ landed = {c}
      BY <3>1
    <3>3. QED BY <1>2, <3>1, <3>2 DEF MoveOf
  <2>3. QED BY <2>1, <2>2
<1>5. QED BY <1>1, <1>3, <1>4

\* A deposit or an apply that returns Ok has moved its amount with this step.
LEMMA OkMoves ==
    ASSUME SInv, NEW c \in Calls, Confirm(c), status'[c] = "ok",
           call[c].op \in {"deposit", "apply"}
    PROVE  MoveOf(c)
<1>1. /\ Quiet \/ MoveOf(c)
      /\ Active(c)
  BY LandingMoves
<1>2. c \in landed'
  <2>1. IInv'
    BY ConfirmKeepsIInv DEF SInv
  <2>2. QED BY <2>1 DEF IInv, CallOK
<1>3. c \notin landed
  <2>1. status[c] = "running" /\ done[c] + 1 = Len(Script[call[c].op]) /\ done[c] \in 0..5
    BY DEF Confirm, SInv, IInv, TypeOK
  <2>2. Len(Script[call[c].op]) = 1 /\ MainPos(call[c].op) = 1
    BY DEF Script, MainPos
  <2>3. LandedAt(c)
    BY <1>1 DEF SInv, IInv, CallOK
  <2>4. QED BY <2>1, <2>2, <2>3 DEF LandedAt
<1>4. QED BY <1>1, <1>2, <1>3 DEF Quiet

\* Every step leaves the accounts and the landed calls alone, mints to the
\* sender, or is a move.
LEMMA AccountSteps ==
    ASSUME SInv, [ServerNext]_allVars
    PROVE  \/ Quiet
           \/ \E amount \in Nat : MintTo(amount) /\ landed' = landed
           \/ \E c \in Calls : Active(c) /\ call[c] # NoRequest /\ MoveOf(c)
<1>1. ASSUME NEW j \in Job, NEW tx, OwnTx(j, tx)
      PROVE  Quiet \/ \E amount \in Nat : MintTo(amount) /\ landed' = landed
  BY <1>1 DEF OwnTx, CreateMint, CreateAta, Job, Quiet
<1>2. ASSUME NEW c \in Calls,
             Confirm(c) \/ Fail(c) \/ Timeout(c) \/ LandLate(c) \/ Expire(c)
      PROVE  Quiet \/ (Active(c) /\ call[c] # NoRequest /\ MoveOf(c))
  <2>1. CASE Confirm(c) \/ LandLate(c)
    BY <2>1, LandingMoves
  <2>2. CASE Fail(c) \/ Timeout(c) \/ Expire(c)
    BY <2>2 DEF Fail, Timeout, Expire, Quiet
  <2>3. QED BY <1>2, <2>1, <2>2
<1>3. ASSUME NEW r \in Requests, Handle(r)
      PROVE  \/ Quiet
             \/ \E amount \in Nat : MintTo(amount) /\ landed' = landed
             \/ \E c \in Calls : Active(c) /\ call[c] # NoRequest /\ MoveOf(c)
  <2>1. CASE OwnConfirm(r)
    BY <1>1, <2>1, Places DEF OwnConfirm
  <2>2. CASE LibAwait(r)
    BY <1>2, <2>2, LibAwaitFacts
  <2>3. CASE LibBegin(r)
    BY <2>3, LibBeginFacts DEF Invoke, Quiet
  <2>4. CASE \/ CheckMint(r) \/ Ensure(r) \/ Fund(r) \/ Check(r) \/ Preview(r)
             \/ OwnFail(r) \/ OwnTimeout(r) \/ Log(r) \/ View(r) \/ ReadFails(r)
    BY <2>4 DEF CheckMint, Ensure, Fund, Check, Preview, OwnFail, OwnTimeout, Log, View,
                ReadFails, vars, Quiet
  <2>5. QED BY <1>3, <2>1, <2>2, <2>3, <2>4 DEF Handle
<1>4. ASSUME NEW r \in Requests, NEW b \in Bodies, Receive(r, b) PROVE Quiet
  BY <1>4 DEF Receive, vars, Quiet
<1>5. ASSUME NEW r \in Requests, OwnLandLate(r) \/ OwnExpire(r)
      PROVE  Quiet \/ \E amount \in Nat : MintTo(amount) /\ landed' = landed
  <2>1. CASE OwnLandLate(r)
    BY <1>1, <2>1, Places DEF OwnLandLate
  <2>2. CASE OwnExpire(r)
    BY <2>2 DEF OwnExpire, vars, Quiet
  <2>3. QED BY <1>5, <2>1, <2>2
<1>6. ASSUME NEW c \in Calls, LibSettle(c)
      PROVE  Quiet \/ (Active(c) /\ call[c] # NoRequest /\ MoveOf(c))
  BY <1>2, <1>6 DEF LibSettle
<1>7. CASE Restart
  BY <1>7 DEF Restart, Quiet
<1>8. CASE UNCHANGED allVars
  BY <1>8 DEF allVars, vars, Quiet
<1>9. QED BY <1>3, <1>4, <1>5, <1>6, <1>7, <1>8 DEF ServerNext

-----------------------------------------------------------------------------
\* Where the handlers go.

Kept(q) ==
    /\ job'[q].kind = job[q].kind /\ job'[q].at = job[q].at
    /\ job'[q].amount = job[q].amount /\ job'[q].seen = job[q].seen
    /\ job'[q].goal = job[q].goal /\ job'[q].there = job[q].there

From(q, place) ==
    /\ job[q].at = place /\ job'[q].kind = job[q].kind
    /\ place # "fund" => job'[q].goal = job[q].goal

\* The call of a handler that has just moved its tokens.
HasMoved(q, op) ==
    \E c \in Calls :
        /\ call[c] # NoRequest /\ MoveOf(c)
        /\ call[c].op = op /\ Sender(c) = job[q].wallet /\ call[c].amount = job[q].amount

\* All ways for a job to get where tokens or answers are at stake.
JobStep(q) ==
    \/ Kept(q)
    \/ job'[q].at \notin {"mint_to", "deposit", "apply", "log", "view_sender",
                          "view_receiver", "ok"}
    \/ job'[q].kind # "init" /\ job'[q].at \in {"apply", "log", "view_sender"}
    \/ /\ From(q, "fund") /\ acct' = acct
       /\ \/ job'[q].at = "view_sender" /\ job'[q].goal = Funds
          \/ /\ job'[q].at \in {"mint_to", "deposit"}
             /\ job'[q].goal = Funds + job'[q].amount
    \/ From(q, "mint_to") /\ job'[q].at = "deposit" /\ job'[q].amount = job[q].amount
    \/ From(q, "deposit") /\ job'[q].at = "apply" /\ HasMoved(q, "deposit")
    \/ From(q, "apply") /\ job'[q].at = "log" /\ HasMoved(q, "apply")
    \/ From(q, "log") /\ job'[q].at = "view_sender"
    \/ /\ From(q, "view_sender") /\ job'[q].at = "view_receiver" /\ acct' = acct
       /\ job'[q].seen["sender"] = acct[SenderWallet] /\ job'[q].there = Supply
    \/ /\ From(q, "view_receiver") /\ job'[q].at = "ok" /\ acct' = acct
       /\ job'[q].seen["sender"] = job[q].seen["sender"]
       /\ job'[q].seen["receiver"] = acct[ReceiverWallet]
       /\ job'[q].there = job[q].there

LEMMA OthersKept ==
    ASSUME SInv, NEW r \in Requests, NEW j \in Job, job' = [job EXCEPT ![r] = j],
           NEW q \in Requests, q # r
    PROVE  Kept(q)
<1>1. job'[q] = job[q]
  BY Places
<1>2. QED BY <1>1 DEF Kept

\* A handler that goes on to a place where nothing is at stake, or fails.
LEMMA AsideSteps ==
    ASSUME SInv, NEW r \in Requests,
           \/ CheckMint(r) \/ Check(r) \/ ReadFails(r) \/ OwnFail(r) \/ Log(r)
    PROVE  JobStep(r) /\ \E j \in Job : job' = [job EXCEPT ![r] = j]
<1>1. CASE Log(r)
  <2>1. PICK j \in Job :
        /\ job' = [job EXCEPT ![r] = j]
        /\ j.at = "view_sender" /\ j.kind = job[r].kind /\ j.goal = job[r].goal
    BY <1>1, LogFacts
  <2>2. job'[r] = j /\ job[r].at = "log"
    BY <1>1, <2>1, Places, LogFacts
  <2>3. QED BY <2>1, <2>2 DEF JobStep, From
<1>2. CASE CheckMint(r) \/ Check(r) \/ ReadFails(r) \/ OwnFail(r)
  <2>1. PICK place \in {"err", "create_mint", "ensure", "transfer", "preview"} : Goto(r, place)
    <3>1. CASE CheckMint(r)
      <4>1. mint \in {"none", "ours", "foreign"}
        BY DEF SInv, ServerTypeOK
      <4>2. Goto(r, [none |-> "create_mint", ours |-> "ensure", foreign |-> "err"][mint])
        BY <3>1 DEF CheckMint
      <4>3. CASE mint = "none"
        BY <4>2, <4>3
      <4>4. CASE mint = "ours"
        BY <4>2, <4>4
      <4>5. CASE mint = "foreign"
        BY <4>2, <4>5
      <4>6. QED BY <4>1, <4>3, <4>4, <4>5
    <3>2. CASE Check(r)
      <4>1. job[r].kind \in {"transfer", "apply"}
        BY <3>2, Places DEF Check, At, PlaceOK
      <4>2. Goto(r, IF RequireInitialized
                    THEN [transfer |-> "transfer", apply |-> "preview"][job[r].kind]
                    ELSE "err")
        BY <3>2 DEF Check
      <4>3. CASE RequireInitialized /\ job[r].kind = "transfer"
        BY <4>2, <4>3
      <4>4. CASE RequireInitialized /\ job[r].kind = "apply"
        BY <4>2, <4>4
      <4>5. CASE ~RequireInitialized
        BY <4>2, <4>5
      <4>6. QED BY <4>1, <4>3, <4>4, <4>5
    <3>3. CASE ReadFails(r) \/ OwnFail(r)
      BY <3>3 DEF ReadFails, OwnFail
    <3>4. QED BY <1>2, <3>1, <3>2, <3>3
  <2>2. place \in Reads \cup OwnTxs \cup LibOps \cup Ended \cup {"preview", "log"}
    BY <2>1 DEF Reads, OwnTxs, LibOps, Ended
  <2>3. job'[r].at = place /\ \E j \in Job : job' = [job EXCEPT ![r] = j]
    BY <2>1, <2>2, GotoType
  <2>4. QED BY <2>1, <2>3 DEF JobStep
<1>3. QED BY <1>1, <1>2

LEMMA ReadingSteps ==
    ASSUME SInv, NEW r \in Requests, Ensure(r) \/ Fund(r) \/ Preview(r) \/ View(r)
    PROVE  JobStep(r) /\ \E j \in Job : job' = [job EXCEPT ![r] = j]
<1>1. CASE Ensure(r)
  <2>1. job[r] \in Job
    BY Places
  <2>2. PICK j : /\ job' = [job EXCEPT ![r] = j]
                 /\ j = IF AtaConfigured(job[r].wallet) THEN AccountReady(job[r])
                        ELSE [job[r] EXCEPT !.at = "create_ata"]
    BY <1>1 DEF Ensure
  <2>3. j \in Job /\ j.at \in {"create_ata", "ensure", "fund"}
    <3>1. CASE ~AtaConfigured(job[r].wallet)
      BY <2>1, <2>2, <3>1 DEF Job, OwnTxs
    <3>2. CASE AtaConfigured(job[r].wallet) /\ job[r].wallet = SenderWallet
      <4>1. j = [job[r] EXCEPT !.wallet = ReceiverWallet, !.at = "ensure"]
        BY <2>2, <3>2 DEF AccountReady
      <4>2. QED BY <2>1, <4>1, WalletFacts DEF Job, Reads
    <3>3. CASE AtaConfigured(job[r].wallet) /\ job[r].wallet # SenderWallet
      <4>1. j = [job[r] EXCEPT !.wallet = SenderWallet, !.at = "fund"]
        BY <2>2, <3>3 DEF AccountReady
      <4>2. QED BY <2>1, <4>1, WalletFacts DEF Job, Reads
    <3>4. QED BY <3>1, <3>2, <3>3
  <2>4. job'[r] = j
    BY <2>2, Places
  <2>5. QED BY <2>2, <2>3, <2>4 DEF JobStep
<1>2. CASE Fund(r)
  <2>1. PICK j \in Job :
        /\ job' = [job EXCEPT ![r] = j]
        /\ j.kind = "init" /\ j.goal = FundsGoal
        /\ \/ Needed <= 0 /\ j.at = "view_sender"
           \/ /\ Needed > 0 /\ Needed \in Nat /\ j.amount = Needed
              /\ j.at \in {"mint_to", "deposit"}
    BY <1>2, FundFacts
  <2>2. job[r].at = "fund" /\ job[r].kind = "init" /\ acct' = acct /\ Needed \in Int
    BY <1>2, FundFacts DEF vars, Needed
  <2>3. job'[r] = j
    BY <2>1, Places
  <2>4. \/ j.at = "view_sender" /\ j.goal = Funds
        \/ j.at \in {"mint_to", "deposit"} /\ j.goal = Funds + j.amount
    BY <2>1, <2>2 DEF FundsGoal
  <2>5. QED BY <2>1, <2>2, <2>3, <2>4 DEF JobStep, From
<1>3. CASE Preview(r)
  <2>1. PICK j \in Job : /\ job' = [job EXCEPT ![r] = j]
                         /\ j.at = "apply" /\ j.kind = "apply"
    BY <1>3, PreviewFacts
  <2>2. job'[r] = j
    BY <2>1, Places
  <2>3. QED BY <2>1, <2>2 DEF JobStep
<1>4. CASE View(r)
  <2>1. PICK j \in Job :
        /\ job' = [job EXCEPT ![r] = j]
        /\ j.kind = job[r].kind /\ j.goal = job[r].goal
        /\ \/ /\ job[r].at = "view_sender" /\ j.at = "view_receiver"
              /\ j.seen["sender"] = acct[SenderWallet] /\ j.there = Supply
           \/ /\ job[r].at = "view_receiver" /\ j.at = "ok"
              /\ j.seen["sender"] = job[r].seen["sender"]
              /\ j.seen["receiver"] = acct[ReceiverWallet]
              /\ j.there = job[r].there
    BY <1>4, ViewFacts
  <2>2. job'[r] = j
    BY <2>1, Places
  <2>3. acct' = acct
    BY <1>4 DEF View, vars
  <2>4. QED BY <2>1, <2>2, <2>3 DEF JobStep, From
<1>5. QED BY <1>1, <1>2, <1>3, <1>4

LEMMA SendingSteps ==
    ASSUME SInv, NEW r \in Requests,
           OwnConfirm(r) \/ OwnTimeout(r) \/ LibBegin(r) \/ LibAwait(r)
    PROVE  JobStep(r) /\ \E j \in Job : job' = [job EXCEPT ![r] = j]
<1>1. CASE OwnConfirm(r)
  <2>1. PICK j \in Job :
        /\ job' = [job EXCEPT ![r] = j]
        /\ j.kind = job[r].kind /\ j.amount = job[r].amount /\ j.goal = job[r].goal
        /\ \/ job[r].at = "create_mint" /\ j.at = "ensure"
           \/ job[r].at = "create_ata" /\ j.at = "configure"
           \/ job[r].at = "mint_to" /\ j.at = "deposit"
    BY <1>1, OwnConfirmFacts
  <2>2. job'[r] = j
    BY <2>1, Places
  <2>3. QED BY <2>1, <2>2 DEF JobStep, From
<1>2. CASE OwnTimeout(r)
  <2> DEFINE j == [job[r] EXCEPT !.late = job[r].at, !.at = "err"]
  <2>1. /\ job[r].at \in OwnTxs
        /\ job' = [job EXCEPT ![r].late = job[r].at, ![r].at = "err"]
    BY <1>2 DEF OwnTimeout
  <2>2. job' = [job EXCEPT ![r] = j]
    BY <2>1, Places
  <2>3. j \in Job /\ j.at = "err"
    BY <2>1, Places DEF Job, Ended
  <2> HIDE DEF j
  <2>4. job'[r] = j
    BY <2>2, Places
  <2>5. QED BY <2>2, <2>3, <2>4 DEF JobStep
<1>3. CASE LibBegin(r)
  <2>1. PICK j \in Job :
        /\ job' = [job EXCEPT ![r] = j]
        /\ j.kind = job[r].kind /\ j.amount = job[r].amount /\ j.seen = job[r].seen
        /\ j.goal = job[r].goal /\ j.there = job[r].there
        /\ j.at = "err" \/ j.at = job[r].at
    BY <1>3, LibBeginFacts
  <2>2. job'[r] = j
    BY <2>1, Places
  <2>3. QED BY <2>1, <2>2 DEF JobStep, Kept
<1>4. CASE LibAwait(r)
  <2> DEFINE c == Latest(r)
  <2>1. /\ c \in Calls /\ call[c] = LibRequest(job[r])
        /\ status'[c] # "err" => Confirm(c)
    BY <1>4, LibAwaitFacts
  <2>2. PICK j \in Job :
        /\ job' = [job EXCEPT ![r] = j]
        /\ j.kind = job[r].kind /\ j.amount = job[r].amount /\ j.seen = job[r].seen
        /\ j.goal = job[r].goal /\ j.there = job[r].there
        /\ \/ j = job[r]
           \/ j.at \in {"err", "ensure", "fund"}
           \/ status'[c] = "ok" /\ job[r].at = "deposit" /\ j.at = "apply"
           \/ status'[c] = "ok" /\ job[r].at = "apply" /\ j.at = "log"
           \/ job[r].at = "transfer" /\ j.at = "log"
    BY <1>4, LibAwaitFacts
  <2>3. job'[r] = j
    BY <2>2, Places
  <2>4. /\ call[c].op = job[r].at /\ Sender(c) = job[r].wallet
        /\ call[c].amount = job[r].amount
    BY <2>1 DEF LibRequest, Sender
  <2> HIDE DEF c
  <2>5. CASE j = job[r]
    <3>1. Kept(r)
      BY <2>3, <2>5 DEF Kept
    <3>2. QED BY <2>2, <3>1 DEF JobStep
  <2>6. CASE j.at \in {"err", "ensure", "fund"}
    <3>1. job'[r].at \in {"err", "ensure", "fund"}
      BY <2>3, <2>6
    <3>2. QED BY <2>2, <3>1 DEF JobStep
  <2>7. CASE /\ status'[c] = "ok" /\ job[r].at \in {"deposit", "apply"}
             /\ j.at = IF job[r].at = "deposit" THEN "apply" ELSE "log"
    <3>1. Confirm(c) /\ MoveOf(c)
      BY <2>1, <2>4, <2>7, OkMoves
    <3>2. call[c] # NoRequest
      BY <3>1, LandingMoves, <2>1
    <3>3. HasMoved(r, job[r].at)
      BY <2>1, <2>4, <3>1, <3>2 DEF HasMoved
    <3>4. QED BY <2>2, <2>3, <2>7, <3>3 DEF JobStep, From
  <2>8. CASE job[r].at = "transfer" /\ j.at = "log"
    <3>1. job[r].kind = "transfer"
      BY <2>8, Places DEF PlaceOK
    <3>2. QED BY <2>2, <2>3, <2>8, <3>1 DEF JobStep
  <2>9. QED BY <2>2, <2>3, <2>5, <2>6, <2>7, <2>8
<1>5. QED BY <1>1, <1>2, <1>3, <1>4

LEMMA JobSteps ==
    ASSUME SInv, [ServerNext]_allVars, NEW q \in Requests
    PROVE  JobStep(q)
<1>1. ASSUME NEW r \in Requests, JobStep(r), \E j \in Job : job' = [job EXCEPT ![r] = j]
      PROVE  JobStep(q)
  BY <1>1, OthersKept DEF JobStep
<1>2. ASSUME NEW r \in Requests, NEW b \in Bodies, Receive(r, b) PROVE JobStep(q)
  <2> DEFINE j == [NoJob EXCEPT !.kind = b.kind, !.wallet = b.wallet, !.amount = b.amount,
                                !.at = Entry[b.kind]]
  <2>1. job' = [job EXCEPT ![r] = j]
    BY <1>2 DEF Receive
  <2>2. /\ b.kind \in {"init", "transfer", "apply", "state"}
        /\ b.wallet \in Wallets /\ b.amount \in Nat
    BY ServerAssumption DEF Body
  <2>3. /\ b.kind # "state" => Entry[b.kind] \in {"mint", "check"}
        /\ b.kind = "state" => Entry[b.kind] = "view_sender"
    BY <2>2 DEF Entry
  <2>4. j.kind = b.kind /\ j.at = Entry[b.kind]
    BY DEF NoJob
  <2>5. j \in Job
    <3>1. NoJob \in Job
      BY WalletFacts DEF NoJob, Job, Unconfigured, Account, OwnTxs
    <3>2. Entry[b.kind] \in {"idle", "preview", "log"} \cup Reads \cup OwnTxs \cup LibOps \cup Ended
      BY <2>3 DEF Reads
    <3>3. QED BY <2>2, <3>1, <3>2 DEF Job
  <2> HIDE DEF j
  <2>6. job'[r] = j
    BY <2>1, Places
  <2>7. JobStep(r)
    BY <2>2, <2>3, <2>4, <2>6 DEF JobStep
  <2>8. QED BY <1>1, <2>1, <2>5, <2>7
<1>3. ASSUME NEW r \in Requests, Handle(r) PROVE JobStep(q)
  BY <1>1, <1>3, AsideSteps, ReadingSteps, SendingSteps DEF Handle
<1>4. ASSUME NEW r \in Requests, OwnLandLate(r) \/ OwnExpire(r) PROVE JobStep(q)
  <2>1. job' = [job EXCEPT ![r].late = "none"]
    BY <1>4 DEF OwnLandLate, OwnExpire
  <2>2. Kept(q)
    BY <2>1, Places DEF Kept, Job
  <2>3. QED BY <2>2 DEF JobStep
<1>5. ASSUME NEW c \in Calls, LibSettle(c) PROVE JobStep(q)
  BY <1>5 DEF LibSettle, serverVars, JobStep, Kept
<1>6. CASE Restart
  <2>1. PICK sent \in SUBSET Requests :
          job' = [r \in Requests |->
               IF Running(r)
               THEN [job[r] EXCEPT !.at = "lost",
                                   !.late = IF r \in sent /\ job[r].at \in OwnTxs
                                            THEN job[r].at ELSE @]
               ELSE job[r]]
    BY <1>6 DEF Restart
  <2>2. CASE Running(q)
    <3>1. job[q] \in Job
      BY Places
    <3>2. job'[q].at = "lost"
      BY <2>1, <2>2, <3>1 DEF Job
    <3>3. QED BY <3>2 DEF JobStep
  <2>3. CASE ~Running(q)
    BY <2>1, <2>3 DEF JobStep, Kept
  <2>4. QED BY <2>2, <2>3
<1>7. CASE UNCHANGED allVars
  BY <1>7 DEF allVars, JobStep, Kept
<1>8. QED BY <1>2, <1>3, <1>4, <1>5, <1>6, <1>7 DEF ServerNext

-----------------------------------------------------------------------------
\* Which way tokens go.

LEMMA MintFlow ==
    ASSUME SInv, NEW amount \in Nat, MintTo(amount)
    PROVE  /\ Funds' = Funds /\ Gross' = Gross
           /\ acct'[SenderWallet].decryptable_available =
                  acct[SenderWallet].decryptable_available
           /\ Worth(SenderWallet)' = Worth(SenderWallet) + amount
           /\ Worth(ReceiverWallet)' = Worth(ReceiverWallet)
<1> DEFINE s == acct[SenderWallet]
           t == [acct[SenderWallet] EXCEPT !.public = @ + amount]
<1>1. acct' = [acct EXCEPT ![SenderWallet] = t]
  BY DEF MintTo
<1>2. acct \in [Wallets -> Account(Calls)]
  BY DEF SInv, IInv, AcctOK
<1>3. s \in Account(Calls) /\ s.public \in Nat /\ Pending(s) \in Nat /\ s.available \in Nat
  BY Amounts, WalletFacts DEF SInv
<1>4. /\ t.public = s.public + amount /\ t.available = s.available
      /\ t.pending_lo = s.pending_lo /\ t.pending_hi = s.pending_hi
      /\ t.decryptable_available = s.decryptable_available
  BY <1>3 DEF Account
<1>5. Pending(t) = Pending(s)
  BY <1>4 DEF Pending
<1> HIDE DEF t
<1>6. acct'[SenderWallet] = t /\ acct'[ReceiverWallet] = acct[ReceiverWallet]
  BY <1>1, <1>2, WalletFacts
<1>7. /\ Funds' = Funds /\ Gross' = Gross
      /\ Worth(ReceiverWallet)' = Worth(ReceiverWallet)
      /\ acct'[SenderWallet].decryptable_available = s.decryptable_available
  BY <1>4, <1>5, <1>6 DEF Funds, Gross, Worth
<1>8. /\ Worth(SenderWallet)' = t.public + Pending(t) + t.available
      /\ Worth(SenderWallet) = s.public + Pending(s) + s.available
  BY <1>6 DEF Worth
<1> HIDE DEF s
<1>9. Worth(SenderWallet)' = Worth(SenderWallet) + amount
  BY <1>3, <1>4, <1>5, <1>8
<1>10. QED BY <1>7, <1>9 DEF s

LEMMA WorthType ==
    ASSUME SInv
    PROVE  Worth(SenderWallet) \in Nat /\ Worth(ReceiverWallet) \in Nat
BY Amounts, WalletFacts DEF SInv, Worth

\* No step takes from what the sender was given, from all tokens, or from those
\* of the receiver.
LEMMA Flow ==
    ASSUME SInv, [ServerNext]_allVars
    PROVE  /\ Funds' >= Funds /\ Gross' >= Gross
           /\ Worth(SenderWallet)' + Worth(ReceiverWallet)' >=
                  Worth(SenderWallet) + Worth(ReceiverWallet)
           /\ Worth(ReceiverWallet)' >= Worth(ReceiverWallet)
<1>1. Funds \in Nat /\ Gross \in Nat
  BY Amounts DEF SInv
<1>2. Worth(SenderWallet) \in Nat /\ Worth(ReceiverWallet) \in Nat
  BY WorthType
<1>3. CASE acct' = acct
  <2>1. /\ Funds' = Funds /\ Gross' = Gross
        /\ Worth(SenderWallet)' = Worth(SenderWallet)
        /\ Worth(ReceiverWallet)' = Worth(ReceiverWallet)
    BY <1>3 DEF Funds, Gross, Worth
  <2>2. QED BY <1>1, <1>2, <2>1
<1>4. ASSUME NEW amount \in Nat, MintTo(amount)
      PROVE  /\ Funds' >= Funds /\ Gross' >= Gross
             /\ Worth(SenderWallet)' + Worth(ReceiverWallet)' >=
                    Worth(SenderWallet) + Worth(ReceiverWallet)
             /\ Worth(ReceiverWallet)' >= Worth(ReceiverWallet)
  <2>1. /\ Funds' = Funds /\ Gross' = Gross
        /\ Worth(SenderWallet)' = Worth(SenderWallet) + amount
        /\ Worth(ReceiverWallet)' = Worth(ReceiverWallet)
    BY <1>4, MintFlow
  <2>2. QED BY <1>1, <1>2, <2>1
<1>5. ASSUME NEW c \in Calls, call[c] # NoRequest, MoveOf(c)
      PROVE  /\ Funds' >= Funds /\ Gross' >= Gross
             /\ Worth(SenderWallet)' + Worth(ReceiverWallet)' >=
                    Worth(SenderWallet) + Worth(ReceiverWallet)
             /\ Worth(ReceiverWallet)' >= Worth(ReceiverWallet)
  <2>1. /\ Funds' >= Funds /\ Gross' >= Gross
        /\ Worth(SenderWallet)' + Worth(ReceiverWallet)' =
               Worth(SenderWallet) + Worth(ReceiverWallet)
        /\ Worth(ReceiverWallet)' >= Worth(ReceiverWallet)
    BY <1>5, MoveFlow
  <2>2. QED BY <1>2, <2>1
<1>6. QED BY <1>3, <1>4, <1>5, AccountSteps DEF Quiet

-----------------------------------------------------------------------------
\* What an init has provided.

MoneyJob(r) ==
    job[r].kind = "init" =>
        /\ job[r].at \in {"mint_to", "deposit"} => Gross + job[r].amount >= job[r].goal
        /\ job[r].at = "apply" => Gross >= job[r].goal
        /\ job[r].at \in {"log", "view_sender", "view_receiver", "ok"} =>
               Funds >= job[r].goal

MInv == SInv /\ \A r \in Requests : MoneyJob(r)

LEMMA InitMInv == ServerInit => MInv
<1>1. ServerInit => SInv
  BY InitSInv
<1>2. ServerInit => \A r \in Requests : MoneyJob(r)
  BY DEF ServerInit, NoJob, MoneyJob
<1>3. QED BY <1>1, <1>2 DEF MInv

LEMMA MoneyJobKept ==
    ASSUME MInv, [ServerNext]_allVars, NEW q \in Requests
    PROVE  MoneyJob(q)'
<1> DEFINE goal == job'[q].goal
<1> SUFFICES ASSUME job'[q].kind = "init"
    PROVE  /\ job'[q].at \in {"mint_to", "deposit"} => Gross' + job'[q].amount >= goal
           /\ job'[q].at = "apply" => Gross' >= goal
           /\ job'[q].at \in {"log", "view_sender", "view_receiver", "ok"} => Funds' >= goal
  BY DEF MoneyJob
<1>1. /\ SInv /\ MoneyJob(q)
      /\ Funds \in Nat /\ Gross \in Nat /\ Gross >= Funds
      /\ job[q].amount \in Nat /\ JobStep(q)
  <2>1. SInv /\ MoneyJob(q)
    BY DEF MInv
  <2>2. Funds \in Nat /\ Gross \in Nat /\ Pending(acct[SenderWallet]) \in Nat
    BY <2>1, Amounts, WalletFacts DEF SInv
  <2>3. Gross >= Funds
    <3>1. Gross = Funds + Pending(acct[SenderWallet])
      BY DEF Gross
    <3>2. QED BY <2>2, <3>1
  <2>4. QED BY <2>1, <2>2, <2>3, Places, JobSteps
<1>2. Funds' >= Funds /\ Gross' >= Gross
  BY <1>1, Flow
<1>3. Funds' \in Nat /\ Gross' \in Nat /\ job'[q].amount \in Nat /\ goal \in Nat
  <2>1. SInv'
    BY <1>1, NextKeepsSInv
  <2>2. job'[q].amount \in Nat /\ goal \in Nat
    BY <2>1 DEF SInv, ServerTypeOK, Job
  <2>3. QED BY <2>1, <2>2, AmountsThen
<1> HIDE DEF goal
<1>4. CASE /\ goal = job[q].goal
           /\ \/ Kept(q)
              \/ /\ job[q].kind = "init" /\ job'[q].amount = job[q].amount
                 /\ job[q].at = "mint_to" /\ job'[q].at = "deposit"
  <2>1. /\ job[q].kind = "init"
        /\ job'[q].at \in {"mint_to", "deposit"} =>
               job[q].at \in {"mint_to", "deposit"} /\ job'[q].amount = job[q].amount
        /\ job'[q].at \notin {"mint_to", "deposit"} => job'[q].at = job[q].at
    BY <1>4 DEF Kept
  <2>2. /\ job'[q].at \in {"mint_to", "deposit"} => Gross + job'[q].amount >= goal
        /\ job'[q].at = "apply" => Gross >= goal
        /\ job'[q].at \in {"log", "view_sender", "view_receiver", "ok"} => Funds >= goal
    BY <1>1, <1>4, <2>1 DEF MoneyJob
  <2>3. QED BY <1>1, <1>2, <1>3, <2>2
<1>5. CASE job'[q].at \notin {"mint_to", "deposit", "apply", "log", "view_sender",
                              "view_receiver", "ok"}
  BY <1>5
<1>6. CASE From(q, "fund") /\ job'[q].at = "view_sender" /\ goal = Funds
  BY <1>1, <1>2, <1>3, <1>6
<1>7. CASE From(q, "fund") /\ job'[q].at \in {"mint_to", "deposit"}
               /\ goal = Funds + job'[q].amount
  <2>1. Gross' + job'[q].amount >= goal
    BY <1>1, <1>2, <1>3, <1>7
  <2>2. QED BY <1>7, <2>1
<1>8. CASE From(q, "deposit") /\ job'[q].at = "apply" /\ HasMoved(q, "deposit")
  <2>1. PICK c \in Calls : /\ call[c] # NoRequest /\ MoveOf(c)
                           /\ call[c].op = "deposit" /\ Sender(c) = job[q].wallet
                           /\ call[c].amount = job[q].amount
    BY <1>8 DEF HasMoved
  <2>2. job[q].wallet = SenderWallet
    BY <1>1, <1>8, Places DEF From, PlaceOK
  <2>3. Gross' = Gross + job[q].amount
    BY <1>1, <2>1, <2>2, MoveFlow
  <2>4. Gross + job[q].amount >= goal
    BY <1>1, <1>8 DEF From, MoneyJob, goal
  <2>5. QED BY <1>8, <2>3, <2>4
<1>9. CASE From(q, "apply") /\ job'[q].at = "log" /\ HasMoved(q, "apply")
  <2>1. PICK c \in Calls : /\ call[c] # NoRequest /\ MoveOf(c)
                           /\ call[c].op = "apply" /\ Sender(c) = job[q].wallet
    BY <1>9 DEF HasMoved
  <2>2. job[q].wallet = SenderWallet
    BY <1>1, <1>9, Places DEF From, PlaceOK
  <2>3. Funds' = Gross
    BY <1>1, <2>1, <2>2, MoveFlow
  <2>4. Gross >= goal
    BY <1>1, <1>9 DEF From, MoneyJob, goal
  <2>5. QED BY <1>9, <2>3, <2>4
<1>10. CASE \/ From(q, "log") /\ job'[q].at = "view_sender"
            \/ From(q, "view_sender") /\ job'[q].at = "view_receiver"
            \/ From(q, "view_receiver") /\ job'[q].at = "ok"
  <2>1. Funds >= goal
    BY <1>1, <1>10 DEF From, MoneyJob, goal
  <2>2. Funds' >= goal
    BY <1>1, <1>2, <1>3, <2>1
  <2>3. QED BY <1>10, <2>2
<1>11. QED
  <2>1. Kept(q) => goal = job[q].goal
    BY DEF Kept, goal
  <2>2. From(q, "mint_to") => goal = job[q].goal /\ job[q].kind = "init"
    BY DEF From, goal
  <2>3. QED
    BY <1>1, <1>4, <1>5, <1>6, <1>7, <1>8, <1>9, <1>10, <2>1, <2>2 DEF JobStep, From, goal

LEMMA NextKeepsMInv == MInv /\ [ServerNext]_allVars => MInv'
<1> SUFFICES ASSUME MInv, [ServerNext]_allVars PROVE MInv'
  OBVIOUS
<1>1. SInv'
  BY NextKeepsSInv DEF MInv
<1>2. QED BY <1>1, MoneyJobKept DEF MInv

THEOREM MoneyInvariant == ServerSpec => []MInv
BY InitMInv, NextKeepsMInv, PTL DEF ServerSpec

\* An init that answers ok has given the sender what it had found missing,
\* whatever other requests do on the same accounts, lands late or is lost.
THEOREM InitsFund == ServerSpec => []InitOkFunded
<1>1. MInv => InitOkFunded
  BY DEF MInv, MoneyJob, InitOkFunded, At
<1>2. QED BY <1>1, MoneyInvariant, PTL

-----------------------------------------------------------------------------
\* What an answer shows.

\* The receiver makes up for what the sender has paid since it was read.
AnswerOK(r) ==
    LET s == job[r].seen["sender"]
        v == job[r].seen["receiver"]
    IN  /\ job[r].at = "view_receiver" /\ Readable(s) =>
               Shown(s) + Worth(ReceiverWallet) >= job[r].there
        /\ job[r].at = "ok" /\ Readable(s) /\ Readable(v) =>
               Shown(s) + Shown(v) >= job[r].there

AInv == SInv /\ \A r \in Requests : AnswerOK(r)

\* The low half always decrypts: LoDecrypts.
LEMMA ShownReadable ==
    ASSUME SInv, NEW w \in Wallets, Readable(acct[w])
    PROVE  Shown(acct[w]) = Worth(w)
<1>1. DecryptsU32(acct[w].pending_lo)
  BY LoDecrypts DEF SInv, PendingLoDecryptable
<1>2. QED BY <1>1 DEF Readable, Synced, Shown, PendingShown, Pending, Worth

LEMMA ShownType ==
    ASSUME NEW a \in Account(Calls)
    PROVE  Shown(a) \in Nat
BY LimitsAssumption DEF Shown, PendingShown, Account

LEMMA InitAInv == ServerInit => AInv
<1>1. ServerInit => SInv
  BY InitSInv
<1>2. ServerInit => \A r \in Requests : AnswerOK(r)
  BY DEF ServerInit, NoJob, AnswerOK
<1>3. QED BY <1>1, <1>2 DEF AInv

LEMMA AnswerKept ==
    ASSUME AInv, [ServerNext]_allVars, NEW q \in Requests
    PROVE  AnswerOK(q)'
<1> DEFINE s == job[q].seen["sender"]
           t == job'[q].seen["sender"]
           v == job'[q].seen["receiver"]
           there == job'[q].there
<1> SUFFICES ASSUME Readable(t)
    PROVE  /\ job'[q].at = "view_receiver" => Shown(t) + Worth(ReceiverWallet)' >= there
           /\ job'[q].at = "ok" /\ Readable(v) => Shown(t) + Shown(v) >= there
  BY DEF AnswerOK
<1>1. /\ SInv /\ JobStep(q) /\ AnswerOK(q)
      /\ Worth(SenderWallet) \in Nat /\ Worth(ReceiverWallet) \in Nat
      /\ Shown(s) \in Nat
  <2>1. SInv
    BY DEF AInv
  <2>2. s \in Account(Calls)
    BY <2>1, Places
  <2>3. Shown(s) \in Nat
    BY <2>2, ShownType
  <2>4. QED BY <2>1, <2>3, JobSteps, WorthType DEF AInv
<1>2. SInv'
  BY <1>1, NextKeepsSInv
<1>3. Worth(ReceiverWallet)' >= Worth(ReceiverWallet)
  BY <1>1, Flow
<1>4. Worth(ReceiverWallet)' \in Nat /\ there \in Nat
  <2>1. acct'[ReceiverWallet] \in Account(Calls)
    BY <1>2, WalletFacts DEF SInv, IInv, AcctOK
  <2>2. /\ acct'[ReceiverWallet].public \in Nat /\ acct'[ReceiverWallet].available \in Nat
        /\ Pending(acct'[ReceiverWallet]) \in Nat
    BY <2>1, PendingType DEF Account
  <2>3. there \in Nat
    BY <1>2 DEF SInv, ServerTypeOK, Job
  <2>4. QED BY <2>2, <2>3 DEF Worth
<1>5. CASE Kept(q)
  <2>1. job'[q].at = job[q].at /\ job'[q].seen = job[q].seen /\ there = job[q].there
    BY <1>5 DEF Kept
  <2>2. /\ t = s
        /\ job[q].at = "view_receiver" => Shown(s) + Worth(ReceiverWallet) >= there
        /\ job[q].at = "ok" /\ Readable(v) => Shown(s) + Shown(v) >= there
    BY <1>1, <2>1 DEF AnswerOK
  <2> HIDE DEF s, t, v, there
  <2>3. Shown(s) + Worth(ReceiverWallet) >= there =>
            Shown(s) + Worth(ReceiverWallet)' >= there
    BY <1>1, <1>3, <1>4
  <2>4. QED BY <2>1, <2>2, <2>3
<1>6. CASE job'[q].at \notin {"view_receiver", "ok"}
  BY <1>6
<1>7. CASE /\ job'[q].at = "view_receiver" /\ acct' = acct
           /\ t = acct[SenderWallet] /\ there = Supply
  <2>1. Shown(t) = Worth(SenderWallet)
    BY <1>1, <1>7, ShownReadable, WalletFacts
  <2>2. Worth(ReceiverWallet)' = Worth(ReceiverWallet)
    BY <1>7 DEF Worth
  <2>3. there = Worth(SenderWallet) + Worth(ReceiverWallet)
    BY <1>7 DEF Supply
  <2> HIDE DEF t, v, there
  <2>4. QED BY <1>1, <1>7, <2>1, <2>2, <2>3
<1>8. CASE /\ job[q].at = "view_receiver" /\ job'[q].at = "ok"
           /\ t = s /\ v = acct[ReceiverWallet] /\ there = job[q].there
  <2>1. Readable(v) => Shown(v) = Worth(ReceiverWallet)
    BY <1>1, <1>8, ShownReadable, WalletFacts
  <2>2. Shown(s) + Worth(ReceiverWallet) >= there
    BY <1>1, <1>8 DEF AnswerOK
  <2> HIDE DEF s, t, v, there
  <2>3. QED BY <1>8, <2>1, <2>2
<1>9. QED BY <1>1, <1>5, <1>6, <1>7, <1>8 DEF JobStep, From

LEMMA NextKeepsAInv == AInv /\ [ServerNext]_allVars => AInv'
<1> SUFFICES ASSUME AInv, [ServerNext]_allVars PROVE AInv'
  OBVIOUS
<1>1. SInv'
  BY NextKeepsSInv DEF AInv
<1>2. QED BY <1>1, AnswerKept DEF AInv

THEOREM AnswerInvariant == ServerSpec => []AInv
BY InitAInv, NextKeepsAInv, PTL DEF ServerSpec

\* An answer whose two accounts can be read never shows fewer tokens than there
\* were when it was begun, although transfers and mints land between the reads.
THEOREM AnswersShowAll == ServerSpec => []ShownNeverShort
<1>1. AInv => ShownNeverShort
  BY DEF AInv, AnswerOK, ShownNeverShort, At
<1>2. QED BY <1>1, AnswerInvariant, PTL

-----------------------------------------------------------------------------
\* How many tokens init makes. What a request may still mint is its due: the
\* target until it has looked at the balance, then what it has found missing,
\* and nothing once that has landed or has been given up.

BeforeFunding == {"mint", "create_mint", "ensure", "create_ata", "configure", "fund"}

Minting(r) == job[r].at = "mint_to" \/ job[r].late = "mint_to"

Due(r) ==
    IF Minting(r) THEN job[r].extra
    ELSE IF job[r].at \in BeforeFunding THEN Target ELSE 0

Dues == [r \in Requests |-> Due(r)]

Inits == {r \in Requests : job[r].kind = "init"}

\* A transaction that may still land belongs to a handler that has ended, and
\* none mints more than the target.
DueOK(r) ==
    /\ job[r].late # "none" => job[r].at \in Ended
    /\ Minting(r) => job[r].kind = "init" /\ job[r].extra <= Target

\* What has been made and what is due are paid for by the inits received.
DueInv ==
    /\ SInv
    /\ \A r \in Requests : DueOK(r)
    /\ IsFiniteSet(Inits)
    /\ Supply + SumFunctionOnSet(Dues, Inits) <= StartSupply + Target * Cardinality(Inits)

LEMMA DueType ==
    ASSUME SInv, NEW r \in Requests
    PROVE  Due(r) \in Nat /\ Dues[r] = Due(r)
<1>1. job[r].extra \in Nat /\ Target \in Nat
  BY Places, ServerAssumption DEF Job
<1>2. QED BY <1>1 DEF Due, Dues

\* How a job changes, but for its reception: not at all; on the way to the
\* funding; from there to the mint; from the mint to its end, with the mint
\* outstanding; or to a place where nothing is due.
DueStep(q) ==
    /\ job'[q].kind = job[q].kind
    /\ \/ job'[q] = job[q]
       \/ /\ job[q].at \in BeforeFunding /\ job'[q].at \in BeforeFunding
          /\ job'[q].late = job[q].late
       \/ /\ job[q].at = "fund" /\ job'[q].at = "mint_to"
          /\ job'[q].late = job[q].late
          /\ job[q].kind = "init" /\ job'[q].extra <= Target
       \/ /\ job[q].at = "mint_to" /\ job'[q].at \in Ended
          /\ job'[q].late = "mint_to" /\ job'[q].extra = job[q].extra
       \/ /\ job'[q].at \notin BeforeFunding \cup {"mint_to"}
          /\ job'[q].late # "mint_to"
          /\ job'[q].late # "none" => job'[q].at \in Ended

\* No such step adds to what is due.
LEMMA DueFalls ==
    ASSUME SInv, SInv', NEW q \in Requests, DueOK(q), DueStep(q)
    PROVE  DueOK(q)' /\ Due(q)' <= Due(q)
<1>1. /\ job[q].extra \in Nat /\ job'[q].extra \in Nat /\ Target \in Nat
      /\ Due(q) \in Nat /\ Due(q)' \in Nat
  <2>1. job \in [Requests -> Job] /\ job' \in [Requests -> Job]
    BY DEF SInv, ServerTypeOK
  <2>2. job[q].extra \in Nat /\ job'[q].extra \in Nat /\ Target \in Nat
    BY <2>1, ServerAssumption DEF Job
  <2>3. QED BY <2>2 DEF Due
<1>2. CASE job'[q] = job[q]
  BY <1>1, <1>2 DEF DueOK, Due, Minting
<1>3. CASE /\ job[q].at \in BeforeFunding /\ job'[q].at \in BeforeFunding
           /\ job'[q].late = job[q].late
  BY <1>1, <1>3 DEF DueOK, Due, Minting, BeforeFunding, Ended
<1>4. CASE /\ job[q].at = "fund" /\ job'[q].at = "mint_to" /\ job'[q].late = job[q].late
           /\ job[q].kind = "init" /\ job'[q].extra <= Target
  BY <1>1, <1>4 DEF DueOK, DueStep, Due, Minting, BeforeFunding, Ended
<1>5. CASE /\ job[q].at = "mint_to" /\ job'[q].at \in Ended
           /\ job'[q].late = "mint_to" /\ job'[q].extra = job[q].extra
  BY <1>1, <1>5 DEF DueOK, DueStep, Due, Minting
<1>6. CASE /\ job'[q].at \notin BeforeFunding \cup {"mint_to"}
           /\ job'[q].late # "mint_to"
           /\ job'[q].late # "none" => job'[q].at \in Ended
  BY <1>1, <1>6 DEF DueOK, Due, Minting
<1>7. QED BY <1>2, <1>3, <1>4, <1>5, <1>6 DEF DueStep

\* A handler that is not waiting for a transaction of its own leaves alone what
\* was sent, and only Fund decides how much to mint.
LEMMA LateKept ==
    ASSUME SInv, NEW r \in Requests, Handle(r), ~OwnTimeout(r)
    PROVE  job'[r].late = job[r].late /\ job'[r].kind = job[r].kind
<1>1. job \in [Requests -> Job] /\ job[r] \in Job
  BY Places
<1>2. ASSUME NEW place, Goto(r, place)
      PROVE  job'[r].late = job[r].late /\ job'[r].kind = job[r].kind
  BY <1>1, <1>2 DEF Goto, Job
<1>3. CASE CheckMint(r) \/ Check(r) \/ ReadFails(r) \/ OwnFail(r)
  BY <1>2, <1>3 DEF CheckMint, Check, ReadFails, OwnFail
<1>4. \A j \in Job : AccountReady(j).late = j.late /\ AccountReady(j).kind = j.kind
  BY DEF AccountReady, Job
<1>5. \A j \in Job : Advanced(j).late = j.late /\ Advanced(j).kind = j.kind
  BY <1>4 DEF Advanced, Job
<1>6. CASE Ensure(r)
  BY <1>1, <1>4, <1>6 DEF Ensure, Job
<1>7. CASE Fund(r)
  BY <1>1, <1>2, <1>7 DEF Fund, Job
<1>8. CASE Preview(r)
  BY <1>1, <1>8 DEF Preview, Job
<1>9. CASE OwnConfirm(r)
  BY <1>1, <1>5, <1>9 DEF OwnConfirm
<1>10. CASE LibBegin(r)
  BY <1>1, <1>10 DEF LibBegin, Job
<1>11. CASE LibAwait(r)
  <2>1. \/ job'[r] = job[r] \/ job'[r] = Advanced(job[r])
        \/ job'[r] = [job[r] EXCEPT !.at = "err"]
    <3>1. status'[Latest(r)] \in {"running", "ok", "err"}
      BY <1>11, LibAwaitFacts
    <3>2. QED BY <1>1, <1>11, <3>1 DEF LibAwait
  <2>2. QED BY <1>1, <1>5, <2>1 DEF Job
<1>12. CASE View(r)
  BY <1>1, <1>12 DEF View, Job
<1>13. CASE Log(r)
  BY <1>1, <1>13 DEF Log, Job
<1>14. QED BY <1>3, <1>6, <1>7, <1>8, <1>9, <1>10, <1>11, <1>12, <1>13 DEF Handle

\* Going to a place where nothing is due.
LEMMA DueEnds ==
    ASSUME SInv, NEW r \in Requests, DueOK(r), Handle(r), ~OwnTimeout(r),
           Running(r), job'[r].at \notin BeforeFunding \cup {"mint_to"}
    PROVE  DueStep(r)
<1>1. job'[r].late = job[r].late /\ job'[r].kind = job[r].kind
  BY LateKept
<1>2. job[r].late = "none"
  BY DEF DueOK, Running
<1>3. QED BY <1>1, <1>2 DEF DueStep

LEMMA DueHandled ==
    ASSUME SInv, NEW r \in Requests, DueOK(r), Handle(r)
    PROVE  DueStep(r) /\ \E j \in Job : job' = [job EXCEPT ![r] = j]
<1>0. /\ job[r] \in Job /\ job \in [Requests -> Job]
      /\ \A j \in Job : job' = [job EXCEPT ![r] = j] => job'[r] = j
  BY Places
<1>1. Running(r)
  BY DEF Handle, CheckMint, Ensure, Fund, Check, Preview, OwnConfirm, OwnFail, OwnTimeout,
         LibBegin, LibAwait, Log, View, ReadFails, At, Running, Reads, OwnTxs, LibOps, Ended
<1>2. \E j \in Job : job' = [job EXCEPT ![r] = j]
  BY AsideSteps, ReadingSteps, SendingSteps DEF Handle
<1>3. CASE OwnTimeout(r)
  <2>1. /\ job[r].at \in OwnTxs
        /\ job' = [job EXCEPT ![r].late = job[r].at, ![r].at = "err"]
    BY <1>3 DEF OwnTimeout
  <2>2. /\ job'[r].late = job[r].at /\ job'[r].at = "err"
        /\ job'[r].kind = job[r].kind /\ job'[r].extra = job[r].extra
    BY <1>0, <2>1 DEF Job
  <2>3. QED BY <1>2, <2>1, <2>2 DEF DueStep, OwnTxs, Ended, BeforeFunding
<1>4. ASSUME ~OwnTimeout(r)
      PROVE  DueStep(r)
  <2>1. /\ job'[r].late = job[r].late /\ job'[r].kind = job[r].kind
        /\ job[r].late = "none"
    BY <1>1, <1>4, LateKept DEF DueOK, Running
  <2>2. ASSUME job[r].at \in BeforeFunding, job'[r].at # "mint_to"
        PROVE  DueStep(r)
    BY <2>1, <2>2 DEF DueStep
  <2>3. ASSUME job'[r].at \notin BeforeFunding \cup {"mint_to"}
        PROVE  DueStep(r)
    BY <1>1, <1>4, <2>3, DueEnds
  <2>4. CASE CheckMint(r) \/ Ensure(r)
    <3>1. job[r].at \in {"mint", "ensure"} /\ JobStep(r)
      BY <2>4, AsideSteps, ReadingSteps DEF CheckMint, Ensure, At
    <3>2. job'[r].at # "mint_to"
      BY <3>1 DEF JobStep, Kept, From
    <3>3. QED BY <2>2, <3>1, <3>2 DEF BeforeFunding
  <2>5. CASE Fund(r)
    <3> DEFINE public == acct[SenderWallet].public
               extra  == Missing(Needed, public)
    <3>1. /\ job[r].at = "fund" /\ job[r].kind = "init" /\ Needed \in Int /\ Target \in Nat
          /\ public \in Nat /\ Needed <= Target
      <4>1. acct[SenderWallet].decryptable_available \in Nat /\ public \in Nat
        BY Amounts, WalletFacts DEF SInv
      <4>2. QED BY <2>5, <4>1, FundFacts, ServerAssumption DEF Needed
    <3>2. extra <= Target
      BY <3>1 DEF Missing
    <3>3. PICK j \in Job :
            /\ job' = [job EXCEPT ![r] = j]
            /\ \/ j.at = "view_sender"
               \/ /\ j.extra = extra
                  /\ j.at \in {"mint_to", "deposit"}
      BY <2>5, FundFacts
    <3> HIDE DEF public, extra
    <3>4. \/ job'[r].at = "view_sender" \/ job'[r].at = "deposit"
          \/ job'[r].at = "mint_to" /\ job'[r].extra = extra
      BY <1>0, <3>3
    <3>5. CASE job'[r].at = "mint_to" /\ job'[r].extra = extra
      BY <2>1, <3>1, <3>2, <3>5 DEF DueStep
    <3>6. QED BY <2>3, <3>4, <3>5 DEF BeforeFunding
  <2>6. CASE Check(r) \/ Preview(r) \/ Log(r) \/ View(r)
    <3>1. job'[r].at \in {"transfer", "preview", "err", "apply", "view_sender",
                          "view_receiver", "ok"}
      <4>1. CASE Check(r)
        BY <1>0, <4>1, Places DEF Check, Goto, At, PlaceOK, Job
      <4>2. CASE Preview(r)
        BY <1>0, <4>2 DEF Preview, Job
      <4>3. CASE Log(r)
        BY <1>0, <4>3 DEF Log, Job
      <4>4. CASE View(r)
        BY <1>0, <4>4, ViewFacts
      <4>5. QED BY <2>6, <4>1, <4>2, <4>3, <4>4
    <3>2. QED BY <2>3, <3>1 DEF BeforeFunding
  <2>7. CASE ReadFails(r) \/ OwnFail(r)
    <3>1. job'[r].at = "err"
      BY <1>0, <2>7 DEF ReadFails, OwnFail, Goto, Job
    <3>2. QED BY <2>3, <3>1 DEF BeforeFunding
  <2>8. CASE OwnConfirm(r)
    <3>1. \/ job[r].at = "create_mint" /\ job'[r].at = "ensure"
          \/ job[r].at = "create_ata" /\ job'[r].at = "configure"
          \/ job[r].at = "mint_to" /\ job'[r].at = "deposit"
      BY <1>0, <2>8, OwnConfirmFacts
    <3>2. QED BY <2>2, <2>3, <3>1 DEF BeforeFunding
  <2>9. CASE LibBegin(r)
    <3>1. job[r].at \in LibOps /\ (job'[r].at = "err" \/ job'[r].at = job[r].at)
      BY <1>0, <2>9, LibBeginFacts DEF LibBegin
    <3>2. QED BY <2>2, <2>3, <3>1 DEF BeforeFunding, LibOps
  <2>10. CASE LibAwait(r)
    <3>1. \/ job'[r] = job[r]
          \/ job[r].at = "configure" /\ job'[r].at \in {"ensure", "fund"}
          \/ job'[r].at \in {"err", "apply", "log"}
      BY <1>0, <2>10, LibAwaitFacts
    <3>2. QED BY <2>2, <2>3, <3>1 DEF BeforeFunding, DueStep
  <2>11. QED BY <1>4, <2>4, <2>5, <2>6, <2>7, <2>8, <2>9, <2>10 DEF Handle
<1>5. QED BY <1>2, <1>3, <1>4

\* A step makes no tokens, or it is a mint on behalf of one request, which has
\* nothing due after it.
Mints(r) ==
    /\ Minting(r)
    /\ Supply' = Supply + job[r].extra
    /\ job'[r].at \notin BeforeFunding \cup {"mint_to"}
    /\ job'[r].late # "mint_to"

LEMMA OwnTxSupply ==
    ASSUME SInv, NEW j \in Job, NEW tx, OwnTx(j, tx)
    PROVE  Supply' = IF tx = "mint_to" THEN Supply + j.extra ELSE Supply
<1>1. Worth(SenderWallet) \in Nat /\ Worth(ReceiverWallet) \in Nat /\ j.extra \in Nat
  BY WorthType DEF Job
<1>2. CASE tx = "mint_to"
  <2>1. MintTo(j.extra)
    BY <1>2 DEF OwnTx
  <2>2. /\ Worth(SenderWallet)' = Worth(SenderWallet) + j.extra
        /\ Worth(ReceiverWallet)' = Worth(ReceiverWallet)
    BY <1>1, <2>1, MintFlow
  <2>3. QED BY <1>1, <1>2, <2>2 DEF Supply
<1>3. CASE tx # "mint_to"
  <2>1. acct' = acct
    BY <1>3 DEF OwnTx, CreateMint, CreateAta
  <2>2. QED BY <1>3, <2>1 DEF Supply, Worth
<1>4. QED BY <1>2, <1>3

LEMMA SupplySteps ==
    ASSUME SInv, [ServerNext]_allVars, \A r \in Requests : DueOK(r)
    PROVE  Supply' = Supply \/ \E r \in Requests : Mints(r)
<1>1. acct' = acct => Supply' = Supply
  BY DEF Supply, Worth
<1>2. ASSUME NEW c \in Calls,
             Confirm(c) \/ Fail(c) \/ Timeout(c) \/ LandLate(c) \/ Expire(c)
      PROVE  Supply' = Supply
  <2>1. CASE Confirm(c) \/ LandLate(c)
    <3>1. call[c] # NoRequest /\ (Quiet \/ MoveOf(c))
      BY <2>1, LandingMoves
    <3>2. QED BY <1>1, <3>1, MoveFlow DEF Quiet, Supply
  <2>2. CASE Fail(c) \/ Timeout(c) \/ Expire(c)
    BY <1>1, <2>2 DEF Fail, Timeout, Expire
  <2>3. QED BY <1>2, <2>1, <2>2
<1>3. ASSUME NEW r \in Requests, OwnConfirm(r)
      PROVE  Supply' = Supply \/ Mints(r)
  <2>1. /\ job[r].at \in OwnTxs /\ OwnTx(job[r], job[r].at) /\ job[r] \in Job
        /\ job[r].late = "none"
    BY <1>3, Places DEF OwnConfirm, DueOK, OwnTxs, Ended
  <2>2. job'[r].late = "none"
    <3>1. Advanced(job[r]) = [job[r] EXCEPT !.at = After[job[r].at]]
      BY <2>1 DEF Advanced, OwnTxs
    <3>2. QED BY <1>3, <2>1, <3>1, Places DEF OwnConfirm, Job
  <2>3. job[r].at = "mint_to" => job'[r].at = "deposit"
    BY <1>3, OwnConfirmFacts, Places
  <2>4. QED BY <2>1, <2>2, <2>3, OwnTxSupply DEF Mints, Minting, BeforeFunding
<1>4. ASSUME NEW r \in Requests, OwnLandLate(r)
      PROVE  Supply' = Supply \/ Mints(r)
  <2>1. /\ job[r].late # "none" /\ OwnTx(job[r], job[r].late) /\ job[r] \in Job
        /\ job' = [job EXCEPT ![r].late = "none"]
        /\ job[r].at \in Ended
    BY <1>4, Places DEF OwnLandLate, DueOK
  <2>2. job'[r].late = "none" /\ job'[r].at = job[r].at
    BY <2>1, Places DEF Job
  <2>3. QED BY <2>1, <2>2, OwnTxSupply DEF Mints, Minting, BeforeFunding, Ended
<1>5. ASSUME NEW r \in Requests, Handle(r)
      PROVE  Supply' = Supply \/ Mints(r)
  <2>1. CASE LibAwait(r)
    BY <1>2, <2>1, LibAwaitFacts
  <2>2. CASE LibBegin(r)
    BY <1>1, <2>2, LibBeginFacts
  <2>3. CASE \/ CheckMint(r) \/ Ensure(r) \/ Fund(r) \/ Check(r) \/ Preview(r)
             \/ OwnFail(r) \/ OwnTimeout(r) \/ Log(r) \/ View(r) \/ ReadFails(r)
    BY <1>1, <2>3 DEF CheckMint, Ensure, Fund, Check, Preview, OwnFail, OwnTimeout, Log,
                      View, ReadFails, vars
  <2>4. QED BY <1>3, <1>5, <2>1, <2>2, <2>3 DEF Handle
<1>6. ASSUME NEW c \in Calls, LibSettle(c) PROVE Supply' = Supply
  BY <1>2, <1>6 DEF LibSettle
<1>7. ASSUME \/ \E r \in Requests : OwnExpire(r) \/ \E b \in Bodies : Receive(r, b)
             \/ Restart \/ UNCHANGED allVars
      PROVE  Supply' = Supply
  BY <1>1, <1>7 DEF OwnExpire, Receive, Restart, vars, allVars
<1>8. QED BY <1>4, <1>5, <1>6, <1>7 DEF ServerNext

\* Where no request is received, all jobs make due steps.
LEMMA DueSteps ==
    ASSUME SInv, [ServerNext]_allVars, \A r \in Requests : DueOK(r),
           ~\E r \in Requests, b \in Bodies : Receive(r, b),
           NEW q \in Requests
    PROVE  DueStep(q)
<1>1. job'[q] = job[q] => DueStep(q)
  BY DEF DueStep
<1>2. job \in [Requests -> Job] /\ job[q] \in Job
  BY Places
<1>3. CASE \E r \in Requests : Handle(r)
  <2>1. PICK r \in Requests : Handle(r)
    BY <1>3
  <2>2. DueStep(r) /\ \E j \in Job : job' = [job EXCEPT ![r] = j]
    BY <2>1, DueHandled
  <2>3. q # r => job'[q] = job[q]
    BY <1>2, <2>2
  <2>4. QED BY <1>1, <2>2, <2>3
<1>4. CASE \E r \in Requests : OwnLandLate(r) \/ OwnExpire(r)
  <2>1. PICK r \in Requests : /\ job[r].late # "none"
                              /\ job' = [job EXCEPT ![r].late = "none"]
    BY <1>4 DEF OwnLandLate, OwnExpire
  <2>2. CASE q = r
    <3>1. job'[q].late = "none" /\ job'[q].at = job[q].at /\ job'[q].kind = job[q].kind
      BY <1>2, <2>1, <2>2 DEF Job
    <3>2. job[q].at \in Ended
      BY <2>1, <2>2 DEF DueOK
    <3>3. QED BY <3>1, <3>2 DEF DueStep, Ended, BeforeFunding
  <2>3. CASE q # r
    BY <1>1, <1>2, <2>1, <2>3
  <2>4. QED BY <2>2, <2>3
<1>5. CASE Restart
  <2>1. PICK sent \in SUBSET Requests :
          job' = [r \in Requests |->
               IF Running(r)
               THEN [job[r] EXCEPT !.at = "lost",
                                   !.late = IF r \in sent /\ job[r].at \in OwnTxs
                                            THEN job[r].at ELSE @]
               ELSE job[r]]
    BY <1>5 DEF Restart
  <2>2. CASE Running(q)
    <3>1. /\ job'[q].at = "lost" /\ job'[q].kind = job[q].kind
          /\ job'[q].extra = job[q].extra
          /\ \/ job'[q].late = job[q].late
             \/ job[q].at \in OwnTxs /\ job'[q].late = job[q].at
      BY <1>2, <2>1, <2>2 DEF Job
    <3>2. job[q].late = "none"
      BY <2>2 DEF DueOK, Running
    <3>3. QED BY <3>1, <3>2 DEF DueStep, Ended, BeforeFunding, OwnTxs
  <2>3. CASE ~Running(q)
    BY <1>1, <2>1, <2>3
  <2>4. QED BY <2>2, <2>3
<1>6. CASE UNCHANGED allVars \/ \E c \in Calls : LibSettle(c)
  BY <1>1, <1>6 DEF allVars, LibSettle, serverVars
<1>7. QED BY <1>3, <1>4, <1>5, <1>6 DEF ServerNext

\* A request that is received has its target due if it is an init.
LEMMA ReceiveDue ==
    ASSUME SInv, SInv', NEW r \in Requests, NEW b \in Bodies, Receive(r, b), DueOK(r)
    PROVE  /\ DueOK(r)' /\ r \notin Inits /\ Due(r)' <= Target
           /\ \A q \in Requests : q # r => job'[q] = job[q]
<1>1. job[r].at = "idle" /\ job[r].kind = "none"
  BY Places DEF Receive, At, PlaceOK
<1>2. job' = [job EXCEPT ![r] = [NoJob EXCEPT !.kind = b.kind, !.wallet = b.wallet,
                                             !.amount = b.amount, !.at = Entry[b.kind]]]
  BY DEF Receive
<1>3. b.kind \in {"init", "transfer", "apply", "state"}
  BY ServerAssumption DEF Body
<1>4. job'[r].late = "none" /\ job'[r].at \in {"mint", "check", "view_sender"}
  BY <1>2, <1>3, Places DEF NoJob, Entry
<1>5. Target \in Nat
  BY ServerAssumption
<1>6. QED BY <1>1, <1>2, <1>4, <1>5, Places DEF DueOK, Due, Minting, Inits

LEMMA StartSupplyType == StartSupply \in Nat
BY StartAssumption, WalletFacts DEF StartSupply

LEMMA SumFacts ==
    ASSUME DueInv
    PROVE  /\ \A q \in Requests : Dues[q] \in Nat /\ Dues[q] = Due(q)
           /\ SumFunctionOnSet(Dues, Inits) \in Int
           /\ Supply \in Nat /\ StartSupply \in Nat /\ Target \in Nat
           /\ Cardinality(Inits) \in Nat
<1>1. \A q \in Requests : Dues[q] \in Nat /\ Dues[q] = Due(q)
  BY DueType DEF DueInv
<1>2. SumFunctionOnSet(Dues, Inits) \in Int
  <2>1. \A q \in Inits : Dues[q] \in Int
    BY <1>1 DEF Inits
  <2>2. QED BY <2>1, SumInt DEF DueInv
<1>3. Supply \in Nat /\ StartSupply \in Nat /\ Target \in Nat
  BY WorthType, StartSupplyType, ServerAssumption DEF DueInv, Supply
<1>4. Cardinality(Inits) \in Nat
  BY FS_CardinalityType DEF DueInv
<1>5. QED BY <1>1, <1>2, <1>3, <1>4

\* A step that receives no request.
LEMMA DueStepKeeps ==
    ASSUME DueInv, SInv', Supply' \in Nat, \A q \in Requests : DueStep(q),
           Supply' = Supply \/ \E r \in Requests : Mints(r)
    PROVE  DueInv'
<1>1. \A q \in Requests : DueOK(q)' /\ Due(q)' <= Due(q) /\ Due(q)' \in Nat
  <2>1. \A q \in Requests : DueOK(q)' /\ Due(q)' <= Due(q)
    BY DueFalls DEF DueInv
  <2>2. \A q \in Requests : job'[q].extra \in Nat /\ Target \in Nat
    BY ServerAssumption DEF SInv, ServerTypeOK, Job
  <2>3. QED BY <2>1, <2>2 DEF Due
<1>2. Inits' = Inits /\ IsFiniteSet(Inits) /\ Inits \subseteq Requests
  BY DEF DueStep, Inits, DueInv
<1>3. \A q \in Requests : Dues'[q] = Due(q)'
  BY DEF Dues
<1>4. /\ SumFunctionOnSet(Dues, Inits) \in Int /\ SumFunctionOnSet(Dues', Inits) \in Int
      /\ \A q \in Inits : Dues[q] \in Int /\ Dues'[q] \in Int /\ Dues'[q] <= Dues[q]
  <2>1. \A q \in Inits : Dues[q] \in Int /\ Dues'[q] \in Int /\ Dues'[q] <= Dues[q]
    BY <1>1, <1>2, <1>3, SumFacts
  <2>2. QED BY <1>2, <2>1, SumInt
<1>5. Supply' + SumFunctionOnSet(Dues', Inits) <= Supply + SumFunctionOnSet(Dues, Inits)
  <2>1. CASE Supply' = Supply
    <3>1. SumFunctionOnSet(Dues', Inits) <= SumFunctionOnSet(Dues, Inits)
      BY <1>2, <1>4, SumMonotone
    <3>2. QED BY <1>4, <2>1, <3>1, SumFacts
  <2>2. CASE \E r \in Requests : Mints(r)
    <3>1. PICK r \in Requests : Mints(r)
      BY <2>2
    <3> DEFINE rest == Inits \ {r}
    <3>2. r \in Inits /\ Due(r) = job[r].extra /\ Due(r)' = 0 /\ Due(r) \in Nat
      <4>1. r \in Inits /\ Due(r) = job[r].extra
        BY <3>1 DEF Mints, DueInv, DueOK, Due, Inits
      <4>2. ~Minting(r)' /\ job'[r].at \notin BeforeFunding
        BY <3>1 DEF Mints, Minting
      <4>3. QED BY <4>1, <4>2, SumFacts DEF Due
    <3>3. Dues[r] = Due(r) /\ Dues'[r] = 0
      BY <1>3, <3>1, <3>2, SumFacts
    <3>4. /\ SumFunctionOnSet(Dues, Inits) = Dues[r] + SumFunctionOnSet(Dues, rest)
          /\ SumFunctionOnSet(Dues', Inits) = Dues'[r] + SumFunctionOnSet(Dues', rest)
      BY <1>2, <1>4, <3>2, SumRemove
    <3>5. IsFiniteSet(rest) /\ rest \subseteq Inits
      BY <1>2, FS_RemoveElement
    <3> HIDE DEF rest
    <3>6. /\ SumFunctionOnSet(Dues', rest) <= SumFunctionOnSet(Dues, rest)
          /\ SumFunctionOnSet(Dues', rest) \in Int /\ SumFunctionOnSet(Dues, rest) \in Int
      BY <1>4, <3>5, SumMonotone, SumInt
    <3>7. Supply' = Supply + Due(r)
      BY <3>1, <3>2 DEF Mints
    <3>8. QED BY <3>2, <3>3, <3>4, <3>6, <3>7, SumFacts
  <2>3. QED BY <2>1, <2>2
<1>6. Supply + SumFunctionOnSet(Dues, Inits) <= StartSupply + Target * Cardinality(Inits)
  BY DEF DueInv
<1>7. StartSupply + Target * Cardinality(Inits) \in Int
  BY SumFacts
<1>8. Supply' + SumFunctionOnSet(Dues', Inits) <= StartSupply + Target * Cardinality(Inits)
  BY <1>4, <1>5, <1>6, <1>7, SumFacts
<1>9. QED BY <1>1, <1>2, <1>8 DEF DueInv, StartSupply

\* The reception of a request.
LEMMA ReceiveKeepsDue ==
    ASSUME DueInv, SInv', NEW r \in Requests, NEW b \in Bodies, Receive(r, b)
    PROVE  DueInv'
<1>1. /\ DueOK(r)' /\ r \notin Inits /\ Due(r)' <= Target
      /\ \A q \in Requests : q # r => job'[q] = job[q]
  BY ReceiveDue DEF DueInv
<1>2. Supply' = Supply
  BY DEF Receive, vars, Supply, Worth
<1>3. /\ \A q \in Requests : DueOK(q)'
      /\ \A q \in Requests : q # r => Dues'[q] = Dues[q]
      /\ Dues'[r] = Due(r)' /\ Due(r)' \in Nat
  <2>1. job'[r].extra \in Nat /\ Target \in Nat
    BY ServerAssumption DEF SInv, ServerTypeOK, Job
  <2>2. QED BY <1>1, <2>1 DEF DueInv, DueOK, Dues, Due, Minting
<1>4. Inits' = Inits \/ Inits' = Inits \cup {r}
  BY <1>1 DEF Inits
<1>5. \A q \in Inits : q \in Requests /\ q # r /\ Dues[q] \in Int /\ Dues'[q] = Dues[q]
  BY <1>1, <1>3, SumFacts DEF Inits
<1>6. SumFunctionOnSet(Dues', Inits) = SumFunctionOnSet(Dues, Inits)
  BY <1>5, SumSame DEF DueInv
<1>7. Supply + SumFunctionOnSet(Dues, Inits) <= StartSupply + Target * Cardinality(Inits)
  BY DEF DueInv
<1>8. CASE Inits' = Inits
  BY <1>2, <1>3, <1>6, <1>7, <1>8 DEF DueInv, StartSupply
<1>9. CASE Inits' = Inits \cup {r}
  <2>1. /\ IsFiniteSet(Inits \cup {r})
        /\ Cardinality(Inits \cup {r}) = Cardinality(Inits) + 1
    BY <1>1, FS_AddElement DEF DueInv
  <2>2. SumFunctionOnSet(Dues', Inits \cup {r}) = Dues'[r] + SumFunctionOnSet(Dues', Inits)
    <3>1. \A q \in Inits \cup {r} : Dues'[q] \in Int
      BY <1>3, <1>5
    <3>2. QED BY <1>1, <3>1, SumAdd DEF DueInv
  <2>3. Target * (Cardinality(Inits) + 1) = Target * Cardinality(Inits) + Target
    BY SumFacts
  <2>4. Target * Cardinality(Inits) \in Int
    BY SumFacts
  <2>5. Supply' + SumFunctionOnSet(Dues', Inits \cup {r})
            <= StartSupply + Target * (Cardinality(Inits) + 1)
    <3>1. Dues'[r] \in Nat /\ Dues'[r] <= Target
      BY <1>1, <1>3
    <3>2. SumFunctionOnSet(Dues', Inits \cup {r}) = Dues'[r] + SumFunctionOnSet(Dues, Inits)
      BY <1>6, <2>2
    <3>3. QED BY <1>2, <1>7, <2>3, <2>4, <3>1, <3>2, SumFacts
  <2>6. QED BY <1>3, <1>9, <2>1, <2>5 DEF DueInv, StartSupply
<1>10. QED BY <1>4, <1>8, <1>9

\* At the start a wallet has its public and its available balance.
LEMMA StartedWorth ==
    ASSUME Init, NEW w \in Wallets
    PROVE  Worth(w) = StartPublic[w] + StartAvailable[w]
<1>1. acct[w] = StartAccount(w)
  BY DEF Init
<1>2. /\ acct[w].public = StartPublic[w] /\ acct[w].available = StartAvailable[w]
      /\ acct[w].pending_lo = 0 /\ acct[w].pending_hi = 0
  BY <1>1 DEF StartAccount, Unconfigured
<1>3. Pending(acct[w]) = 0
  BY <1>2, LimitsAssumption DEF Pending
<1>4. StartPublic[w] \in Nat /\ StartAvailable[w] \in Nat
  BY StartAssumption
<1>5. QED BY <1>2, <1>3, <1>4 DEF Worth

LEMMA InitDueInv == ASSUME ServerInit PROVE DueInv
<1>1. SInv
  BY InitSInv
<1>2. \A r \in Requests : job[r].kind = "none" /\ job[r].at = "idle" /\ job[r].late = "none"
  BY DEF ServerInit, NoJob
<1>3. Inits = {} /\ \A r \in Requests : DueOK(r)
  BY <1>2 DEF Inits, DueOK, Minting
<1>4. IsFiniteSet(Inits) /\ Cardinality(Inits) = 0 /\ SumFunctionOnSet(Dues, Inits) = 0
  BY <1>3, FS_EmptySet, SumEmpty
<1>5. Worth(SenderWallet) = StartPublic[SenderWallet] + StartAvailable[SenderWallet]
      /\ Worth(ReceiverWallet) = StartPublic[ReceiverWallet] + StartAvailable[ReceiverWallet]
  BY StartedWorth, WalletFacts DEF ServerInit
<1>6. Supply = StartSupply
  BY <1>5, WalletFacts, StartAssumption DEF Supply, StartSupply
<1>7. StartSupply \in Nat /\ Target \in Nat
  BY StartSupplyType, ServerAssumption
<1>8. Supply + SumFunctionOnSet(Dues, Inits) <= StartSupply + Target * Cardinality(Inits)
  BY <1>4, <1>6, <1>7
<1>9. QED BY <1>1, <1>3, <1>4, <1>8 DEF DueInv

LEMMA NextKeepsDueInv == DueInv /\ SInv' /\ [ServerNext]_allVars => DueInv'
<1>1. SUFFICES ASSUME DueInv, SInv', [ServerNext]_allVars PROVE DueInv'
  OBVIOUS
<1>2. SInv /\ \A r \in Requests : DueOK(r)
  BY <1>1 DEF DueInv
<1>3. CASE \E r \in Requests, b \in Bodies : Receive(r, b)
  BY <1>1, <1>3, ReceiveKeepsDue
<1>4. CASE ~\E r \in Requests, b \in Bodies : Receive(r, b)
  <2>1. \A q \in Requests : DueStep(q)
    BY <1>1, <1>2, <1>4, DueSteps
  <2>2. Supply' = Supply \/ \E r \in Requests : Mints(r)
    BY <1>1, <1>2, SupplySteps
  <2>3. Supply' \in Nat
    <3>1. Supply \in Nat
      BY <1>1, SumFacts
    <3>2. \A r \in Requests : job[r].extra \in Nat
      BY <1>2, Places
    <3>3. QED BY <2>2, <3>1, <3>2 DEF Mints
  <2>4. QED BY <1>1, <2>1, <2>2, <2>3, DueStepKeeps
<1>5. QED BY <1>3, <1>4

THEOREM DueInvariant == ServerSpec => []DueInv
<1>1. QED BY InitDueInv, NextKeepsDueInv, ServerInvariant, PTL DEF ServerSpec

\* Whatever is interleaved, fails, lands late or is lost with the process, the
\* tokens never exceed those of the start and one target for every init received:
\* no init mints twice, and nothing but init makes tokens.
THEOREM InitsMintOnce == ServerSpec => []InitMintsOnce
<1>1. ASSUME DueInv PROVE InitMintsOnce
  <2>1. SumFunctionOnSet(Dues, Inits) >= 0
    <3>1. \A q \in Inits : Dues[q] \in Nat
      BY <1>1, SumFacts DEF Inits
    <3>2. SumFunctionOnSet(Dues, Inits) \in Nat
      BY <1>1, <3>1, SumNat DEF DueInv
    <3>3. QED BY <3>2
  <2>2. Supply <= StartSupply + Target * Cardinality(Inits)
    <3>1. Target * Cardinality(Inits) \in Int
      BY <1>1, SumFacts
    <3>2. QED BY <1>1, <2>1, <3>1, SumFacts DEF DueInv
  <2>3. QED BY <2>2 DEF InitMintsOnce, Supply, Inits
<1>2. QED BY <1>1, DueInvariant, PTL

-----------------------------------------------------------------------------
\* The action properties of the library, of a program that mints and restarts.

LEMMA ServerMoves == ServerSpec => OnlyMoves
<1>1. ASSUME SInv, SInv', [ServerNext]_allVars PROVE Step
  <2>1. CASE Quiet
    BY <1>1, <2>1 DEF Quiet, Still, Step, SInv
  <2>2. CASE \E amount \in Nat : MintTo(amount) /\ landed' = landed
    <3>1. PICK amount \in Nat : MintTo(amount) /\ landed' = landed
      BY <2>2
    <3> DEFINE b == [acct[SenderWallet] EXCEPT !.public = @ + amount]
    <3>2. acct' = [acct EXCEPT ![SenderWallet] = b]
      BY <3>1 DEF MintTo
    <3>3. acct \in [Wallets -> Account(Calls)] /\ acct[SenderWallet] \in Account(Calls)
      BY <1>1, WalletFacts DEF SInv, IInv, AcctOK
    <3>4. /\ b.available = acct[SenderWallet].available
          /\ b.decryptable_available = acct[SenderWallet].decryptable_available
          /\ b.pending_hi = acct[SenderWallet].pending_hi
      BY <3>3 DEF Account
    <3> HIDE DEF b
    <3>5. Still
      BY <3>1, <3>2, <3>3, <3>4, WalletFacts DEF Still
    <3>6. QED BY <1>1, <3>5 DEF Step, SInv
  <2>3. CASE \E c \in Calls : MoveOf(c)
    BY <1>1, <2>3 DEF Step, SInv
  <2>4. QED BY <1>1, <2>1, <2>2, <2>3, AccountSteps
<1>2. SInv /\ SInv' /\ [ServerNext]_allVars => [Step]_vars
  BY <1>1
<1>3. QED BY <1>2, ServerInvariant, PTL DEF ServerSpec, OnlyMoves

\* Two handlers cannot spend the same tokens, even across a restart that leaves
\* the transfer of one of them in flight, and whatever is minted meanwhile.
THEOREM ServerNoDoubleSpending == ServerSpec => DebitsUseTheirRead
BY ServerMoves, DebitsOfMoves, PTL

\* The decryptable balance, which Fund compares with the target and the answers
\* show, only goes wrong by an apply that was overtaken: by another request's,
\* or by one that a stopped process has left in flight.
THEOREM ServerOnlyOvertakenAppliesDesync == ServerSpec => OnlyOvertakenApplyDesyncs
BY ServerMoves, DesyncOfMoves, PTL

\* An account that no apply and no transfer can read any more stays so across
\* restarts, but for calls that read it before.
THEOREM ServerWedgedAccountsStay == ServerSpec => WedgedStays
BY ServerMoves, WedgedOfMoves, PTL

\* A high half of the pending balance that the apply handler cannot decrypt is
\* only ever brought down by an apply that read the account before.
THEOREM ServerPendingHiStaysStuck == ServerSpec => PendingHiStuck
BY ServerMoves, PendingHiOfMoves, PTL

-----------------------------------------------------------------------------
\* What the server makes of the ledger.

\* A transaction of the server's own issues what its init has found missing, or
\* is nothing to the ledger.
LEMMA OwnTxLedger ==
    ASSUME SInv, NEW r \in Requests, DueOK(r), NEW tx, OwnTx(job[r], tx),
           tx = "mint_to" => Minting(r)
    PROVE  Issue(r) \/ UNCHANGED Ledger!ledgerVars
<1>1. job[r] \in Job
  BY Places
<1>2. landed' = landed /\ call' = call /\ status' = status
  BY DEF OwnTx, clientVars
<1>3. CASE tx # "mint_to"
  <2>1. acct' = acct
    BY <1>3 DEF OwnTx, CreateMint, CreateAta
  <2>2. QED BY <1>2, <2>1, QuietLedger
<1>4. CASE tx = "mint_to"
  <2> DEFINE n == job[r].extra
             a == acct[SenderWallet]
             b == [a EXCEPT !.public = @ + n]
  <2>1. job[r].kind = "init" /\ n \in Nat
    BY <1>1, <1>4 DEF DueOK, Job
  <2>2. acct' = [acct EXCEPT ![SenderWallet] = b]
    BY <1>4 DEF OwnTx, MintTo
  <2>3. acct \in [Wallets -> Account(Calls)] /\ a \in Account(Calls)
    BY WalletFacts DEF SInv, IInv, AcctOK
  <2>4. /\ b.public = a.public + n /\ b.available = a.available
        /\ Pending(b) = Pending(a)
    BY <2>3 DEF Account, Pending
  <2> HIDE DEF b, n
  <2>5. acct'[SenderWallet] = b /\ \A w \in Wallets : w # SenderWallet => acct'[w] = acct[w]
    BY <2>2, <2>3, WalletFacts
  <2>6. \A w \in Wallets : acct'[w].available = acct[w].available
                           /\ Pending(acct'[w]) = Pending(acct[w])
    BY <2>4, <2>5
  <2>7. AvailableBalances' = AvailableBalances
    BY <2>6 DEF AvailableBalances
  <2>8. PendingBalances' = PendingBalances
    BY <2>6 DEF PendingBalances, Pending
  <2>9. PublicBalances' = [PublicBalances EXCEPT ![SenderWallet] = @ + n]
    BY <2>4, <2>5, WalletFacts DEF PublicBalances
  <2>10. Answers' = Answers
    BY <1>2 DEF Answers
  <2>11. QED BY <1>2, <2>1, <2>7, <2>8, <2>9, <2>10 DEF Issue, n
<1>5. QED BY <1>3, <1>4

LEMMA RestartLedger ==
    ASSUME SInv, Restart
    PROVE  Abandon
<1>1. /\ status' = [c \in Calls |-> IF status[c] = "running" THEN "err" ELSE status[c]]
      /\ acct' = acct /\ call' = call /\ landed' = landed
  BY DEF Restart
<1>2. UNCHANGED <<PublicBalances, PendingBalances, AvailableBalances, call, landed>>
  BY <1>1 DEF PublicBalances, PendingBalances, AvailableBalances
<1>3. ASSUME NEW c \in Calls, Answers'[c] # Answers[c]
      PROVE  call[c] # NoRequest /\ Answers[c] = "none" /\ Answers'[c] = "err"
  <2>1. status[c] = "running"
    BY <1>1, <1>3 DEF Answers
  <2>2. Answers[c] = "none" /\ Answers'[c] = "err"
    BY <1>1, <2>1 DEF Answers
  <2>3. call[c].op \in Ops
    BY <2>1, ActiveCall DEF Active, SInv
  <2>4. QED BY <2>2, <2>3 DEF NoRequest, Ops
<1>4. QED BY <1>2, <1>3 DEF Abandon

LEMMA HandleLedger ==
    ASSUME SInv, NEW r \in Requests, DueOK(r), Handle(r)
    PROVE  LedgerStep \/ Issue(r) \/ UNCHANGED Ledger!ledgerVars
<1>1. CASE OwnConfirm(r)
  <2>1. OwnTx(job[r], job[r].at)
    BY <1>1 DEF OwnConfirm
  <2>2. QED BY <2>1, OwnTxLedger DEF Minting
<1>2. CASE LibBegin(r)
  <2> DEFINE c == <<r, job[r].lib + 1>>
  <2>1. c \in Calls /\ Invoke(c, LibRequest(job[r])) /\ call'[c] = LibRequest(job[r])
    BY <1>2, LibBeginFacts
  <2> HIDE DEF c
  <2>2. Ledger!Ask(c, LibRequest(job[r]))
    BY <2>1, InvokeLedger DEF SInv
  <2>3. Ledger!Ask(c, call'[c])
    BY <2>1, <2>2
  <2>4. QED BY <2>1, <2>3 DEF LedgerStep
<1>3. CASE LibAwait(r)
  <2> DEFINE c == Latest(r)
  <2>1. c \in Calls /\ (Confirm(c) \/ Fail(c) \/ Timeout(c))
    BY <1>3, LibAwaitFacts
  <2> HIDE DEF c
  <2>2. Ledger!Settle(c) \/ Ledger!Answer(c) \/ UNCHANGED Ledger!ledgerVars
    BY <2>1, ConfirmLedger, GivingUpLedger DEF SInv
  <2>3. QED BY <2>1, <2>2 DEF LedgerStep
<1>4. CASE \/ CheckMint(r) \/ Ensure(r) \/ Fund(r) \/ Check(r) \/ Preview(r)
           \/ OwnFail(r) \/ OwnTimeout(r) \/ Log(r) \/ View(r) \/ ReadFails(r)
  BY <1>4, QuietLedger DEF CheckMint, Ensure, Fund, Check, Preview, OwnFail, OwnTimeout,
                           Log, View, ReadFails, vars
<1>5. QED BY <1>1, <1>2, <1>3, <1>4 DEF Handle

LEMMA ServerStepLedger ==
    ASSUME DueInv, [ServerNext]_allVars
    PROVE  [LedgerStep \/ (\E r \in Requests : Issue(r)) \/ Abandon]_(Ledger!ledgerVars)
<1>1. SInv /\ \A r \in Requests : DueOK(r)
  BY DEF DueInv
<1>2. ASSUME NEW r \in Requests, OwnLandLate(r)
      PROVE  Issue(r) \/ UNCHANGED Ledger!ledgerVars
  <2>1. OwnTx(job[r], job[r].late)
    BY <1>2 DEF OwnLandLate
  <2>2. QED BY <1>1, <2>1, OwnTxLedger DEF Minting
<1>3. ASSUME NEW c \in Calls, LibSettle(c)
      PROVE  LedgerStep \/ UNCHANGED Ledger!ledgerVars
  <2>1. CASE LandLate(c)
    BY <1>1, <2>1, LandLateLedger DEF LedgerStep, SInv
  <2>2. CASE Expire(c)
    BY <2>2, QuietLedger DEF Expire
  <2>3. QED BY <1>3, <2>1, <2>2 DEF LibSettle
<1>4. ASSUME \/ \E r \in Requests : OwnExpire(r) \/ \E b \in Bodies : Receive(r, b)
             \/ UNCHANGED allVars
      PROVE  UNCHANGED Ledger!ledgerVars
  BY <1>4, QuietLedger DEF OwnExpire, Receive, vars, allVars
<1>5. QED BY <1>1, <1>2, <1>3, <1>4, HandleLedger, RestartLedger DEF ServerNext

\* Whatever requests are interleaved, fail, are lost with the process and land
\* afterwards, the handlers keep the ledger of the library. A balance changes by
\* one call's amount, in full, at most once and never below zero, or by what an
\* init issues.
THEOREM ServerLedger == ServerSpec => KeepsLedger
<1>1. ServerInit => Ledger!LedgerInit
  BY InitLedger DEF ServerInit
<1>2. DueInv /\ [ServerNext]_allVars =>
          [LedgerStep \/ (\E r \in Requests : Issue(r)) \/ Abandon]_(Ledger!ledgerVars)
  BY ServerStepLedger
<1>3. QED BY <1>1, <1>2, DueInvariant, PTL DEF ServerSpec, KeepsLedger
=============================================================================
