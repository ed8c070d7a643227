-------------------------- MODULE BalanceOpsProofs --------------------------
(* BalanceOps for every set of wallets and calls, every menu of requests and  *)
(* all values of the limits. An action property of BalanceOps constrains the  *)
(* step in which a main instruction lands; the inductive invariant keeps, for *)
(* every call that can still land one, what the call checked in its snapshot. *)
EXTENDS BalanceOps, TLAPS

-----------------------------------------------------------------------------
(* The account operators.                                                     *)

\* The low halves of at most MaxCredits credits, added up.
CreditsCounted(a) ==
    /\ a.credit_counter <= MaxCredits
    /\ a.pending_lo <= a.credit_counter * (LoBase - 1)

Sound(a) == a \in Account(Calls) /\ CreditsCounted(a)

LEMMA SplitAmount ==
    ASSUME NEW amount \in Nat
    PROVE  /\ Lo(amount) \in Nat
           /\ Lo(amount) <= LoBase - 1
           /\ Hi(amount) \in Nat
           /\ amount = Lo(amount) + Hi(amount) * LoBase
<1>1. amount % LoBase \in 0..(LoBase - 1)
  BY LimitsAssumption
<1>2. amount \div LoBase \in Nat
  BY LimitsAssumption
<1>3. amount = (amount % LoBase) + (amount \div LoBase) * LoBase
  BY LimitsAssumption
<1>4. QED BY <1>1, <1>2, <1>3, LimitsAssumption DEF Lo, Hi

LEMMA OneMoreCredit ==
    ASSUME NEW lo \in Nat, NEW counter \in Nat, NEW part \in Nat,
           lo <= counter * (LoBase - 1), part <= LoBase - 1
    PROVE  lo + part <= (counter + 1) * (LoBase - 1)
<1> DEFINE k == LoBase - 1
<1>1. k \in Nat
  BY LimitsAssumption
<1>2. lo <= counter * k /\ part <= k
  OBVIOUS
<1> HIDE DEF k
<1>3. lo + part <= (counter + 1) * k
  BY <1>1, <1>2
<1>4. QED BY <1>3 DEF k

LEMMA PendingType ==
    ASSUME NEW a \in Account(Calls)
    PROVE  Pending(a) \in Nat
BY LimitsAssumption DEF Account, Pending

LEMMA ConfigureSound ==
    ASSUME NEW a, Sound(a)
    PROVE  Sound(ConfigureAccount(a))
BY DEF Sound, Account, CreditsCounted, ConfigureAccount

LEMMA CreditSound ==
    ASSUME NEW a, Sound(a), NEW amount \in Nat, NEW rnd \in SUBSET Calls, CanCredit(a)
    PROVE  Sound(Credit(a, amount, rnd))
<1>1. a.pending_lo + Lo(amount) <= (a.credit_counter + 1) * (LoBase - 1)
  BY SplitAmount, OneMoreCredit DEF Sound, Account, CreditsCounted
<1>2. Credit(a, amount, rnd) \in Account(Calls)
  <2>1. Lo(amount) \in Nat /\ Hi(amount) \in Nat
    BY SplitAmount
  <2>2. /\ a.pending_lo + Lo(amount) \in Nat
        /\ a.pending_hi + Hi(amount) \in Nat
        /\ a.credit_counter + 1 \in Nat
    BY <2>1 DEF Sound, Account
  <2>3. QED BY <2>2 DEF Sound, Account, Credit
<1>3. Credit(a, amount, rnd).credit_counter = a.credit_counter + 1
  BY DEF Sound, Account, Credit
<1>4. Credit(a, amount, rnd).pending_lo = a.pending_lo + Lo(amount)
  BY DEF Sound, Account, Credit
<1>5. a.credit_counter + 1 <= MaxCredits
  BY LimitsAssumption DEF CanCredit, Sound, Account
<1>6. QED BY <1>1, <1>2, <1>3, <1>4, <1>5 DEF Sound, CreditsCounted

LEMMA DepositSound ==
    ASSUME NEW a, Sound(a), NEW amount \in Nat, CanDeposit(a, amount)
    PROVE  Sound(Deposit(a, amount))
<1> DEFINE b == Credit(a, amount, {})
<1>1. Sound(b)
  BY CreditSound DEF CanDeposit
<1>2. b.public = a.public /\ a.public - amount \in Nat
  BY DEF Sound, Account, CanDeposit, Credit
<1> HIDE DEF b
<1>3. Sound([b EXCEPT !.public = @ - amount])
  BY <1>1, <1>2 DEF Sound, Account, CreditsCounted
<1>4. QED BY <1>3 DEF Deposit, b

LEMMA ApplySound ==
    ASSUME NEW a, Sound(a), NEW expected \in Nat, NEW decryptable \in Nat
    PROVE  Sound(ApplyPendingBalance(a, expected, decryptable))
<1> DEFINE b == ApplyPendingBalance(a, expected, decryptable)
<1>1. Pending(a) \in Nat
  BY PendingType DEF Sound
<1>2. a.available + Pending(a) \in Nat
  BY <1>1 DEF Sound, Account
<1>3. b \in Account(Calls)
  BY <1>2 DEF Sound, Account, ApplyPendingBalance
<1>4. b.credit_counter = 0 /\ b.pending_lo = 0
  BY DEF Sound, Account, ApplyPendingBalance
<1>5. 0 <= 0 * (LoBase - 1)
  BY LimitsAssumption
<1>6. QED BY <1>3, <1>4, <1>5, LimitsAssumption DEF Sound, CreditsCounted

LEMMA WithdrawSound ==
    ASSUME NEW a, Sound(a), NEW amount \in Nat, NEW decryptable \in Nat, amount <= a.available
    PROVE  Sound(Withdraw(a, amount, decryptable))
<1> DEFINE b == Withdraw(a, amount, decryptable)
<1>1. a.available - amount \in Nat /\ a.public + amount \in Nat
  BY DEF Sound, Account
<1>2. b \in Account(Calls)
  BY <1>1 DEF Sound, Account, Withdraw
<1>3. b.credit_counter = a.credit_counter /\ b.pending_lo = a.pending_lo
  BY DEF Sound, Account, Withdraw
<1>4. QED BY <1>2, <1>3 DEF Sound, CreditsCounted

LEMMA DebitTransferSound ==
    ASSUME NEW a, Sound(a), NEW amount \in Nat, NEW rnd \in SUBSET Calls,
           NEW decryptable \in Nat, amount <= a.available
    PROVE  Sound(DebitTransfer(a, amount, rnd, decryptable))
<1> DEFINE b == DebitTransfer(a, amount, rnd, decryptable)
<1>1. a.available - amount \in Nat
  BY DEF Sound, Account
<1>2. b \in Account(Calls)
  BY <1>1 DEF Sound, Account, DebitTransfer
<1>3. b.credit_counter = a.credit_counter /\ b.pending_lo = a.pending_lo
  BY DEF Sound, Account, DebitTransfer
<1>4. QED BY <1>2, <1>3 DEF Sound, CreditsCounted

-----------------------------------------------------------------------------
(* The scripts.                                                               *)

MainPos(op) == IF op = "withdraw" THEN 3 ELSE IF op = "transfer" THEN 5 ELSE 1

LEMMA ScriptFacts ==
    ASSUME NEW op \in Ops
    PROVE  /\ Len(Script[op]) \in 1..5
           /\ MainPos(op) \in 1..Len(Script[op])
           /\ \A i \in 1..Len(Script[op]) :
                 /\ Script[op][i] \in TxKinds
                 /\ Script[op][i] \in Ops <=> i = MainPos(op)
                 /\ Script[op][i] \in Ops => Script[op][i] = op
<1>1. CASE op = "configure"
  BY <1>1 DEF Script, Ops, TxKinds, MainPos
<1>2. CASE op = "deposit"
  BY <1>2 DEF Script, Ops, TxKinds, MainPos
<1>3. CASE op = "apply"
  BY <1>3 DEF Script, Ops, TxKinds, MainPos
<1>4. CASE op = "withdraw"
  BY <1>4 DEF Script, Ops, TxKinds, MainPos
<1>5. CASE op = "transfer"
  BY <1>5 DEF Script, Ops, TxKinds, MainPos
<1>6. QED BY <1>1, <1>2, <1>3, <1>4, <1>5 DEF Ops

-----------------------------------------------------------------------------
(* The inductive invariant.                                                   *)

AcctOK ==
    /\ acct \in [Wallets -> Account(Calls)]
    /\ \A w \in Wallets : Sound(acct[w])

\* The calls one of whose transactions can still land.
Active(c) == status[c] = "running" \/ flight[c]

\* What Ready has found out about the snapshot.
SnapshotReady(c) ==
    /\ call[c].op = "apply"    => ApplyReady(snap[c])
    /\ call[c].op = "withdraw" => WithdrawReady(snap[c], call[c].amount)
    /\ call[c].op = "transfer" => call[c].amount <= snap[c].decryptable_available

\* A call that has not begun has left no trace.
Untouched(c) ==
    /\ call[c] = NoRequest
    /\ done[c] = 0
    /\ c \notin landed
    /\ \A k \in ContextKinds : <<c, k>> \notin ctx

\* A verified equality proof of a transfer shows that the two forms of the
\* balance it read were equal.
EqualityMeansSynced(c) ==
    <<c, "equality">> \in ctx /\ call[c].op = "transfer" => Synced(snap[c])

\* The main instruction has executed exactly when its signature is collected.
LandedAt(c) == c \in landed <=> done[c] >= MainPos(call[c].op)

CallOK(c) ==
    /\ flight[c] => status[c] = "err"
    /\ status[c] = "idle" => Untouched(c)
    /\ status[c] # "idle" => call[c] \in Request
    /\ Active(c) => done[c] < Len(Script[call[c].op]) /\ SnapshotReady(c) /\ LandedAt(c)
    /\ status[c] = "ok" => c \in landed
    /\ EqualityMeansSynced(c)

IInv ==
    /\ TypeOK
    /\ AcctOK
    /\ \A c \in Calls : CallOK(c)

LEMMA InitIInv == Init => IInv
<1> SUFFICES ASSUME Init PROVE IInv
  OBVIOUS
<1>1. ASSUME NEW w \in Wallets PROVE Sound(StartAccount(w))
  <2> DEFINE n == IF StartAvailable[w] > 0 THEN 1 ELSE 0
             b == w \in StartConfigured
  <2>1. StartPublic[w] \in Nat /\ StartAvailable[w] \in Nat /\ n \in Nat
    BY StartAssumption
  <2>2. b \in BOOLEAN
    OBVIOUS
  <2>3. StartAccount(w) =
           [Unconfigured(StartPublic[w]) EXCEPT
               !.configured = b,
               !.available = StartAvailable[w],
               !.decryptable_available = StartAvailable[w],
               !.expected_counter = n,
               !.actual_counter = n]
    BY DEF StartAccount
  <2> HIDE DEF n, b
  <2>4. StartAccount(w) \in Account(Calls)
    <3>1. Unconfigured(StartPublic[w]) \in Account(Calls)
      BY <2>1 DEF Account, Unconfigured
    <3>2. QED BY <2>1, <2>2, <2>3, <3>1 DEF Account
  <2>5. StartAccount(w).credit_counter = 0 /\ StartAccount(w).pending_lo = 0
    BY <2>3 DEF Unconfigured
  <2>6. 0 <= 0 * (LoBase - 1) /\ 0 <= MaxCredits
    BY LimitsAssumption
  <2>7. QED BY <2>4, <2>5, <2>6 DEF Sound, CreditsCounted
<1>2. acct = [w \in Wallets |-> StartAccount(w)]
  BY DEF Init
<1>3. AcctOK
  BY <1>1, <1>2 DEF AcctOK, Sound
<1>4. Unconfigured(0) \in Account(Calls)
  BY DEF Unconfigured, Account
<1>5. TypeOK
  <2>1. call \in [Calls -> Request \cup {NoRequest}]
    BY DEF Init
  <2>2. snap \in [Calls -> Account(Calls)]
    BY <1>4 DEF Init
  <2>3. /\ ctx = {}
        /\ landed = {}
        /\ status \in [Calls -> {"idle", "running", "ok", "err"}]
        /\ done \in [Calls -> 0..5]
    BY DEF Init
  <2>4. flight \in [Calls -> BOOLEAN]
    BY DEF Init
  <2>5. QED BY <1>3, <2>1, <2>2, <2>3, <2>4 DEF TypeOK, AcctOK
<1>6. ASSUME NEW c \in Calls PROVE CallOK(c)
  BY <1>6 DEF Init, CallOK, Untouched, Active, EqualityMeansSynced
<1>7. QED BY <1>3, <1>5, <1>6 DEF IInv

-----------------------------------------------------------------------------
(* A transaction lands.                                                       *)

\* What is known of a call that can still land a transaction.
LEMMA ActiveCall ==
    ASSUME IInv, NEW c \in Calls, Active(c)
    PROVE  /\ call[c] \in Request
           /\ call[c].op \in Ops
           /\ Sender(c) \in Wallets
           /\ call[c].to \in Wallets
           /\ call[c].amount \in Nat
           /\ call[c].op = "transfer" => call[c].to # Sender(c)
           /\ snap[c] \in Account(Calls)
           /\ SnapshotReady(c)
           /\ NextTx(c) \in Ops => NextTx(c) = call[c].op
           /\ NextTx(c) = call[c].op <=> done[c] + 1 = MainPos(call[c].op)
<1>1. call[c] \in Request /\ SnapshotReady(c) /\ done[c] < Len(Script[call[c].op])
  BY DEF IInv, TypeOK, CallOK, Active
<1>2. /\ call[c].op \in Ops
      /\ Sender(c) \in Wallets
      /\ call[c].to \in Wallets
      /\ call[c].amount \in Nat
      /\ call[c].op = "transfer" => call[c].to # Sender(c)
  BY <1>1 DEF Request, Sender
<1>3. snap[c] \in Account(Calls) /\ done[c] \in 0..5
  BY DEF IInv, TypeOK
<1>4. done[c] + 1 \in 1..Len(Script[call[c].op])
  BY <1>1, <1>2, <1>3, ScriptFacts
<1>5. /\ NextTx(c) \in Ops => NextTx(c) = call[c].op
      /\ NextTx(c) = call[c].op <=> done[c] + 1 = MainPos(call[c].op)
  BY <1>2, <1>4, ScriptFacts DEF NextTx
<1>6. QED BY <1>1, <1>2, <1>3, <1>5

LEMMA AccountUpdated ==
    ASSUME AcctOK, NEW w \in Wallets, NEW b, Sound(b), acct' = [acct EXCEPT ![w] = b]
    PROVE  AcctOK'
<1>1. b \in Account(Calls)
  BY DEF Sound
<1>2. acct' \in [Wallets -> Account(Calls)]
  BY <1>1 DEF AcctOK
<1>3. ASSUME NEW v \in Wallets PROVE Sound(acct'[v])
  BY DEF AcctOK
<1>4. QED BY <1>2, <1>3 DEF AcctOK

\* The balance an apply announces.
LEMMA AppliedType ==
    ASSUME NEW s \in Account(Calls)
    PROVE  AppliedBalance(s) \in Nat /\ AppliedBalance(s) = s.available + Pending(s)
<1>1. Pending(s) \in Nat /\ s.available \in Nat
  BY PendingType DEF Account
<1>2. QED BY <1>1 DEF AppliedBalance, Pending

LEMMA LandKeepsAccounts ==
    ASSUME IInv, NEW c \in Calls, Active(c), Land(c)
    PROVE  AcctOK'
<1> DEFINE w == Sender(c)
<1>1. /\ AcctOK
      /\ w \in Wallets
      /\ Sound(acct[w])
      /\ call[c].to \in Wallets
      /\ Sound(acct[call[c].to])
      /\ call[c].amount \in Nat
      /\ snap[c] \in Account(Calls)
      /\ SnapshotReady(c)
      /\ call[c].op \in Ops
      /\ NextTx(c) \in Ops => NextTx(c) = call[c].op
      /\ call[c].op = "transfer" => call[c].to # w
  BY ActiveCall DEF IInv, AcctOK
<1> HIDE DEF w
<1>2. CASE LandConfigure(c)
  <2>1. acct' = [acct EXCEPT ![w] = ConfigureAccount(acct[w])]
    BY <1>2 DEF LandConfigure, w
  <2>2. QED BY <1>1, <2>1, ConfigureSound, AccountUpdated
<1>3. CASE LandDeposit(c)
  <2>1. /\ acct' = [acct EXCEPT ![w] = Deposit(acct[w], call[c].amount)]
        /\ CanDeposit(acct[w], call[c].amount)
    BY <1>3 DEF LandDeposit, w
  <2>2. QED BY <1>1, <2>1, DepositSound, AccountUpdated
<1>4. CASE LandApply(c)
  <2> DEFINE b == ApplyPendingBalance(acct[w], snap[c].credit_counter, AppliedBalance(snap[c]))
  <2>1. acct' = [acct EXCEPT ![w] = b]
    BY <1>4 DEF LandApply, w
  <2>2. snap[c].credit_counter \in Nat /\ AppliedBalance(snap[c]) \in Nat
    BY <1>1, AppliedType DEF Account
  <2>3. Sound(b)
    BY <1>1, <2>2, ApplySound
  <2> HIDE DEF b
  <2>4. QED BY <1>1, <2>1, <2>3, AccountUpdated
<1>5. CASE LandWithdraw(c)
  <2> DEFINE left == snap[c].available - call[c].amount
             b == Withdraw(acct[w], call[c].amount, left)
  <2>1. acct' = [acct EXCEPT ![w] = b] /\ CanDebit(acct[w], snap[c]) /\ NextTx(c) = "withdraw"
    BY <1>5 DEF LandWithdraw, w
  <2>2. call[c].op = "withdraw"
    BY <1>1, <2>1 DEF Ops
  <2>3. call[c].amount <= snap[c].available
    BY <1>1, <2>2 DEF SnapshotReady, WithdrawReady
  <2>4. left \in Nat
    BY <1>1, <2>3 DEF Account
  <2>5. call[c].amount <= acct[w].available
    BY <2>1, <2>3 DEF CanDebit, SameAvailable
  <2> HIDE DEF left
  <2>6. Sound(b)
    BY <1>1, <2>4, <2>5, WithdrawSound
  <2> HIDE DEF b
  <2>7. QED BY <1>1, <2>1, <2>6, AccountUpdated
<1>6. CASE LandTransfer(c)
  <2> DEFINE to == call[c].to
             left == snap[c].decryptable_available - call[c].amount
             b == DebitTransfer(acct[w], call[c].amount, {c}, left)
             d == Credit(acct[to], call[c].amount, {c})
  <2>1. /\ NextTx(c) = "transfer"
        /\ <<c, "equality">> \in ctx
        /\ CanDebit(acct[w], snap[c])
        /\ CanCredit(acct[to])
        /\ acct' = [acct EXCEPT ![w] = b, ![to] = Credit(@, call[c].amount, {c})]
    BY <1>6 DEF LandTransfer, Contexts, w
  <2>2. call[c].op = "transfer"
    BY <1>1, <2>1 DEF Ops
  <2>3. to # w /\ to \in Wallets
    BY <1>1, <2>2
  <2>4. call[c].amount <= snap[c].decryptable_available
    BY <1>1, <2>2 DEF SnapshotReady
  <2>5. snap[c].decryptable_available = snap[c].available
    BY <2>1, <2>2 DEF IInv, CallOK, EqualityMeansSynced, Synced
  <2>6. left \in Nat
    BY <1>1, <2>4 DEF Account
  <2>7. call[c].amount <= acct[w].available
    BY <2>1, <2>4, <2>5 DEF CanDebit, SameAvailable
  <2> HIDE DEF left
  <2>8. Sound(b)
    BY <1>1, <2>6, <2>7, DebitTransferSound
  <2>9. Sound(d)
    BY <1>1, <2>1, CreditSound
  <2>10. acct' = [[acct EXCEPT ![w] = b] EXCEPT ![to] = d]
    BY <1>1, <2>1, <2>3 DEF AcctOK
  <2> HIDE DEF b, d, to
  <2>11. b \in Account(Calls) /\ d \in Account(Calls)
    BY <2>8, <2>9 DEF Sound
  <2>12. acct' \in [Wallets -> Account(Calls)]
    BY <1>1, <2>3, <2>10, <2>11 DEF AcctOK
  <2>13. ASSUME NEW v \in Wallets PROVE Sound(acct'[v])
    BY <1>1, <2>3, <2>8, <2>9, <2>10 DEF AcctOK
  <2>14. QED BY <2>12, <2>13 DEF AcctOK
<1>7. CASE LandEquality(c) \/ LandValidity(c) \/ LandRecord(c) \/ LandRange(c) \/ LandClose(c)
  <2>1. acct' = acct
    BY <1>7 DEF LandEquality, LandValidity, LandRecord, LandRange, LandClose
  <2>2. QED BY <1>1, <2>1 DEF AcctOK
<1>8. QED BY <1>2, <1>3, <1>4, <1>5, <1>6, <1>7 DEF Land

\* The auxiliary accounts of other calls are not touched, and the main
\* instruction is recorded.
LEMMA LandKeepsContexts ==
    ASSUME IInv, NEW c \in Calls, Active(c), Land(c)
    PROVE  /\ ctx' \subseteq Calls \X ContextKinds
           /\ \A d \in Calls, k \in ContextKinds :
                 d # c => (<<d, k>> \in ctx' <=> <<d, k>> \in ctx)
           /\ landed' = IF NextTx(c) = call[c].op THEN landed \cup {c} ELSE landed
           /\ <<c, "equality">> \in ctx' /\ call[c].op = "transfer" => Synced(snap[c])
<1>1. /\ ctx \subseteq Calls \X ContextKinds
      /\ EqualityMeansSynced(c)
      /\ call[c].op \in Ops
      /\ NextTx(c) \in Ops => NextTx(c) = call[c].op
  BY ActiveCall DEF IInv, TypeOK, CallOK
<1>2. CASE LandConfigure(c)
  BY <1>1, <1>2 DEF LandConfigure, Contexts, ContextKinds, EqualityMeansSynced, Ops
<1>3. CASE LandDeposit(c)
  BY <1>1, <1>3 DEF LandDeposit, EqualityMeansSynced, Ops
<1>4. CASE LandApply(c)
  BY <1>1, <1>4 DEF LandApply, EqualityMeansSynced, Ops
<1>5. CASE LandEquality(c)
  BY <1>1, <1>5 DEF LandEquality, Contexts, ContextKinds, Synced, Ops
<1>6. CASE LandValidity(c)
  BY <1>1, <1>6 DEF LandValidity, Contexts, ContextKinds, EqualityMeansSynced, Ops
<1>7. CASE LandRecord(c)
  BY <1>1, <1>7 DEF LandRecord, Contexts, ContextKinds, EqualityMeansSynced, Ops
<1>8. CASE LandRange(c)
  BY <1>1, <1>8 DEF LandRange, Contexts, ContextKinds, EqualityMeansSynced, Ops
<1>9. CASE LandWithdraw(c)
  BY <1>1, <1>9 DEF LandWithdraw, EqualityMeansSynced, Ops
<1>10. CASE LandClose(c)
  BY <1>1, <1>10 DEF LandClose, Contexts, ContextKinds, EqualityMeansSynced, Ops
<1>11. CASE LandTransfer(c)
  BY <1>1, <1>11 DEF LandTransfer, Contexts, ContextKinds, EqualityMeansSynced, Ops
<1>12. QED
  BY <1>2, <1>3, <1>4, <1>5, <1>6, <1>7, <1>8, <1>9, <1>10, <1>11 DEF Land

-----------------------------------------------------------------------------
(* Every step keeps the invariant.                                            *)

\* A call is none the worse for what happens to others.
LEMMA CallUndisturbed ==
    ASSUME NEW d \in Calls, CallOK(d),
           call'[d] = call[d], status'[d] = status[d], done'[d] = done[d],
           snap'[d] = snap[d], flight'[d] = flight[d],
           \A k \in ContextKinds : <<d, k>> \in ctx' <=> <<d, k>> \in ctx,
           d \in landed' <=> d \in landed
    PROVE  CallOK(d)'
<1>1. <<d, "equality">> \in ctx' <=> <<d, "equality">> \in ctx
  BY DEF ContextKinds
<1>2. Untouched(d) => Untouched(d)'
  BY DEF Untouched
<1>3. Active(d)' <=> Active(d)
  BY DEF Active
<1>4. SnapshotReady(d) => SnapshotReady(d)'
  BY DEF SnapshotReady
<1>5. LandedAt(d) => LandedAt(d)'
  BY DEF LandedAt
<1>6. EqualityMeansSynced(d) => EqualityMeansSynced(d)'
  BY <1>1 DEF EqualityMeansSynced
<1>7. QED BY <1>2, <1>3, <1>4, <1>5, <1>6 DEF CallOK

LEMMA InvokeKeepsIInv ==
    ASSUME IInv, NEW c \in Calls, NEW r \in Request, Invoke(c, r)
    PROVE  IInv'
<1>1. r \in Request /\ r.op \in Ops /\ r.wallet \in Wallets
  BY DEF Request
<1>2. /\ TypeOK /\ AcctOK
      /\ \A d \in Calls : CallOK(d)
      /\ acct[r.wallet] \in Account(Calls)
  BY <1>1 DEF IInv, AcctOK
<1>3. /\ call' = [call EXCEPT ![c] = r]
      /\ snap' = [snap EXCEPT ![c] = acct[r.wallet]]
      /\ status' = [status EXCEPT ![c] = IF Ready(r) THEN "running" ELSE "err"]
      /\ status[c] = "idle"
      /\ acct' = acct /\ ctx' = ctx /\ landed' = landed /\ done' = done /\ flight' = flight
  BY DEF Invoke
<1>4. /\ call'[c] = r
      /\ snap'[c] = acct[r.wallet]
      /\ status'[c] \in {"running", "err"}
      /\ status'[c] = "running" => Ready(r)
  BY <1>2, <1>3 DEF TypeOK
<1>5. TypeOK'
  BY <1>1, <1>2, <1>3 DEF TypeOK
<1>6. AcctOK'
  BY <1>2, <1>3 DEF AcctOK
<1>7. /\ c \notin landed /\ done[c] = 0 /\ ~flight[c]
      /\ <<c, "equality">> \notin ctx
  BY <1>2, <1>3 DEF CallOK, Untouched, ContextKinds
<1>8. CallOK(c)'
  <2>1. Active(c)' => SnapshotReady(c)'
    BY <1>3, <1>4, <1>7 DEF Active, SnapshotReady, Ready, TransferReady
  <2>2. done'[c] < Len(Script[call'[c].op]) /\ LandedAt(c)'
    <3>1. Len(Script[r.op]) \in 1..5 /\ MainPos(r.op) \in 1..Len(Script[r.op])
      BY <1>1, ScriptFacts
    <3>2. 0 < Len(Script[r.op]) /\ ~(0 >= MainPos(r.op))
      BY <3>1
    <3>3. QED BY <1>3, <1>4, <1>7, <3>2 DEF LandedAt
  <2>3. EqualityMeansSynced(c)'
    BY <1>3, <1>7 DEF EqualityMeansSynced
  <2>4. QED BY <1>1, <1>3, <1>4, <1>7, <2>1, <2>2, <2>3 DEF CallOK
<1>9. ASSUME NEW d \in Calls, d # c PROVE CallOK(d)'
  <2>1. /\ call'[d] = call[d] /\ status'[d] = status[d] /\ done'[d] = done[d]
        /\ snap'[d] = snap[d] /\ flight'[d] = flight[d]
    BY <1>2, <1>3, <1>9 DEF TypeOK
  <2>2. QED BY <1>2, <1>3, <2>1, CallUndisturbed
<1>10. QED BY <1>5, <1>6, <1>8, <1>9 DEF IInv

LEMMA ConfirmKeepsIInv ==
    ASSUME IInv, NEW c \in Calls, Confirm(c)
    PROVE  IInv'
<1>1. /\ status[c] = "running" /\ Active(c) /\ Land(c)
      /\ done' = [done EXCEPT ![c] = done[c] + 1]
      /\ status' = [status EXCEPT ![c] =
                       IF done[c] + 1 = Len(Script[call[c].op]) THEN "ok" ELSE status[c]]
      /\ call' = call /\ snap' = snap /\ flight' = flight
  BY DEF Confirm, Active
<1>2. /\ TypeOK
      /\ \A d \in Calls : CallOK(d)
      /\ done[c] \in 0..5
      /\ done[c] < Len(Script[call[c].op])
      /\ LandedAt(c)
      /\ ~flight[c]
  BY <1>1 DEF IInv, TypeOK, CallOK
<1>3. /\ call[c] \in Request
      /\ call[c].op \in Ops
      /\ SnapshotReady(c)
      /\ NextTx(c) = call[c].op <=> done[c] + 1 = MainPos(call[c].op)
  BY <1>1, ActiveCall
<1>4. /\ Len(Script[call[c].op]) \in 1..5
      /\ MainPos(call[c].op) \in 1..Len(Script[call[c].op])
  BY <1>3, ScriptFacts
<1>5. AcctOK'
  BY <1>1, LandKeepsAccounts
<1>6. /\ ctx' \subseteq Calls \X ContextKinds
      /\ \A d \in Calls, k \in ContextKinds :
            d # c => (<<d, k>> \in ctx' <=> <<d, k>> \in ctx)
      /\ landed' = IF NextTx(c) = call[c].op THEN landed \cup {c} ELSE landed
      /\ <<c, "equality">> \in ctx' /\ call[c].op = "transfer" => Synced(snap[c])
  BY <1>1, LandKeepsContexts
<1>7. /\ done'[c] = done[c] + 1
      /\ done'[c] \in 0..5
      /\ status'[c] = IF done[c] + 1 = Len(Script[call[c].op]) THEN "ok" ELSE "running"
  <2>1. done \in [Calls -> 0..5] /\ status \in [Calls -> {"idle", "running", "ok", "err"}]
    BY <1>2 DEF TypeOK
  <2>2. done'[c] = done[c] + 1
    BY <1>1, <2>1
  <2>3. done[c] + 1 \in 0..5
    <3> DEFINE len == Len(Script[call[c].op])
    <3>1. len \in 1..5 /\ done[c] < len /\ done[c] \in 0..5
      BY <1>2, <1>4
    <3> HIDE DEF len
    <3>2. QED BY <3>1
  <2>4. status'[c] = IF done[c] + 1 = Len(Script[call[c].op]) THEN "ok" ELSE "running"
    BY <1>1, <2>1
  <2>5. QED BY <2>2, <2>3, <2>4
<1>8. TypeOK'
  <2>1. landed' \subseteq Calls
    BY <1>2, <1>6 DEF TypeOK
  <2>2. done' \in [Calls -> 0..5]
    BY <1>1, <1>2, <1>7 DEF TypeOK
  <2>3. status' \in [Calls -> {"idle", "running", "ok", "err"}]
    BY <1>1, <1>2 DEF TypeOK
  <2>4. QED BY <1>1, <1>2, <1>5, <1>6, <2>1, <2>2, <2>3 DEF TypeOK, AcctOK
<1>9. c \in landed' <=> done'[c] >= MainPos(call[c].op)
  BY <1>2, <1>3, <1>4, <1>6, <1>7 DEF LandedAt
<1>10. CallOK(c)'
  <2>1. LandedAt(c)'
    BY <1>1, <1>9 DEF LandedAt
  <2>2. SnapshotReady(c)'
    BY <1>1, <1>3 DEF SnapshotReady
  <2>3. EqualityMeansSynced(c)'
    BY <1>1, <1>6 DEF EqualityMeansSynced
  <2>4. status'[c] = "ok" => c \in landed'
    BY <1>4, <1>7, <1>9
  <2>5. status'[c] # "ok" => done'[c] < Len(Script[call'[c].op])
    BY <1>1, <1>2, <1>4, <1>7
  <2>6. Active(c)' => status'[c] # "ok"
    BY <1>1, <1>2 DEF Active
  <2>7. QED BY <1>1, <1>2, <1>3, <1>7, <2>1, <2>2, <2>3, <2>4, <2>5, <2>6 DEF CallOK
<1>11. ASSUME NEW d \in Calls, d # c PROVE CallOK(d)'
  <2>1. /\ call'[d] = call[d] /\ status'[d] = status[d] /\ done'[d] = done[d]
        /\ snap'[d] = snap[d] /\ flight'[d] = flight[d]
    BY <1>1, <1>2, <1>11 DEF TypeOK
  <2>2. d \in landed' <=> d \in landed
    BY <1>6, <1>11
  <2>3. QED BY <1>2, <1>6, <1>11, <2>1, <2>2, CallUndisturbed
<1>12. QED BY <1>5, <1>8, <1>10, <1>11 DEF IInv

LEMMA LandLateKeepsIInv ==
    ASSUME IInv, NEW c \in Calls, LandLate(c)
    PROVE  IInv'
<1>1. /\ flight[c] /\ Active(c) /\ Land(c)
      /\ flight' = [flight EXCEPT ![c] = FALSE]
      /\ call' = call /\ status' = status /\ done' = done /\ snap' = snap
  BY DEF LandLate, Active
<1>2. /\ TypeOK
      /\ \A d \in Calls : CallOK(d)
      /\ status[c] = "err"
      /\ call[c] \in Request
      /\ flight'[c] = FALSE
  BY <1>1 DEF IInv, TypeOK, CallOK
<1>3. AcctOK'
  BY <1>1, LandKeepsAccounts
<1>4. /\ ctx' \subseteq Calls \X ContextKinds
      /\ \A d \in Calls, k \in ContextKinds :
            d # c => (<<d, k>> \in ctx' <=> <<d, k>> \in ctx)
      /\ landed' = IF NextTx(c) = call[c].op THEN landed \cup {c} ELSE landed
      /\ <<c, "equality">> \in ctx' /\ call[c].op = "transfer" => Synced(snap[c])
  BY <1>1, LandKeepsContexts
<1>5. TypeOK'
  <2>1. landed' \subseteq Calls
    BY <1>2, <1>4 DEF TypeOK
  <2>2. flight' \in [Calls -> BOOLEAN]
    BY <1>1, <1>2 DEF TypeOK
  <2>3. QED BY <1>1, <1>2, <1>3, <1>4, <2>1, <2>2 DEF TypeOK, AcctOK
<1>6. CallOK(c)'
  <2>1. EqualityMeansSynced(c)'
    BY <1>1, <1>4 DEF EqualityMeansSynced
  <2>2. ~Active(c)'
    BY <1>1, <1>2 DEF Active
  <2>3. QED BY <1>1, <1>2, <2>1, <2>2 DEF CallOK
<1>7. ASSUME NEW d \in Calls, d # c PROVE CallOK(d)'
  <2>1. /\ call'[d] = call[d] /\ status'[d] = status[d] /\ done'[d] = done[d]
        /\ snap'[d] = snap[d] /\ flight'[d] = flight[d]
    BY <1>1, <1>2, <1>7 DEF TypeOK
  <2>2. d \in landed' <=> d \in landed
    BY <1>4, <1>7
  <2>3. QED BY <1>2, <1>4, <1>7, <2>1, <2>2, CallUndisturbed
<1>8. QED BY <1>3, <1>5, <1>6, <1>7 DEF IInv

\* Fail, Timeout and Expire only change what the client knows of its last
\* transaction.
LEMMA GivingUpKeepsIInv ==
    ASSUME IInv, NEW c \in Calls, Fail(c) \/ Timeout(c) \/ Expire(c)
    PROVE  IInv'
<1>1. /\ acct' = acct /\ ctx' = ctx /\ landed' = landed
      /\ call' = call /\ done' = done /\ snap' = snap
      /\ Active(c)
  BY DEF Fail, Timeout, Expire, Active
<1>2. /\ TypeOK /\ AcctOK
      /\ \A d \in Calls : CallOK(d)
      /\ status[c] # "idle" /\ call[c] \in Request
  BY <1>1 DEF IInv, CallOK, Active
<1>3. /\ status' \in [Calls -> {"idle", "running", "ok", "err"}]
      /\ status'[c] = "err"
      /\ \A d \in Calls : d # c => status'[d] = status[d]
  BY <1>2 DEF Fail, Timeout, Expire, TypeOK, CallOK
<1>4. /\ flight' \in [Calls -> BOOLEAN]
      /\ \A d \in Calls : d # c => flight'[d] = flight[d]
  <2>1. flight' \in {flight, [flight EXCEPT ![c] = TRUE], [flight EXCEPT ![c] = FALSE]}
    BY DEF Fail, Timeout, Expire
  <2>2. QED BY <1>2, <2>1 DEF TypeOK
<1>5. TypeOK'
  BY <1>1, <1>2, <1>3, <1>4 DEF TypeOK
<1>6. AcctOK'
  BY <1>1, <1>2 DEF AcctOK
<1>7. CallOK(c)'
  <2>1. done'[c] < Len(Script[call'[c].op]) /\ SnapshotReady(c)' /\ LandedAt(c)'
    BY <1>1, <1>2 DEF CallOK, SnapshotReady, LandedAt
  <2>2. EqualityMeansSynced(c)'
    BY <1>1, <1>2 DEF CallOK, EqualityMeansSynced
  <2>3. QED BY <1>1, <1>2, <1>3, <2>1, <2>2 DEF CallOK
<1>8. ASSUME NEW d \in Calls, d # c PROVE CallOK(d)'
  BY <1>1, <1>2, <1>3, <1>4, <1>8, CallUndisturbed
<1>9. QED BY <1>5, <1>6, <1>7, <1>8 DEF IInv

LEMMA NextKeepsIInv == IInv /\ [Next]_vars => IInv'
<1> SUFFICES ASSUME IInv, [Next]_vars PROVE IInv'
  OBVIOUS
<1>1. CASE UNCHANGED vars
  <2>1. TypeOK' /\ AcctOK'
    BY <1>1 DEF IInv, TypeOK, AcctOK, vars
  <2>2. ASSUME NEW d \in Calls PROVE CallOK(d)'
    BY <1>1, CallUndisturbed DEF IInv, vars
  <2>3. QED BY <2>1, <2>2 DEF IInv
<1>2. CASE Next
  <2>1. PICK c \in Calls : \/ \E r \in Menu : Invoke(c, r)
                           \/ Confirm(c)
                           \/ Fail(c) \/ Timeout(c) \/ Expire(c)
                           \/ LandLate(c)
    BY <1>2 DEF Next
  <2>2. QED
    BY <2>1, MenuAssumption, InvokeKeepsIInv, ConfirmKeepsIInv, GivingUpKeepsIInv,
       LandLateKeepsIInv
<1>3. QED BY <1>1, <1>2

\* The inductive invariant holds in every reachable state.
THEOREM Invariant == Spec => []IInv
BY InitIInv, NextKeepsIInv, PTL DEF Spec

\* Type correctness of the operations, and with it that no public, pending or
\* available balance is ever negative, whatever transactions interleave.
THEOREM TypeCorrect == Spec => []TypeOK
<1>1. IInv => TypeOK
  BY DEF IInv
<1>2. QED BY <1>1, Invariant, PTL

LEMMA LoDecrypts == IInv => PendingLoDecryptable
<1> SUFFICES ASSUME IInv, NEW w \in Wallets PROVE acct[w].pending_lo < DecryptBound
  BY DEF PendingLoDecryptable, DecryptsU32
<1> DEFINE n == acct[w].credit_counter
           k == LoBase - 1
<1>1. /\ n \in Nat /\ n <= MaxCredits
      /\ acct[w].pending_lo \in Nat
      /\ acct[w].pending_lo <= n * k
  BY DEF IInv, AcctOK, Sound, CreditsCounted, Account
<1>2. k \in Nat /\ MaxCredits \in Nat /\ DecryptBound \in Nat /\ MaxCredits * k < DecryptBound
  BY LimitsAssumption, CreditLimitAssumption
<1> HIDE DEF n, k
<1>3. n * k <= MaxCredits * k
  BY <1>1, <1>2
<1>4. n * k \in Nat /\ MaxCredits * k \in Nat
  BY <1>1, <1>2
<1>5. QED BY <1>1, <1>2, <1>3, <1>4

\* The credit limit that configure asks for keeps pending_balance_lo
\* decryptable (configure.rs:57, apply_pending.rs:68).
THEOREM PendingLoAlwaysDecryptable == Spec => []PendingLoDecryptable
BY LoDecrypts, Invariant, PTL

-----------------------------------------------------------------------------
(* What a landing does to the balances.                                       *)

LEMMA ConfigureFields ==
    ASSUME NEW a \in Account(Calls)
    PROVE  LET b == ConfigureAccount(a)
           IN  /\ b.public = a.public
               /\ b.available = a.available
               /\ b.decryptable_available = a.decryptable_available
               /\ b.pending_hi = a.pending_hi
               /\ Pending(b) = Pending(a)
BY DEF ConfigureAccount, Account, Pending

LEMMA CreditFields ==
    ASSUME NEW a \in Account(Calls), NEW amount \in Nat, NEW rnd
    PROVE  LET b == Credit(a, amount, rnd)
           IN  /\ b.public = a.public
               /\ b.available = a.available
               /\ b.decryptable_available = a.decryptable_available
               /\ b.pending_hi >= a.pending_hi
               /\ Pending(b) = Pending(a) + amount
<1> DEFINE b == Credit(a, amount, rnd)
<1>1. /\ b.public = a.public
      /\ b.available = a.available
      /\ b.decryptable_available = a.decryptable_available
      /\ b.pending_lo = a.pending_lo + Lo(amount)
      /\ b.pending_hi = a.pending_hi + Hi(amount)
  BY DEF Credit, Account
<1>2. /\ a.pending_lo \in Nat /\ a.pending_hi \in Nat
      /\ Lo(amount) \in Nat /\ Hi(amount) \in Nat
      /\ amount = Lo(amount) + Hi(amount) * LoBase
  BY SplitAmount DEF Account
<1> HIDE DEF b
<1>3. b.pending_lo + b.pending_hi * LoBase
         = (a.pending_lo + a.pending_hi * LoBase) + (Lo(amount) + Hi(amount) * LoBase)
  BY <1>1, <1>2, LimitsAssumption
<1>4. Pending(b) = Pending(a) + amount
  BY <1>2, <1>3 DEF Pending
<1>5. b.pending_hi >= a.pending_hi
  BY <1>1, <1>2
<1>6. QED BY <1>1, <1>4, <1>5 DEF b

LEMMA DepositFields ==
    ASSUME NEW a \in Account(Calls), NEW amount \in Nat
    PROVE  LET b == Deposit(a, amount)
           IN  /\ b.public = a.public - amount
               /\ b.available = a.available
               /\ b.decryptable_available = a.decryptable_available
               /\ b.pending_hi >= a.pending_hi
               /\ Pending(b) = Pending(a) + amount
<1> DEFINE e == Credit(a, amount, {})
           b == Deposit(a, amount)
<1>1. /\ e.public = a.public
      /\ e.available = a.available
      /\ e.decryptable_available = a.decryptable_available
      /\ e.pending_hi >= a.pending_hi
      /\ Pending(e) = Pending(a) + amount
  BY CreditFields
<1>2. /\ b.public = e.public - amount
      /\ b.available = e.available
      /\ b.decryptable_available = e.decryptable_available
      /\ b.pending_lo = e.pending_lo
      /\ b.pending_hi = e.pending_hi
  BY DEF Deposit, Credit, Account
<1> HIDE DEF e, b
<1>3. Pending(b) = Pending(e)
  BY <1>2 DEF Pending
<1>4. QED BY <1>1, <1>2, <1>3 DEF b

LEMMA ApplyFields ==
    ASSUME NEW a \in Account(Calls), NEW expected, NEW decryptable
    PROVE  LET b == ApplyPendingBalance(a, expected, decryptable)
           IN  /\ b.public = a.public
               /\ b.available = a.available + Pending(a)
               /\ b.decryptable_available = decryptable
               /\ Pending(b) = 0
<1>1. 0 + 0 * LoBase = 0
  BY LimitsAssumption
<1>2. QED BY <1>1 DEF ApplyPendingBalance, Account, Pending

LEMMA WithdrawFields ==
    ASSUME NEW a \in Account(Calls), NEW amount, NEW decryptable
    PROVE  LET b == Withdraw(a, amount, decryptable)
           IN  /\ b.public = a.public + amount
               /\ b.available = a.available - amount
               /\ b.decryptable_available = decryptable
               /\ b.pending_hi = a.pending_hi
               /\ Pending(b) = Pending(a)
BY DEF Withdraw, Account, Pending

LEMMA DebitTransferFields ==
    ASSUME NEW a \in Account(Calls), NEW amount, NEW rnd, NEW decryptable
    PROVE  LET b == DebitTransfer(a, amount, rnd, decryptable)
           IN  /\ b.public = a.public
               /\ b.available = a.available - amount
               /\ b.decryptable_available = decryptable
               /\ b.pending_hi = a.pending_hi
               /\ Pending(b) = Pending(a)
BY DEF DebitTransfer, Account, Pending

\* The step leaves the balances of v as they are.
SameBalances(v) ==
    /\ acct'[v].public = acct[v].public
    /\ acct'[v].available = acct[v].available
    /\ acct'[v].decryptable_available = acct[v].decryptable_available
    /\ Pending(acct'[v]) = Pending(acct[v])
    /\ acct'[v].pending_hi = acct[v].pending_hi

\* The move of call c on the balances, operation by operation.
Moves(c) ==
    LET w == Sender(c)
        n == call[c].amount
        s == snap[c]
        old == acct[w]
        new == acct'[w]
    IN  \/ /\ call[c].op = "configure"
           /\ SameBalances(w)
        \/ /\ call[c].op = "deposit"
           /\ n <= old.public
           /\ new.public = old.public - n
           /\ new.available = old.available
           /\ new.decryptable_available = old.decryptable_available
           /\ new.pending_hi >= old.pending_hi
           /\ Pending(new) = Pending(old) + n
        \/ /\ call[c].op = "apply"
           /\ ApplyReady(s)
           /\ new.public = old.public
           /\ new.available = old.available + Pending(old)
           /\ new.decryptable_available = s.available + Pending(s)
           /\ Pending(new) = 0
        \/ /\ call[c].op = "withdraw"
           /\ WithdrawReady(s, n)
           /\ old.available = s.available
           /\ new.public = old.public + n
           /\ new.available = old.available - n
           /\ new.decryptable_available = s.available - n
           /\ new.pending_hi = old.pending_hi
           /\ Pending(new) = Pending(old)
        \/ /\ call[c].op = "transfer"
           /\ n <= s.decryptable_available
           /\ Synced(s)
           /\ old.available = s.available
           /\ new.public = old.public
           /\ new.available = old.available - n
           /\ new.decryptable_available = s.decryptable_available - n
           /\ new.pending_hi = old.pending_hi
           /\ Pending(new) = Pending(old)

\* The recipient of a transfer is credited.
Credits(c) ==
    LET v == call[c].to
    IN  /\ acct'[v].public = acct[v].public
        /\ acct'[v].available = acct[v].available
        /\ acct'[v].decryptable_available = acct[v].decryptable_available
        /\ acct'[v].pending_hi >= acct[v].pending_hi
        /\ Pending(acct'[v]) = Pending(acct[v]) + call[c].amount

\* A landing either leaves all accounts alone, or is the first and only landing
\* of the main instruction of its call.
LEMMA LandMoves ==
    ASSUME IInv, NEW c \in Calls, Active(c), Land(c)
    PROVE  \/ acct' = acct /\ landed' = landed
           \/ /\ c \notin landed
              /\ landed' = landed \cup {c}
              /\ Moves(c)
              /\ call[c].op = "transfer" => call[c].to # Sender(c) /\ Credits(c)
              /\ \A v \in Wallets :
                    v # Sender(c) /\ (call[c].op = "transfer" => v # call[c].to)
                        => acct'[v] = acct[v]
<1> DEFINE w == Sender(c)
           n == call[c].amount
           s == snap[c]
<1>1. /\ acct \in [Wallets -> Account(Calls)]
      /\ w \in Wallets
      /\ acct[w] \in Account(Calls)
      /\ call[c].to \in Wallets
      /\ acct[call[c].to] \in Account(Calls)
      /\ n \in Nat
      /\ s \in Account(Calls)
      /\ SnapshotReady(c)
      /\ NextTx(c) \in Ops => NextTx(c) = call[c].op
      /\ call[c].op = "transfer" => call[c].to # w
  BY ActiveCall DEF IInv, AcctOK
<1>2. NextTx(c) = call[c].op => c \notin landed
  <2>1. LandedAt(c) /\ done[c] \in 0..5
    BY DEF IInv, CallOK, TypeOK
  <2>2. NextTx(c) = call[c].op <=> done[c] + 1 = MainPos(call[c].op)
    BY ActiveCall
  <2>3. MainPos(call[c].op) \in {1, 3, 5}
    BY DEF MainPos
  <2>4. QED BY <2>1, <2>2, <2>3 DEF LandedAt
<1> HIDE DEF w, n, s
<1>3. CASE LandConfigure(c)
  <2>1. /\ acct' = [acct EXCEPT ![w] = ConfigureAccount(acct[w])]
        /\ landed' = landed \cup {c}
        /\ NextTx(c) = "configure"
    BY <1>3 DEF LandConfigure, w
  <2>2. call[c].op = "configure"
    BY <1>1, <2>1 DEF Ops
  <2>3. acct'[w] = ConfigureAccount(acct[w]) /\ \A v \in Wallets : v # w => acct'[v] = acct[v]
    BY <1>1, <2>1
  <2>4. SameBalances(w)
    <3>1. acct[w].pending_hi \in Nat
      BY <1>1 DEF Account
    <3>2. QED BY <1>1, <2>3, <3>1, ConfigureFields DEF SameBalances
  <2>5. QED BY <1>1, <1>2, <2>1, <2>2, <2>3, <2>4 DEF Moves, w
<1>4. CASE LandDeposit(c)
  <2>1. /\ acct' = [acct EXCEPT ![w] = Deposit(acct[w], n)]
        /\ n <= acct[w].public
        /\ landed' = landed \cup {c}
        /\ NextTx(c) = "deposit"
    BY <1>4 DEF LandDeposit, CanDeposit, w, n
  <2>2. call[c].op = "deposit"
    BY <1>1, <2>1 DEF Ops
  <2>3. acct'[w] = Deposit(acct[w], n) /\ \A v \in Wallets : v # w => acct'[v] = acct[v]
    BY <1>1, <2>1
  <2>4. Moves(c)
    BY <1>1, <2>1, <2>2, <2>3, DepositFields DEF Moves, w, n
  <2>5. QED BY <1>1, <1>2, <2>1, <2>2, <2>3, <2>4 DEF w
<1>5. CASE LandApply(c)
  <2>1. /\ acct' = [acct EXCEPT ![w] =
                       ApplyPendingBalance(acct[w], s.credit_counter, AppliedBalance(s))]
        /\ landed' = landed \cup {c}
        /\ NextTx(c) = "apply"
    BY <1>5 DEF LandApply, w, s
  <2>2. call[c].op = "apply"
    BY <1>1, <2>1 DEF Ops
  <2>3. /\ acct'[w] = ApplyPendingBalance(acct[w], s.credit_counter, AppliedBalance(s))
        /\ \A v \in Wallets : v # w => acct'[v] = acct[v]
    BY <1>1, <2>1
  <2>4. AppliedBalance(s) = s.available + Pending(s)
    BY <1>1, AppliedType
  <2>5. ApplyReady(s)
    BY <1>1, <2>2 DEF SnapshotReady, s
  <2>6. Moves(c)
    BY <1>1, <2>2, <2>3, <2>4, <2>5, ApplyFields DEF Moves, w, s
  <2>7. QED BY <1>1, <1>2, <2>1, <2>2, <2>3, <2>6 DEF w
<1>6. CASE LandWithdraw(c)
  <2>1. /\ acct' = [acct EXCEPT ![w] = Withdraw(acct[w], n, s.available - n)]
        /\ acct[w].available = s.available
        /\ landed' = landed \cup {c}
        /\ NextTx(c) = "withdraw"
    BY <1>6 DEF LandWithdraw, CanDebit, SameAvailable, w, n, s
  <2>2. call[c].op = "withdraw"
    BY <1>1, <2>1 DEF Ops
  <2>3. /\ acct'[w] = Withdraw(acct[w], n, s.available - n)
        /\ \A v \in Wallets : v # w => acct'[v] = acct[v]
    BY <1>1, <2>1
  <2>4. WithdrawReady(s, n)
    BY <1>1, <2>2 DEF SnapshotReady, s, n
  <2>5. Moves(c)
    BY <1>1, <2>1, <2>2, <2>3, <2>4, WithdrawFields DEF Moves, w, n, s
  <2>6. QED BY <1>1, <1>2, <2>1, <2>2, <2>3, <2>5 DEF w
<1>7. CASE LandTransfer(c)
  <2> DEFINE to == call[c].to
             b == DebitTransfer(acct[w], n, {c}, s.decryptable_available - n)
             d == Credit(acct[to], n, {c})
  <2>1. /\ acct' = [acct EXCEPT ![w] = b, ![to] = Credit(@, n, {c})]
        /\ <<c, "equality">> \in ctx
        /\ acct[w].available = s.available
        /\ landed' = landed \cup {c}
        /\ NextTx(c) = "transfer"
    BY <1>7 DEF LandTransfer, Contexts, CanDebit, SameAvailable, w, n, s
  <2>2. call[c].op = "transfer"
    BY <1>1, <2>1 DEF Ops
  <2>3. to # w /\ to \in Wallets
    BY <1>1, <2>2
  <2>4. acct' = [[acct EXCEPT ![w] = b] EXCEPT ![to] = d]
    BY <1>1, <2>1, <2>3
  <2>5. /\ acct'[w] = b
        /\ acct'[to] = d
        /\ \A v \in Wallets : v # w /\ v # to => acct'[v] = acct[v]
    <3> HIDE DEF b, d, to
    <3>1. QED BY <1>1, <2>3, <2>4
  <2>6. Synced(s) /\ n <= s.decryptable_available
    BY <1>1, <2>1, <2>2 DEF IInv, CallOK, EqualityMeansSynced, SnapshotReady, s, n
  <2>7. Moves(c)
    BY <1>1, <2>1, <2>2, <2>5, <2>6, DebitTransferFields DEF Moves, w, n, s
  <2>8. Credits(c)
    BY <1>1, <2>5, CreditFields DEF Credits, n
  <2>9. QED BY <1>1, <1>2, <2>1, <2>2, <2>3, <2>5, <2>7, <2>8 DEF w
<1>8. CASE LandEquality(c) \/ LandValidity(c) \/ LandRecord(c) \/ LandRange(c) \/ LandClose(c)
  BY <1>8 DEF LandEquality, LandValidity, LandRecord, LandRange, LandClose
<1>9. QED BY <1>3, <1>4, <1>5, <1>6, <1>7, <1>8 DEF Land

-----------------------------------------------------------------------------
(* The action properties.                                                     *)

\* A step either leaves the accounts and the set of landed calls alone, or is
\* the move of the one call that joins that set.
Quiet == acct' = acct /\ landed' = landed

MoveOf(c) ==
    /\ landed' \ landed = {c}
    /\ Sender(c) \in Wallets
    /\ call[c].amount \in Nat
    /\ snap[c] \in Account(Calls)
    /\ Moves(c)
    /\ call[c].op = "transfer" => call[c].to # Sender(c) /\ Credits(c)
    /\ \A v \in Wallets :
          v # Sender(c) /\ (call[c].op = "transfer" => v # call[c].to) => acct'[v] = acct[v]

LEMMA StepMoves ==
    ASSUME IInv, [Next]_vars
    PROVE  Quiet \/ \E c \in Calls : MoveOf(c)
<1>1. CASE \E c \in Calls : Confirm(c) \/ LandLate(c)
  <2>1. PICK c \in Calls : Confirm(c) \/ LandLate(c)
    BY <1>1
  <2>2. Active(c) /\ Land(c)
    BY <2>1 DEF Confirm, LandLate, Active
  <2>3. Sender(c) \in Wallets /\ call[c].amount \in Nat /\ snap[c] \in Account(Calls)
    BY <2>2, ActiveCall
  <2>4. QED BY <2>2, <2>3, LandMoves DEF Quiet, MoveOf
<1>2. CASE ~\E c \in Calls : Confirm(c) \/ LandLate(c)
  BY <1>2 DEF Next, vars, Invoke, Fail, Timeout, Expire, Quiet
<1>3. QED BY <1>1, <1>2

\* What the action properties need of a step: it is a move, or nothing lands and
\* no balance changes but a public one. This is as true of a program that also
\* mints and restarts, like DemoServer.
Still ==
    /\ landed' = landed
    /\ \A w \in Wallets :
          /\ acct'[w].available = acct[w].available
          /\ acct'[w].decryptable_available = acct[w].decryptable_available
          /\ acct'[w].pending_hi = acct[w].pending_hi

Step == IInv /\ IInv' /\ (Still \/ \E c \in Calls : MoveOf(c))

OnlyMoves == [][Step]_vars

LEMMA SpecMoves == Spec => OnlyMoves
<1>1. IInv /\ [Next]_vars => Step
  <2> SUFFICES ASSUME IInv, [Next]_vars PROVE Step
    OBVIOUS
  <2>1. Quiet => Still
    BY DEF Quiet, Still
  <2>2. QED BY <2>1, StepMoves, NextKeepsIInv DEF Step
<1>2. QED BY <1>1, Invariant, PTL DEF Spec, OnlyMoves

\* The balances of an account that is neither the sender nor the recipient of
\* the move, or only its recipient, stay what they were and pending grows.
LEMMA OthersOnlyGain ==
    ASSUME IInv, NEW c \in Calls, MoveOf(c), NEW v \in Wallets, v # Sender(c)
    PROVE  /\ acct'[v].available = acct[v].available
           /\ acct'[v].decryptable_available = acct[v].decryptable_available
           /\ acct'[v].pending_hi >= acct[v].pending_hi
<1>1. acct[v].pending_hi \in Nat
  BY DEF IInv, AcctOK, Account
<1>2. CASE call[c].op = "transfer" /\ v = call[c].to
  BY <1>2 DEF MoveOf, Credits
<1>3. CASE ~(call[c].op = "transfer" /\ v = call[c].to)
  BY <1>1, <1>3 DEF MoveOf
<1>4. QED BY <1>2, <1>3

LEMMA BalancesType ==
    ASSUME IInv, NEW w \in Wallets
    PROVE  /\ acct[w].available \in Nat
           /\ acct[w].decryptable_available \in Nat
           /\ acct[w].pending_hi \in Nat
           /\ Pending(acct[w]) \in Nat
BY PendingType DEF IInv, AcctOK, Account

LEMMA SnapshotType ==
    ASSUME NEW s \in Account(Calls)
    PROVE  /\ s.available \in Nat
           /\ s.decryptable_available \in Nat
           /\ s.pending_hi \in Nat
           /\ Pending(s) \in Nat
BY PendingType DEF Account

\* The five action properties hold of any program whose steps are such.
LEMMA DebitsOfMoves == OnlyMoves => DebitsUseTheirRead
<1>1. ASSUME Step, NEW c \in landed' \ landed,
             call[c].op \in {"withdraw", "transfer"}
      PROVE  /\ acct[Sender(c)].available = snap[c].available
             /\ call[c].amount <= acct[Sender(c)].available
             /\ acct'[Sender(c)].available = acct[Sender(c)].available - call[c].amount
             /\ Synced(acct'[Sender(c)])
  <2>1. MoveOf(c)
    BY <1>1 DEF Step, Still, MoveOf
  <2>2. CASE call[c].op = "withdraw"
    BY <2>1, <2>2 DEF MoveOf, Moves, WithdrawReady, Synced
  <2>3. CASE call[c].op = "transfer"
    BY <2>1, <2>3 DEF MoveOf, Moves, Synced
  <2>4. QED BY <1>1, <2>2, <2>3
<1>2. Step =>
       (\A c \in landed' \ landed :
            call[c].op \in {"withdraw", "transfer"} =>
                LET before == acct[Sender(c)]
                    after  == acct'[Sender(c)]
                IN  /\ before.available = snap[c].available
                    /\ call[c].amount <= before.available
                    /\ after.available = before.available - call[c].amount
                    /\ Synced(after))
  BY <1>1
<1>3. QED BY <1>2, PTL DEF OnlyMoves, DebitsUseTheirRead

LEMMA DesyncOfMoves == OnlyMoves => OnlyOvertakenApplyDesyncs
<1>1. ASSUME Step, NEW w \in Wallets, ~Synced(acct'[w])
      PROVE  \/ /\ acct'[w].available = acct[w].available
                /\ acct'[w].decryptable_available = acct[w].decryptable_available
             \/ \E c \in landed' \ landed :
                   call[c].op = "apply" /\ Sender(c) = w /\ Overtaken(c)
  <2>1. CASE Still
    BY <2>1 DEF Still
  <2>2. CASE \E c \in Calls : MoveOf(c)
    <3>1. PICK c \in Calls : MoveOf(c)
      BY <2>2
    <3>2. CASE Sender(c) # w
      BY <1>1, <3>1, <3>2, OthersOnlyGain DEF Step
    <3>3. CASE Sender(c) = w
      <4>1. CASE call[c].op = "apply"
        <5>1. ~Synced(acct'[w]) => Overtaken(c)
          BY <3>1, <3>3, <4>1 DEF MoveOf, Moves, Synced, Overtaken
        <5>2. QED BY <1>1, <3>1, <3>3, <4>1, <5>1 DEF MoveOf
      <4>2. CASE call[c].op # "apply"
        BY <1>1, <3>1, <3>3, <4>2 DEF MoveOf, Moves, SameBalances, Synced
      <4>3. QED BY <4>1, <4>2
    <3>4. QED BY <3>2, <3>3
  <2>3. QED BY <1>1, <2>1, <2>2 DEF Step
<1>2. Step =>
       (\A w \in Wallets :
            ~Synced(acct'[w]) =>
                \/ /\ acct'[w].available = acct[w].available
                   /\ acct'[w].decryptable_available = acct[w].decryptable_available
                \/ \E c \in landed' \ landed :
                      call[c].op = "apply" /\ Sender(c) = w /\ Overtaken(c))
  BY <1>1
<1>3. QED BY <1>2, PTL DEF OnlyMoves, OnlyOvertakenApplyDesyncs

LEMMA AboveBoundOfMoves == OnlyMoves => AboveBoundOnlyTransferDebits
<1>1. ASSUME Step, NEW w \in Wallets,
             ~DecryptsU32(acct[w].available), acct'[w].available < acct[w].available
      PROVE  \E c \in landed' \ landed : call[c].op = "transfer" /\ Sender(c) = w
  <2>1. acct[w].available \in Nat /\ Pending(acct[w]) \in Nat
    BY <1>1, BalancesType DEF Step
  <2>2. PICK c \in Calls : MoveOf(c)
    BY <1>1, <2>1 DEF Step, Still
  <2>3. Sender(c) = w
    BY <1>1, <2>1, <2>2, OthersOnlyGain DEF Step
  <2>4. call[c].op \notin {"configure", "deposit", "apply"}
    BY <1>1, <2>1, <2>2, <2>3 DEF MoveOf, Moves, SameBalances
  <2>5. call[c].op # "withdraw"
    BY <1>1, <2>2, <2>3 DEF MoveOf, Moves, WithdrawReady
  <2>6. call[c].op = "transfer"
    BY <2>2, <2>4, <2>5 DEF MoveOf, Moves
  <2>7. QED BY <2>2, <2>3, <2>6 DEF MoveOf
<1>2. Step =>
       (\A w \in Wallets :
            /\ ~DecryptsU32(acct[w].available)
            /\ acct'[w].available < acct[w].available
            => \E c \in landed' \ landed : call[c].op = "transfer" /\ Sender(c) = w)
  BY <1>1
<1>3. QED BY <1>2, PTL DEF OnlyMoves, AboveBoundOnlyTransferDebits

LEMMA PendingHiOfMoves == OnlyMoves => PendingHiStuck
<1>1. ASSUME Step, NEW w \in Wallets,
             ~DecryptsU32(acct[w].pending_hi), acct'[w].pending_hi < acct[w].pending_hi
      PROVE  \E c \in landed' \ landed :
                call[c].op = "apply" /\ Sender(c) = w /\ DecryptsU32(snap[c].pending_hi)
  <2>1. acct[w].pending_hi \in Nat /\ acct'[w].pending_hi \in Nat
    BY <1>1 DEF Step, IInv, AcctOK, Account
  <2>2. PICK c \in Calls : MoveOf(c)
    BY <1>1, <2>1 DEF Step, Still
  <2>3. Sender(c) = w
    BY <1>1, <2>1, <2>2, OthersOnlyGain DEF Step
  <2>4. call[c].op = "apply"
    BY <1>1, <2>1, <2>2, <2>3 DEF MoveOf, Moves, SameBalances
  <2>5. DecryptsU32(snap[c].pending_hi)
    BY <2>2, <2>4 DEF MoveOf, Moves, ApplyReady
  <2>6. QED BY <2>2, <2>3, <2>4, <2>5 DEF MoveOf
<1>2. Step =>
       (\A w \in Wallets :
            /\ ~DecryptsU32(acct[w].pending_hi)
            /\ acct'[w].pending_hi < acct[w].pending_hi
            => \E c \in landed' \ landed :
                  call[c].op = "apply" /\ Sender(c) = w /\ DecryptsU32(snap[c].pending_hi))
  BY <1>1
<1>3. QED BY <1>2, PTL DEF OnlyMoves, PendingHiStuck

LEMMA WedgedOfMoves == OnlyMoves => WedgedStays
<1>1. ASSUME Step, NEW w \in Wallets, Wedged(acct[w]), ~Wedged(acct'[w])
      PROVE  \E c \in landed' \ landed :
                call[c].op \in {"apply", "transfer"} /\ Sender(c) = w /\ ~Wedged(snap[c])
  <2>1. PICK c \in Calls : MoveOf(c)
    BY <1>1 DEF Step, Still, Wedged, Synced
  <2>2. Sender(c) = w
    BY <1>1, <2>1, OthersOnlyGain DEF Step, Wedged, Synced
  <2>3. call[c].op \notin {"configure", "deposit"}
    BY <1>1, <2>1, <2>2 DEF MoveOf, Moves, SameBalances, Wedged, Synced
  <2>4. call[c].op # "withdraw"
    BY <1>1, <2>1, <2>2 DEF MoveOf, Moves, WithdrawReady, Wedged
  <2>5. call[c].op \in {"apply", "transfer"}
    BY <2>1, <2>3, <2>4 DEF MoveOf, Moves
  <2>6. ~Wedged(snap[c])
    BY <2>1, <2>5 DEF MoveOf, Moves, ApplyReady, Wedged
  <2>7. QED BY <2>1, <2>2, <2>5, <2>6 DEF MoveOf
<1>2. Step =>
       (\A w \in Wallets :
            Wedged(acct[w]) /\ ~Wedged(acct'[w]) =>
                \E c \in landed' \ landed :
                    call[c].op \in {"apply", "transfer"} /\ Sender(c) = w /\ ~Wedged(snap[c]))
  BY <1>1
<1>3. QED BY <1>2, PTL DEF OnlyMoves, WedgedStays

\* A debit that lands is taken from the balance it read, leaves the rest, and
\* stores what it leaves: no double spending.
THEOREM NoDoubleSpending == Spec => DebitsUseTheirRead
BY SpecMoves, DebitsOfMoves, PTL

\* The two forms of a balance part only in an apply that was overtaken between
\* its read and its landing.
THEOREM OnlyOvertakenAppliesDesync == Spec => OnlyOvertakenApplyDesyncs
BY SpecMoves, DesyncOfMoves, PTL

\* From 2^32 on, a balance is out of withdraw's reach.
THEOREM AboveBoundOnlyTransfers == Spec => AboveBoundOnlyTransferDebits
BY SpecMoves, AboveBoundOfMoves, PTL

\* An undecryptable pending_balance_hi is out of every later apply's reach.
THEOREM PendingHiStaysStuck == Spec => PendingHiStuck
BY SpecMoves, PendingHiOfMoves, PTL

\* A wedged account stays wedged, but for calls that read it before.
THEOREM WedgedAccountsStay == Spec => WedgedStays
BY SpecMoves, WedgedOfMoves, PTL

-----------------------------------------------------------------------------
(* Refinement: the operations implement BalanceLedger.                        *)

LEMMA InitLedger == Init => Ledger!LedgerInit
<1> SUFFICES ASSUME Init PROVE Ledger!LedgerInit
  OBVIOUS
<1>1. ASSUME NEW w \in Wallets
      PROVE  /\ acct[w].public = StartPublic[w]
             /\ acct[w].available = StartAvailable[w]
             /\ Pending(acct[w]) = 0
  <2>1. /\ acct[w].public = StartPublic[w]
        /\ acct[w].available = StartAvailable[w]
        /\ acct[w].pending_lo = 0
        /\ acct[w].pending_hi = 0
    BY DEF Init, StartAccount, Unconfigured
  <2>2. 0 + 0 * LoBase = 0
    BY LimitsAssumption
  <2>3. QED BY <2>1, <2>2 DEF Pending
<1>2. PublicBalances = StartPublic
  BY <1>1, StartAssumption DEF PublicBalances
<1>3. AvailableBalances = StartAvailable
  BY <1>1, StartAssumption DEF AvailableBalances
<1>4. PendingBalances = [w \in Wallets |-> 0]
  BY <1>1 DEF PendingBalances
<1>5. Answers = [c \in Calls |-> "none"]
  BY DEF Answers, Init
<1>6. QED
  BY <1>2, <1>3, <1>4, <1>5 DEF Init, Ledger!LedgerInit, NoRequest, Ledger!NoRequest

LEMMA MoveOfLedger ==
    ASSUME IInv, NEW c \in Calls, MoveOf(c)
    PROVE  Ledger!Move(call[c])
<1> DEFINE r == call[c]
           w == Sender(c)
<1>1. /\ w \in Wallets
      /\ r.wallet = w
      /\ r.amount \in Nat
      /\ Moves(c)
  BY DEF MoveOf, Sender
<1>2. ASSUME NEW v \in Wallets
      PROVE  /\ PublicBalances[v] = acct[v].public
             /\ PendingBalances[v] = Pending(acct[v])
             /\ AvailableBalances[v] = acct[v].available
             /\ PublicBalances'[v] = acct'[v].public
             /\ PendingBalances'[v] = Pending(acct'[v])
             /\ AvailableBalances'[v] = acct'[v].available
  BY DEF PublicBalances, PendingBalances, AvailableBalances, Pending
<1>3. ASSUME NEW v \in Wallets, v # w, r.op = "transfer" => v # r.to
      PROVE  acct'[v] = acct[v]
  BY <1>3 DEF MoveOf
<1>4. CASE r.op = "configure"
  <2>1. ASSUME NEW v \in Wallets
        PROVE  /\ acct'[v].public = acct[v].public
               /\ acct'[v].available = acct[v].available
               /\ Pending(acct'[v]) = Pending(acct[v])
    BY <1>1, <1>3, <1>4 DEF Moves, SameBalances
  <2>2. /\ PublicBalances' = PublicBalances
        /\ PendingBalances' = PendingBalances
        /\ AvailableBalances' = AvailableBalances
    BY <2>1 DEF PublicBalances, PendingBalances, AvailableBalances, Pending
  <2>3. QED BY <1>4, <2>2 DEF Ledger!Move, Ledger!Open
<1>5. CASE r.op = "deposit"
  <2>1. /\ r.amount <= acct[w].public
        /\ acct'[w].public = acct[w].public - r.amount
        /\ acct'[w].available = acct[w].available
        /\ Pending(acct'[w]) = Pending(acct[w]) + r.amount
    BY <1>1, <1>5 DEF Moves
  <2>2. /\ PublicBalances' = [PublicBalances EXCEPT ![w] = @ - r.amount]
        /\ PendingBalances' = [PendingBalances EXCEPT ![w] = @ + r.amount]
        /\ AvailableBalances' = AvailableBalances
    BY <1>1, <1>3, <1>5, <2>1 DEF PublicBalances, PendingBalances, AvailableBalances, Pending
  <2>3. acct[w].public \in Nat
    BY <1>1 DEF IInv, AcctOK, Account
  <2>4. QED BY <1>1, <1>2, <1>5, <2>1, <2>2, <2>3 DEF Ledger!Move, Ledger!Deposit
<1>6. CASE r.op = "apply"
  <2>1. /\ acct'[w].public = acct[w].public
        /\ acct'[w].available = acct[w].available + Pending(acct[w])
        /\ Pending(acct'[w]) = 0
    BY <1>1, <1>6 DEF Moves
  <2>2. /\ PublicBalances' = PublicBalances
        /\ PendingBalances' = [PendingBalances EXCEPT ![w] = 0]
        /\ AvailableBalances' = [AvailableBalances EXCEPT ![w] = @ + PendingBalances[w]]
    BY <1>1, <1>3, <1>6, <2>1 DEF PublicBalances, PendingBalances, AvailableBalances, Pending
  <2>3. QED BY <1>1, <1>6, <2>2 DEF Ledger!Move, Ledger!Apply
<1>7. CASE r.op = "withdraw"
  <2>1. /\ r.amount <= acct[w].available
        /\ acct'[w].public = acct[w].public + r.amount
        /\ acct'[w].available = acct[w].available - r.amount
        /\ Pending(acct'[w]) = Pending(acct[w])
    BY <1>1, <1>7 DEF Moves, WithdrawReady
  <2>2. /\ PublicBalances' = [PublicBalances EXCEPT ![w] = @ + r.amount]
        /\ PendingBalances' = PendingBalances
        /\ AvailableBalances' = [AvailableBalances EXCEPT ![w] = @ - r.amount]
    BY <1>1, <1>3, <1>7, <2>1 DEF PublicBalances, PendingBalances, AvailableBalances, Pending
  <2>3. acct[w].available \in Nat
    BY <1>1, BalancesType
  <2>4. QED BY <1>1, <1>2, <1>7, <2>1, <2>2, <2>3 DEF Ledger!Move, Ledger!Withdraw
<1>8. CASE r.op = "transfer"
  <2>1. /\ r.amount <= acct[w].available
        /\ acct'[w].public = acct[w].public
        /\ acct'[w].available = acct[w].available - r.amount
        /\ Pending(acct'[w]) = Pending(acct[w])
    BY <1>1, <1>8 DEF Moves, Synced
  <2>2. /\ r.to # w
        /\ acct'[r.to].public = acct[r.to].public
        /\ acct'[r.to].available = acct[r.to].available
        /\ Pending(acct'[r.to]) = Pending(acct[r.to]) + r.amount
    BY <1>8 DEF MoveOf, Credits
  <2>3. /\ PublicBalances' = PublicBalances
        /\ PendingBalances' = [PendingBalances EXCEPT ![r.to] = @ + r.amount]
        /\ AvailableBalances' = [AvailableBalances EXCEPT ![w] = @ - r.amount]
    BY <1>1, <1>3, <1>8, <2>1, <2>2 DEF PublicBalances, PendingBalances, AvailableBalances, Pending
  <2>4. acct[w].available \in Nat
    BY <1>1, BalancesType
  <2>5. QED BY <1>1, <1>2, <1>8, <2>1, <2>3, <2>4 DEF Ledger!Move, Ledger!Transfer
<1>9. QED BY <1>1, <1>4, <1>5, <1>6, <1>7, <1>8 DEF Moves

\* What a landing is to the ledger.
LEMMA LandLedger ==
    ASSUME IInv, NEW c \in Calls, Active(c), Land(c), call' = call
    PROVE  /\ call[c] # Ledger!NoRequest
           /\ \/ UNCHANGED <<PublicBalances, PendingBalances, AvailableBalances, landed>>
              \/ /\ c \notin landed
                 /\ Ledger!Move(call[c])
                 /\ landed' = landed \cup {c}
<1>1. call[c].op \in Ops
  BY ActiveCall
<1>2. call[c] # Ledger!NoRequest
  BY <1>1 DEF Ops, Ledger!NoRequest
<1>3. CASE acct' = acct /\ landed' = landed
  BY <1>2, <1>3 DEF PublicBalances, PendingBalances, AvailableBalances
<1>4. CASE ~(acct' = acct /\ landed' = landed)
  <2>1. c \notin landed /\ landed' = landed \cup {c} /\ MoveOf(c)
    BY <1>4, LandMoves, ActiveCall DEF MoveOf
  <2>2. QED BY <1>2, <2>1, MoveOfLedger
<1>5. QED BY <1>3, <1>4

\* What each action of a call is to the ledger.
LEMMA InvokeLedger ==
    ASSUME IInv, NEW c \in Calls, NEW r, Invoke(c, r)
    PROVE  Ledger!Ask(c, r)
<1>1. /\ status[c] = "idle"
      /\ call' = [call EXCEPT ![c] = r]
      /\ status' = [status EXCEPT ![c] = IF Ready(r) THEN "running" ELSE "err"]
      /\ acct' = acct /\ landed' = landed
  BY DEF Invoke
<1>2. call[c] = Ledger!NoRequest
  BY <1>1 DEF IInv, CallOK, Untouched, NoRequest, Ledger!NoRequest
<1>3. Answers' \in {Answers, [Answers EXCEPT ![c] = "err"]}
  <2>1. status \in [Calls -> {"idle", "running", "ok", "err"}]
    BY DEF IInv, TypeOK
  <2>2. CASE Ready(r)
    <3>1. status' = [status EXCEPT ![c] = "running"]
      BY <1>1, <2>2
    <3>2. Answers' = Answers
      BY <1>1, <2>1, <3>1 DEF Answers
    <3>3. QED BY <3>2
  <2>3. CASE ~Ready(r)
    <3>1. status' = [status EXCEPT ![c] = "err"]
      BY <1>1, <2>3
    <3>2. Answers' = [Answers EXCEPT ![c] = "err"]
      BY <1>1, <2>1, <3>1 DEF Answers
    <3>3. QED BY <3>2
  <2>4. QED BY <2>2, <2>3
<1>4. UNCHANGED <<PublicBalances, PendingBalances, AvailableBalances>>
  BY <1>1 DEF PublicBalances, PendingBalances, AvailableBalances
<1>5. QED BY <1>1, <1>2, <1>3, <1>4 DEF Ledger!Ask

LEMMA ConfirmLedger ==
    ASSUME IInv, NEW c \in Calls, Confirm(c)
    PROVE  Ledger!Settle(c) \/ Ledger!Answer(c) \/ UNCHANGED Ledger!ledgerVars
<1>1. /\ Active(c) /\ Land(c) /\ call' = call
      /\ status[c] = "running"
      /\ status' \in {status, [status EXCEPT ![c] = "ok"]}
  BY DEF Confirm, Active, IInv, TypeOK
<1>2. /\ call[c] # Ledger!NoRequest
      /\ \/ UNCHANGED <<PublicBalances, PendingBalances, AvailableBalances, landed>>
         \/ /\ c \notin landed
            /\ Ledger!Move(call[c])
            /\ landed' = landed \cup {c}
  BY <1>1, LandLedger
<1>3. status \in [Calls -> {"idle", "running", "ok", "err"}]
  BY DEF IInv, TypeOK
<1>4. Answers[c] = "none"
  BY <1>1 DEF Answers
<1>5. CASE status' = status
  <2>1. Answers' = Answers
    BY <1>5 DEF Answers
  <2>2. QED BY <1>1, <1>2, <2>1 DEF Ledger!Settle, Ledger!ledgerVars
<1>6. CASE status' = [status EXCEPT ![c] = "ok"]
  <2>1. Answers' = [Answers EXCEPT ![c] = "ok"]
    BY <1>3, <1>6 DEF Answers
  <2>2. c \in landed'
    <3>1. status'[c] = "ok"
      BY <1>3, <1>6
    <3>2. IInv'
      BY ConfirmKeepsIInv
    <3>3. QED BY <3>1, <3>2 DEF IInv, CallOK
  <2>3. QED BY <1>1, <1>2, <1>4, <2>1, <2>2 DEF Ledger!Settle, Ledger!Answer
<1>7. QED BY <1>1, <1>5, <1>6

LEMMA GivingUpLedger ==
    ASSUME IInv, NEW c \in Calls, Fail(c) \/ Timeout(c)
    PROVE  Ledger!Answer(c)
<1>1. /\ status[c] = "running"
      /\ status' = [status EXCEPT ![c] = "err"]
      /\ acct' = acct /\ landed' = landed /\ call' = call
      /\ Active(c)
  BY DEF Fail, Timeout, Active
<1>2. call[c] # Ledger!NoRequest
  BY <1>1, ActiveCall DEF Ops, Ledger!NoRequest
<1>3. status \in [Calls -> {"idle", "running", "ok", "err"}]
  BY DEF IInv, TypeOK
<1>4. Answers[c] = "none" /\ Answers' = [Answers EXCEPT ![c] = "err"]
  BY <1>1, <1>3 DEF Answers
<1>5. UNCHANGED <<PublicBalances, PendingBalances, AvailableBalances>>
  BY <1>1 DEF PublicBalances, PendingBalances, AvailableBalances
<1>6. QED BY <1>1, <1>2, <1>4, <1>5 DEF Ledger!Answer

LEMMA LandLateLedger ==
    ASSUME IInv, NEW c \in Calls, LandLate(c)
    PROVE  Ledger!Settle(c) \/ UNCHANGED Ledger!ledgerVars
<1>1. Active(c) /\ Land(c) /\ call' = call /\ status' = status
  BY DEF LandLate, Active
<1>2. Answers' = Answers
  BY <1>1 DEF Answers
<1>3. QED BY <1>1, <1>2, LandLedger DEF Ledger!Settle, Ledger!ledgerVars

LEMMA QuietLedger ==
    ASSUME UNCHANGED <<acct, landed, call, status>>
    PROVE  UNCHANGED Ledger!ledgerVars
BY DEF PublicBalances, PendingBalances, AvailableBalances, Answers, Ledger!ledgerVars

LEMMA StepLedger ==
    ASSUME IInv, [Next]_vars
    PROVE  [Ledger!LedgerNext]_(Ledger!ledgerVars)
<1>1. CASE UNCHANGED vars
  BY <1>1, QuietLedger DEF vars
<1>2. CASE Next
  <2>1. PICK c \in Calls : \/ \E r \in Menu : Invoke(c, r)
                           \/ Confirm(c)
                           \/ Fail(c) \/ Timeout(c)
                           \/ LandLate(c)
                           \/ Expire(c)
    BY <1>2 DEF Next
  <2>2. CASE Expire(c)
    BY <2>2, QuietLedger DEF Expire
  <2>3. QED BY <2>1, <2>2, InvokeLedger, ConfirmLedger, GivingUpLedger, LandLateLedger
           DEF Ledger!LedgerNext
<1>3. QED BY <1>1, <1>2

\* The five operations, with their snapshots, proofs, lost confirmations and
\* late transactions, implement the ledger: amounts move at once and in full,
\* once per call at most, never below zero, and Ok is answered after the move.
THEOREM Refinement == Spec => ImplementsLedger
<1>1. Init => Ledger!LedgerInit
  BY InitLedger
<1>2. IInv /\ [Next]_vars => [Ledger!LedgerNext]_(Ledger!ledgerVars)
  BY StepLedger
<1>3. QED BY <1>1, <1>2, Invariant, PTL DEF Spec, ImplementsLedger, Ledger!LedgerSpec
=============================================================================
