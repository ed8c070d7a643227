-------------------------- MODULE DemoServerProofs --------------------------
(* Proofs about DemoServer, for any number of requests, any bodies, any start *)
(* and any target. The library calls of the handlers keep the invariant of    *)
(* BalanceOpsProofs; on top of it, where a handler can be, which calls it has *)
(* made and what is there by then. FundingProofs and LogProofs go on from     *)
(* here.                                                                      *)
EXTENDS DemoServer, BalanceOpsProofs

-----------------------------------------------------------------------------
\* How far a handler has got.

\* The places of the handlers.
PlaceOK(r) ==
    LET at == job[r].at
        kind == job[r].kind
    IN  /\ at = "idle" => kind = "none"
        /\ at \in {"mint", "create_mint", "ensure", "create_ata", "configure",
                   "fund", "mint_to", "deposit"} => kind = "init"
        /\ at = "check" => kind \in {"transfer", "apply"}
        /\ at = "preview" => kind = "apply"
        /\ at = "transfer" => kind = "transfer"
        /\ at = "apply" => kind \in {"init", "apply"}
        /\ at = "log" => kind \in {"init", "transfer", "apply"}
        /\ kind = "transfer" => job[r].wallet = SenderWallet
        /\ at \in {"mint", "create_mint", "fund", "mint_to", "deposit"}
               => job[r].wallet = SenderWallet
        /\ at = "apply" /\ kind = "init" => job[r].wallet = SenderWallet

\* The library calls of r: those up to lib have been made, and only the last of
\* them can be running.
CallsOf(r) ==
    \A k \in 1..4 :
        /\ k > job[r].lib <=> status[<<r, k>>] = "idle"
        /\ status[<<r, k>>] = "running" =>
               k = job[r].lib /\ job[r].at \in LibOps /\ call[<<r, k>>] = LibRequest(job[r])

\* How many calls have returned, and how many can have.
Returned(r) == IF job[r].at \in LibOps /\ Awaiting(r) THEN job[r].lib - 1 ELSE job[r].lib

Most(r) ==
    CASE job[r].at \in {"idle", "mint", "create_mint", "check", "preview", "transfer"} -> 0
      [] job[r].at \in {"ensure", "create_ata", "configure"} ->
             IF job[r].wallet = SenderWallet THEN 0 ELSE 1
      [] job[r].at \in {"fund", "mint_to", "deposit"} -> 2
      [] job[r].at = "apply" -> 3
      [] OTHER -> 4

CountOK(r) ==
    /\ Returned(r) <= Most(r)
    /\ job[r].at = "apply" /\ job[r].kind = "init" => Returned(r) >= 1
    /\ job[r].at = "log" => job[r].lib >= (IF job[r].kind = "init" THEN 2 ELSE 1)

\* What is there by then.
ThereOK(r) ==
    /\ job[r].at \in {"ensure", "create_ata", "preview"} \cup LibOps => mint # "none"
    /\ job[r].at = "configure" => job[r].wallet \in ata
    /\ job[r].at \in {"ensure", "create_ata", "configure"} /\ job[r].wallet # SenderWallet
           => AtaConfigured(SenderWallet)
    /\ job[r].at \in {"fund", "mint_to", "preview", "deposit", "apply", "transfer"}
           => \A w \in Wallets : AtaConfigured(w)
    /\ job[r].at \in {"fund", "mint_to"} => mint # "none"

JobOK(r) == PlaceOK(r) /\ CallsOf(r) /\ CountOK(r) /\ ThereOK(r)

\* The calls are those of the handlers: there is no withdrawal, and transfers go
\* one way.
Served(c) ==
    call[c] # NoRequest =>
        /\ call[c].op \in LibOps
        /\ call[c].op = "transfer" => Sender(c) = SenderWallet /\ call[c].to = ReceiverWallet

SInv ==
    /\ IInv
    /\ ServerTypeOK
    /\ \A w \in Wallets : AtaConfigured(w) => w \in ata
    /\ CallsOnExistingAccounts
    /\ \A c \in Calls : Served(c)
    /\ \A r \in Requests : JobOK(r)

\* Nothing that is there goes away.
Grows ==
    /\ mint # "none" => mint' # "none"
    /\ ata \subseteq ata'
    /\ \A w \in Wallets : acct[w].configured => acct'[w].configured

-----------------------------------------------------------------------------
\* The steps of the chain and of the library.

LEMMA WalletFacts ==
    /\ SenderWallet \in Wallets /\ ReceiverWallet \in Wallets
    /\ SenderWallet # ReceiverWallet
    /\ \A w \in Wallets : w = SenderWallet \/ w = ReceiverWallet
    /\ \A r \in Requests, k \in 1..4 : <<r, k>> \in Calls
    /\ \A c \in Calls : c[1] \in Requests /\ c[2] \in 1..4 /\ c = <<c[1], c[2]>>
BY ServerAssumption

\* An account that is given public tokens is as sound as before.
LEMMA MintSound ==
    ASSUME NEW a, Sound(a), NEW amount \in Nat
    PROVE  Sound([a EXCEPT !.public = @ + amount])
BY DEF Sound, Account, CreditsCounted

LEMMA OwnTxKeepsIInv ==
    ASSUME IInv, NEW j \in Job, NEW tx, OwnTx(j, tx)
    PROVE  IInv'
<1>1. /\ ctx' = ctx /\ landed' = landed /\ call' = call /\ status' = status
      /\ done' = done /\ snap' = snap /\ flight' = flight
  BY DEF OwnTx, clientVars
<1>2. AcctOK'
  <2>1. CASE acct' = acct
    BY <2>1 DEF IInv, AcctOK
  <2>2. CASE MintTo(j.extra)
    <3> DEFINE b == [acct[SenderWallet] EXCEPT !.public = @ + j.extra]
    <3>1. j.extra \in Nat /\ Sound(acct[SenderWallet])
      BY WalletFacts DEF Job, IInv, AcctOK
    <3>2. Sound(b)
      BY <3>1, MintSound
    <3>3. acct' = [acct EXCEPT ![SenderWallet] = b]
      BY <2>2 DEF MintTo
    <3> HIDE DEF b
    <3>4. QED BY <3>2, <3>3, WalletFacts, AccountUpdated DEF IInv
  <2>3. QED BY <2>1, <2>2 DEF OwnTx, CreateMint, CreateAta
<1>3. TypeOK'
  BY <1>1, <1>2 DEF IInv, TypeOK, AcctOK
<1>4. \A c \in Calls : CallOK(c)'
  BY <1>1, CallUndisturbed DEF IInv
<1>5. QED BY <1>2, <1>3, <1>4 DEF IInv

LEMMA RestartKeepsIInv ==
    ASSUME IInv, Restart
    PROVE  IInv'
<1>1. /\ acct' = acct /\ ctx' = ctx /\ landed' = landed /\ call' = call
      /\ done' = done /\ snap' = snap
  BY DEF Restart
<1>2. PICK sent \in SUBSET Requests :
        /\ status' = [c \in Calls |-> IF status[c] = "running" THEN "err" ELSE status[c]]
        /\ flight' = [c \in Calls |-> flight[c] \/ (status[c] = "running" /\ c[1] \in sent)]
  BY DEF Restart
<1>3. TypeOK /\ AcctOK /\ \A c \in Calls : CallOK(c)
  BY DEF IInv
<1>4. flight' \in [Calls -> BOOLEAN]
  <2>1. \A c \in Calls : (flight[c] \/ (status[c] = "running" /\ c[1] \in sent)) \in BOOLEAN
    BY <1>3 DEF TypeOK
  <2>2. QED BY <1>2, <2>1
<1>5. TypeOK' /\ AcctOK'
  BY <1>1, <1>2, <1>3, <1>4 DEF TypeOK, AcctOK
<1>6. ASSUME NEW c \in Calls PROVE CallOK(c)'
  <2>1. /\ status'[c] = IF status[c] = "running" THEN "err" ELSE status[c]
        /\ flight'[c] <=> flight[c] \/ (status[c] = "running" /\ c[1] \in sent)
    BY <1>2
  <2>2. Active(c)' => Active(c)
    BY <2>1 DEF Active
  <2>3. QED BY <1>1, <1>3, <2>1, <2>2
            DEF CallOK, Untouched, SnapshotReady, LandedAt, EqualityMeansSynced
<1>7. QED BY <1>5, <1>6 DEF IInv

\* What a landing does to the extension: configure adds it, nothing removes it.
LEMMA LandConfigures ==
    ASSUME IInv, NEW c \in Calls, Active(c), Land(c)
    PROVE  /\ \A w \in Wallets : acct[w].configured => acct'[w].configured
           /\ \A w \in Wallets : acct'[w].configured =>
                  acct[w].configured \/ w = Sender(c)
           /\ call[c].op = "configure" => acct'[Sender(c)].configured
<1> DEFINE w == Sender(c)
           to == call[c].to
<1>1. /\ acct \in [Wallets -> Account(Calls)]
      /\ w \in Wallets /\ to \in Wallets
      /\ acct[w] \in Account(Calls) /\ acct[to] \in Account(Calls)
      /\ call[c] \in Request
      /\ call[c].op \in Ops
      /\ done[c] \in 0..5 /\ done[c] < Len(Script[call[c].op])
      /\ call[c].op = "transfer" => to # w
      /\ NextTx(c) \in Ops => NextTx(c) = call[c].op
  BY ActiveCall DEF IInv, AcctOK, CallOK, TypeOK
<1>2. call[c].op = "configure" => NextTx(c) = "configure"
  BY <1>1 DEF NextTx, Script
<1> HIDE DEF w, to
<1>3. CASE LandConfigure(c)
  <2>1. acct' = [acct EXCEPT ![w] = ConfigureAccount(acct[w])]
    BY <1>3 DEF LandConfigure, w
  <2>2. ConfigureAccount(acct[w]).configured
    BY <1>1 DEF ConfigureAccount, Account
  <2>3. QED BY <1>1, <2>1, <2>2 DEF w
<1>4. CASE NextTx(c) # "configure"
  <2> DEFINE Same(b) == b.configured = acct[w].configured
  <2>1. CASE acct' = acct
    BY <1>2, <1>4, <2>1
  <2>2. ASSUME NEW b, b.configured = acct[w].configured, acct' = [acct EXCEPT ![w] = b]
        PROVE  \A v \in Wallets : acct'[v].configured = acct[v].configured
    BY <1>1, <2>2
  <2>3. CASE LandDeposit(c)
    <3> DEFINE b == Deposit(acct[w], call[c].amount)
    <3>1. acct' = [acct EXCEPT ![w] = b]
      BY <2>3 DEF LandDeposit, w
    <3>2. b.configured = acct[w].configured
      BY <1>1 DEF Deposit, Credit, Account
    <3> HIDE DEF b
    <3>3. QED BY <1>2, <1>4, <2>2, <3>1, <3>2
  <2>4. CASE LandApply(c)
    <3> DEFINE b == ApplyPendingBalance(acct[w], snap[c].credit_counter, AppliedBalance(snap[c]))
    <3>1. acct' = [acct EXCEPT ![w] = b]
      BY <2>4 DEF LandApply, w
    <3>2. b.configured = acct[w].configured
      BY <1>1 DEF ApplyPendingBalance, Account
    <3> HIDE DEF b
    <3>3. QED BY <1>2, <1>4, <2>2, <3>1, <3>2
  <2>5. CASE LandWithdraw(c)
    <3> DEFINE b == Withdraw(acct[w], call[c].amount, snap[c].available - call[c].amount)
    <3>1. acct' = [acct EXCEPT ![w] = b]
      BY <2>5 DEF LandWithdraw, w
    <3>2. b.configured = acct[w].configured
      BY <1>1 DEF Withdraw, Account
    <3> HIDE DEF b
    <3>3. QED BY <1>2, <1>4, <2>2, <3>1, <3>2
  <2>6. CASE LandTransfer(c)
    <3> DEFINE b == DebitTransfer(acct[w], call[c].amount, {c},
                                  snap[c].decryptable_available - call[c].amount)
               d == Credit(acct[to], call[c].amount, {c})
    <3>1. acct' = [acct EXCEPT ![w] = b, ![to] = Credit(@, call[c].amount, {c})]
      BY <2>6 DEF LandTransfer, w, to
    <3>2. b.configured = acct[w].configured /\ d.configured = acct[to].configured
      BY <1>1 DEF DebitTransfer, Credit, Account
    <3>3. to # w
      BY <1>1, <2>6 DEF LandTransfer, Ops
    <3>4. acct' = [[acct EXCEPT ![w] = b] EXCEPT ![to] = d]
      BY <1>1, <3>1, <3>3
    <3> HIDE DEF b, d
    <3>5. \A v \in Wallets : acct'[v].configured = acct[v].configured
      BY <1>1, <3>2, <3>3, <3>4
    <3>6. QED BY <1>2, <1>4, <3>5
  <2>7. CASE LandEquality(c) \/ LandValidity(c) \/ LandRecord(c) \/ LandRange(c) \/ LandClose(c)
    <3>1. acct' = acct
      BY <2>7 DEF LandEquality, LandValidity, LandRecord, LandRange, LandClose
    <3>2. QED BY <2>1, <3>1
  <2>8. QED BY <1>4, <2>3, <2>4, <2>5, <2>6, <2>7 DEF Land, LandConfigure
<1>5. CASE NextTx(c) = "configure"
  <2>1. LandConfigure(c)
    BY <1>5 DEF Land, LandDeposit, LandApply, LandEquality, LandValidity, LandRecord,
                LandRange, LandWithdraw, LandClose, LandTransfer
  <2>2. QED BY <1>3, <2>1
<1>6. QED BY <1>4, <1>5

LEMMA InitSInv == ServerInit => SInv
<1> SUFFICES ASSUME ServerInit PROVE SInv
  OBVIOUS
<1>1. Init /\ IInv
  BY InitIInv DEF ServerInit
<1>2. NoJob \in Job
  BY WalletFacts DEF NoJob, Job, Unconfigured, Account, OwnTxs
<1>3. /\ job = [r \in Requests |-> NoJob] /\ events = <<>>
      /\ ata = StartConfigured /\ mint \in StartMints
  BY DEF ServerInit
<1>4. ServerTypeOK
  BY <1>1, <1>2, <1>3, ServerAssumption, StartAssumption DEF ServerTypeOK, IInv
<1>5. \A w \in Wallets : AtaConfigured(w) => w \in ata
  BY <1>1, <1>3 DEF Init, StartAccount, Unconfigured, AtaConfigured
<1>6. \A c \in Calls : call[c] = NoRequest /\ status[c] = "idle"
  BY <1>1 DEF Init
<1>7. ASSUME NEW r \in Requests PROVE JobOK(r)
  <2>1. job[r].at = "idle" /\ job[r].kind = "none" /\ job[r].lib = 0
    BY <1>3 DEF NoJob
  <2>2. PlaceOK(r) /\ ThereOK(r)
    BY <2>1 DEF PlaceOK, ThereOK, LibOps
  <2>3. CallsOf(r)
    <3> SUFFICES ASSUME NEW k \in 1..4 PROVE k > job[r].lib /\ status[<<r, k>>] = "idle"
      BY DEF CallsOf
    <3>1. <<r, k>> \in Calls
      BY WalletFacts
    <3>2. QED BY <1>6, <2>1, <3>1
  <2>4. CountOK(r)
    BY <2>1 DEF CountOK, Returned, Most, LibOps
  <2>5. QED BY <2>2, <2>3, <2>4 DEF JobOK
<1>8. CallsOnExistingAccounts /\ \A c \in Calls : Served(c)
  BY <1>6 DEF CallsOnExistingAccounts, Served
<1>9. QED BY <1>1, <1>4, <1>5, <1>7, <1>8 DEF SInv

-----------------------------------------------------------------------------
\* A request that has no part in the step.

\* Its calls are as they were, and so is its place. Only what it has sent and
\* has seen may differ.
Spectator(q) ==
    /\ job'[q].kind = job[q].kind /\ job'[q].at = job[q].at /\ job'[q].wallet = job[q].wallet
    /\ job'[q].amount = job[q].amount /\ job'[q].lib = job[q].lib
    /\ \A k \in 1..4 : status'[<<q, k>>] = status[<<q, k>>] /\ call'[<<q, k>>] = call[<<q, k>>]

LEMMA SpectatorKept ==
    ASSUME SInv, Grows, NEW q \in Requests, Spectator(q)
    PROVE  JobOK(q)'
<1>1. JobOK(q) /\ job[q] \in Job
  BY DEF SInv, ServerTypeOK
<1>2. PlaceOK(q)'
  BY <1>1 DEF JobOK, PlaceOK, Spectator
<1>3. CallsOf(q)'
  <2> SUFFICES ASSUME NEW k \in 1..4
      PROVE  /\ k > job'[q].lib <=> status'[<<q, k>>] = "idle"
             /\ status'[<<q, k>>] = "running" =>
                    k = job'[q].lib /\ job'[q].at \in LibOps /\ call'[<<q, k>>] = LibRequest(job[q])
    BY DEF CallsOf, Spectator, LibRequest
  <2>1. QED BY <1>1 DEF JobOK, CallsOf, Spectator
<1>4. job[q].lib > 0 => status'[<<q, job[q].lib>>] = status[<<q, job[q].lib>>]
  BY <1>1 DEF Spectator, Job
<1>5. CountOK(q)'
  <2>1. Returned(q)' = Returned(q)
    BY <1>4 DEF Returned, Awaiting, Latest, Spectator
  <2>2. Most(q)' = Most(q)
    BY DEF Most, Spectator
  <2>3. QED BY <1>1, <2>1, <2>2 DEF JobOK, CountOK, Spectator
<1>6. ThereOK(q)'
  <2>1. ThereOK(q) /\ job'[q].at = job[q].at /\ job'[q].wallet = job[q].wallet
    BY <1>1 DEF JobOK, Spectator
  <2>2. /\ mint # "none" => mint' # "none"
        /\ job[q].wallet \in ata => job[q].wallet \in ata'
        /\ \A w \in Wallets : AtaConfigured(w) => AtaConfigured(w)'
    BY DEF Grows, AtaConfigured
  <2>3. AtaConfigured(SenderWallet) => AtaConfigured(SenderWallet)'
    BY <2>2, WalletFacts
  <2>4. (\A w \in Wallets : AtaConfigured(w)) => (\A w \in Wallets : AtaConfigured(w))'
    BY <2>2
  <2>5. QED BY <2>1, <2>2, <2>3, <2>4 DEF ThereOK
<1>7. QED BY <1>2, <1>3, <1>5, <1>6 DEF JobOK

\* What holds of all calls is kept by a step that starts none.
LEMMA CallsKept ==
    ASSUME SInv, Grows, call' = call
    PROVE  CallsOnExistingAccounts' /\ \A c \in Calls : Served(c)'
<1>1. \A c \in Calls : Served(c)'
  BY DEF SInv, Served, Sender
<1>2. CallsOnExistingAccounts'
  BY WalletFacts DEF SInv, CallsOnExistingAccounts, Sender, Grows, AtaConfigured
<1>3. QED BY <1>1, <1>2

-----------------------------------------------------------------------------
\* The steps of a handler that leave the chain and the library alone.

\* r is not in a library call, and nothing but its job changes.
Quietly(r) ==
    /\ UNCHANGED <<vars, mint, ata>>
    /\ job[r].at \notin LibOps
    /\ \E j \in Job : job' = [job EXCEPT ![r] = j] /\ j.lib = job[r].lib

\* What is left to show of such a step.
LEMMA QuietStep ==
    ASSUME SInv, NEW r \in Requests, Quietly(r),
           events' \in Seq(LogEntry), Len(events') <= Keep,
           PlaceOK(r)', ThereOK(r)',
           job[r].lib <= Most(r)',
           job'[r].at = "apply" /\ job'[r].kind = "init" => job[r].lib >= 1,
           job'[r].at = "log" => job[r].lib >= (IF job'[r].kind = "init" THEN 2 ELSE 1)
    PROVE  SInv'
<1>1. /\ acct' = acct /\ ctx' = ctx /\ landed' = landed /\ call' = call /\ status' = status
      /\ done' = done /\ snap' = snap /\ flight' = flight /\ mint' = mint /\ ata' = ata
  BY DEF Quietly, vars
<1>2. PICK j \in Job : job' = [job EXCEPT ![r] = j] /\ j.lib = job[r].lib
  BY DEF Quietly
<1>3. job \in [Requests -> Job] /\ JobOK(r) /\ job[r].at \notin LibOps
  BY DEF SInv, ServerTypeOK, Quietly
<1>4. job'[r] = j /\ job'[r].lib = job[r].lib /\ \A q \in Requests : q # r => job'[q] = job[q]
  BY <1>2, <1>3
<1>5. Grows
  BY <1>1 DEF Grows
<1>6. IInv'
  <2>1. TypeOK' /\ AcctOK'
    BY <1>1 DEF SInv, IInv, TypeOK, AcctOK
  <2>2. \A c \in Calls : CallOK(c)'
    BY <1>1, CallUndisturbed DEF SInv, IInv
  <2>3. QED BY <2>1, <2>2 DEF IInv
<1>7. ServerTypeOK'
  <2>1. job' \in [Requests -> Job]
    BY <1>2, <1>3
  <2>2. QED BY <1>1, <1>6, <2>1 DEF SInv, ServerTypeOK, IInv
<1>8. JobOK(r)'
  <2>1. \A k \in 1..4 : status[<<r, k>>] # "running"
    BY <1>3 DEF JobOK, CallsOf
  <2>2. CallsOf(r)'
    BY <1>1, <1>3, <1>4, <2>1 DEF JobOK, CallsOf
  <2>3. Returned(r)' = job[r].lib
    <3>1. job[r].lib \in 0..4
      BY <1>3 DEF Job
    <3>2. job[r].lib > 0 => status[<<r, job[r].lib>>] # "running"
      <4> DEFINE k == job[r].lib
      <4>1. k \in 0..4 /\ (k > 0 => k \in 1..4)
        BY <3>1
      <4> HIDE DEF k
      <4>2. k > 0 => status[<<r, k>>] # "running"
        BY <2>1, <4>1
      <4>3. QED BY <4>2 DEF k
    <3>3. QED BY <1>1, <1>4, <3>2 DEF Returned, Awaiting, Latest
  <2>4. CountOK(r)'
    BY <1>4, <2>3 DEF CountOK
  <2>5. QED BY <2>2, <2>4 DEF JobOK
<1>9. \A q \in Requests : JobOK(q)'
  BY <1>1, <1>4, <1>5, <1>8, SpectatorKept DEF Spectator
<1>10. CallsOnExistingAccounts' /\ \A c \in Calls : Served(c)'
  BY <1>1, <1>5, CallsKept
<1>11. (\A w \in Wallets : AtaConfigured(w) => w \in ata)'
  BY <1>1 DEF SInv, AtaConfigured
<1>12. QED BY <1>6, <1>7, <1>9, <1>10, <1>11 DEF SInv

\* The places, told apart.
LEMMA Places ==
    ASSUME SInv, NEW r \in Requests
    PROVE  /\ job \in [Requests -> Job]
           /\ job[r] \in Job
           /\ job[r].wallet \in Wallets /\ job[r].amount \in Nat /\ job[r].extra \in Nat
           /\ job[r].lib \in 0..4
           /\ job[r].seen \in [{"sender", "receiver"} -> Account(Calls)]
           /\ PlaceOK(r) /\ CallsOf(r) /\ CountOK(r) /\ ThereOK(r)
           /\ job[r].at \notin LibOps => Returned(r) = job[r].lib
           /\ events \in Seq(LogEntry) /\ Len(events) <= Keep
BY DEF SInv, ServerTypeOK, Job, JobOK, Returned

LEMMA ReceiveKeepsSInv ==
    ASSUME SInv, NEW r \in Requests, NEW b \in Bodies, Receive(r, b)
    PROVE  SInv'
<1> DEFINE j == [NoJob EXCEPT !.kind = b.kind, !.wallet = b.wallet, !.amount = b.amount,
                              !.at = Entry[b.kind]]
<1>1. /\ job[r].at = "idle" /\ job' = [job EXCEPT ![r] = j]
      /\ UNCHANGED <<vars, mint, ata, events>>
  BY DEF Receive, At
<1>2. /\ b.kind \in {"init", "transfer", "apply", "state"}
      /\ b.wallet \in Wallets /\ b.amount \in Nat
      /\ b.kind # "apply" => b.wallet = SenderWallet
  BY ServerAssumption DEF Body
<1>3. Entry[b.kind] = (CASE b.kind = "init" -> "mint" [] b.kind = "transfer" -> "check"
                         [] b.kind = "apply" -> "check" [] b.kind = "state" -> "view_sender")
  BY <1>2 DEF Entry
<1>4. /\ j.kind = b.kind /\ j.wallet = b.wallet /\ j.at = Entry[b.kind] /\ j.lib = 0
  BY DEF NoJob
<1>5. j \in Job
  <2>1. NoJob \in Job
    BY WalletFacts DEF NoJob, Job, Unconfigured, Account, OwnTxs
  <2>2. Entry[b.kind] \in {"idle", "preview", "log"} \cup Reads \cup OwnTxs \cup LibOps \cup Ended
    BY <1>2, <1>3 DEF Reads
  <2>3. QED BY <1>2, <2>1, <2>2 DEF Job
<1>6. job[r].lib = 0
  BY <1>1, Places DEF CountOK, Most, LibOps
<1> HIDE DEF j
<1>7. job'[r] = j
  BY <1>1, Places
<1>8. Quietly(r)
  BY <1>1, <1>4, <1>5, <1>6 DEF Quietly, LibOps
<1>9. PlaceOK(r)'
  BY <1>2, <1>3, <1>4, <1>7 DEF PlaceOK
<1>10. ThereOK(r)'
  BY <1>2, <1>3, <1>4, <1>7 DEF ThereOK, LibOps
<1>11. Most(r)' \in Nat
  BY DEF Most
<1>12. j.at \notin {"apply", "log"}
  BY <1>2, <1>3, <1>4
<1>13. QED BY <1>1, <1>6, <1>7, <1>8, <1>9, <1>10, <1>11, <1>12, QuietStep, Places

\* A handler that goes to another place with the same job.
LEMMA GotoType ==
    ASSUME SInv, NEW r \in Requests, NEW place \in Reads \cup OwnTxs \cup LibOps \cup Ended
                                                   \cup {"preview", "log"},
           Goto(r, place)
    PROVE  /\ job'[r] = [job[r] EXCEPT !.at = place]
           /\ job'[r].at = place /\ job'[r].kind = job[r].kind
           /\ job'[r].wallet = job[r].wallet /\ job'[r].amount = job[r].amount
           /\ job'[r].lib = job[r].lib
           /\ \E j \in Job : job' = [job EXCEPT ![r] = j] /\ j.lib = job[r].lib
<1> DEFINE j == [job[r] EXCEPT !.at = place]
<1>1. job[r] \in Job /\ job \in [Requests -> Job]
  BY Places
<1>2. j \in Job /\ j.lib = job[r].lib /\ j.at = place /\ j.kind = job[r].kind
      /\ j.wallet = job[r].wallet /\ j.amount = job[r].amount
  BY <1>1 DEF Job
<1>3. job' = [job EXCEPT ![r] = j]
  BY DEF Goto
<1> HIDE DEF j
<1>4. job'[r] = j
  BY <1>1, <1>3
<1>5. QED BY <1>2, <1>3, <1>4 DEF j

\* Answers, errors and reads that come to nothing.
LEMMA EndsKeepSInv ==
    ASSUME SInv, NEW r \in Requests, ReadFails(r) \/ OwnFail(r) \/ CheckMint(r) \/ Check(r)
    PROVE  SInv'
<1>1. UNCHANGED <<vars, mint, ata, events>> /\ job[r].at \notin LibOps
  BY DEF ReadFails, OwnFail, CheckMint, Check, At, Reads, OwnTxs, LibOps
<1>2. mint \in {"none", "ours", "foreign"}
  BY DEF SInv, ServerTypeOK
<1>3. PICK place \in {"err", "create_mint", "ensure", "transfer", "preview"} :
        /\ Goto(r, place)
        /\ place \in {"create_mint", "ensure"} => job[r].at = "mint"
        /\ place = "ensure" => mint # "none"
        /\ place \in {"transfer", "preview"} => job[r].at = "check" /\ RequireInitialized
        /\ place = "transfer" => job[r].kind = "transfer"
        /\ place = "preview" => job[r].kind # "transfer"
  <2>1. CASE CheckMint(r)
    <3> DEFINE place == [none |-> "create_mint", ours |-> "ensure", foreign |-> "err"][mint]
    <3>1. \/ mint = "none" /\ place = "create_mint"
          \/ mint = "ours" /\ place = "ensure"
          \/ mint = "foreign" /\ place = "err"
      BY <1>2
    <3>2. Goto(r, place) /\ job[r].at = "mint"
      BY <2>1 DEF CheckMint, At
    <3> HIDE DEF place
    <3>3. QED BY <3>1, <3>2
  <2>2. CASE Check(r)
    <3> DEFINE place == IF RequireInitialized
                        THEN [transfer |-> "transfer", apply |-> "preview"][job[r].kind]
                        ELSE "err"
    <3>0. job[r].kind \in {"transfer", "apply"}
      BY <2>2, Places DEF Check, At, PlaceOK
    <3>1. \/ place = "err"
          \/ place = "transfer" /\ job[r].kind = "transfer" /\ RequireInitialized
          \/ place = "preview" /\ job[r].kind # "transfer" /\ RequireInitialized
      <4>1. CASE RequireInitialized
        BY <3>0, <4>1
      <4>2. CASE ~RequireInitialized
        BY <4>2
      <4>3. QED BY <4>1, <4>2
    <3>2. Goto(r, place) /\ job[r].at = "check"
      BY <2>2 DEF Check, At
    <3> HIDE DEF place
    <3>3. QED BY <3>1, <3>2
  <2>3. QED BY <2>1, <2>2 DEF ReadFails, OwnFail
<1>4. /\ place \in Reads \cup OwnTxs \cup LibOps \cup Ended \cup {"preview", "log"}
      /\ place \notin {"apply", "log"}
  BY <1>3 DEF Reads, OwnTxs, LibOps, Ended
<1>5. /\ job'[r].at = place /\ job'[r].kind = job[r].kind
      /\ job'[r].wallet = job[r].wallet
      /\ \E j \in Job : job' = [job EXCEPT ![r] = j] /\ j.lib = job[r].lib
  BY <1>3, <1>4, GotoType
<1>6. Quietly(r)
  BY <1>1, <1>5 DEF Quietly
<1>7. PlaceOK(r)'
  BY <1>3, <1>5, Places DEF PlaceOK
<1>8. ThereOK(r)'
  <2>1. CASE place \in {"err", "create_mint"}
    BY <1>5, <2>1 DEF ThereOK, LibOps
  <2>2. CASE place = "ensure"
    BY <1>1, <1>3, <1>5, <2>2, Places DEF ThereOK, PlaceOK, LibOps
  <2>3. CASE place \in {"transfer", "preview"}
    BY <1>1, <1>3, <1>5, <2>3 DEF ThereOK, LibOps, RequireInitialized, AtaConfigured, vars
  <2>4. QED BY <1>3, <2>1, <2>2, <2>3
<1>9. job[r].lib <= Most(r)'
  <2>1. place \in {"create_mint", "ensure", "transfer", "preview"} => job[r].lib = 0
    BY <1>3, Places DEF CountOK, Most, LibOps
  <2>2. CASE place = "err"
    BY <1>5, <2>2, Places DEF Most
  <2>3. CASE place # "err"
    BY <1>3, <1>5, <2>1, <2>3 DEF Most
  <2>4. QED BY <2>2, <2>3
<1>10. QED BY <1>1, <1>4, <1>5, <1>6, <1>7, <1>8, <1>9, QuietStep, Places

\* A job that changes in some fields only.
LEMMA JobChanged ==
    ASSUME SInv, NEW r \in Requests, NEW j \in Job, job' = [job EXCEPT ![r] = j],
           j.lib = job[r].lib
    PROVE  /\ job'[r] = j
           /\ \E i \in Job : job' = [job EXCEPT ![r] = i] /\ i.lib = job[r].lib
BY Places

LEMMA EnsureKeepsSInv ==
    ASSUME SInv, NEW r \in Requests, Ensure(r)
    PROVE  SInv'
<1>1. /\ job[r].at = "ensure" /\ UNCHANGED <<vars, mint, ata, events>>
      /\ job[r].kind = "init" /\ mint # "none"
      /\ job[r].wallet # SenderWallet => AtaConfigured(SenderWallet)
      /\ job[r].lib <= (IF job[r].wallet = SenderWallet THEN 0 ELSE 1)
  BY Places DEF Ensure, At, PlaceOK, ThereOK, CountOK, Most, LibOps
<1>2. PICK j : /\ job' = [job EXCEPT ![r] = j]
               /\ j = IF AtaConfigured(job[r].wallet) THEN AccountReady(job[r])
                      ELSE [job[r] EXCEPT !.at = "create_ata"]
  BY DEF Ensure
<1>3. /\ j \in Job /\ j.kind = "init" /\ j.lib = job[r].lib
      /\ \/ j.at = "create_ata" /\ j.wallet = job[r].wallet
         \/ /\ AtaConfigured(SenderWallet) /\ job[r].wallet = SenderWallet
            /\ j.at = "ensure" /\ j.wallet = ReceiverWallet
         \/ /\ \A w \in Wallets : AtaConfigured(w)
            /\ j.at = "fund" /\ j.wallet = SenderWallet
  <2>1. job[r] \in Job /\ job[r].wallet \in Wallets
    BY Places
  <2>2. CASE ~AtaConfigured(job[r].wallet)
    BY <1>1, <1>2, <2>1, <2>2 DEF Job, OwnTxs
  <2>3. CASE AtaConfigured(job[r].wallet) /\ job[r].wallet = SenderWallet
    <3>1. j = [job[r] EXCEPT !.wallet = ReceiverWallet, !.at = "ensure"]
      BY <1>2, <2>3 DEF AccountReady
    <3>2. QED BY <1>1, <2>1, <2>3, <3>1, WalletFacts DEF Job, Reads
  <2>4. CASE AtaConfigured(job[r].wallet) /\ job[r].wallet # SenderWallet
    <3>1. j = [job[r] EXCEPT !.wallet = SenderWallet, !.at = "fund"]
      BY <1>2, <2>4 DEF AccountReady
    <3>2. job[r].wallet = ReceiverWallet
      BY <2>1, <2>4, WalletFacts
    <3>3. \A w \in Wallets : AtaConfigured(w)
      BY <1>1, <2>4, <3>2, WalletFacts
    <3>4. QED BY <1>1, <2>1, <3>1, <3>3, WalletFacts DEF Job, Reads
  <2>5. QED BY <2>2, <2>3, <2>4
<1>4. job'[r] = j /\ Quietly(r)
  BY <1>1, <1>2, <1>3, JobChanged DEF Quietly, LibOps
<1>5. PlaceOK(r)'
  BY <1>3, <1>4 DEF PlaceOK
<1>6. ThereOK(r)'
  BY <1>1, <1>3, <1>4 DEF ThereOK, LibOps, AtaConfigured, vars
<1>7. job[r].lib <= Most(r)'
  <2>1. job[r].lib \in 0..4
    BY Places
  <2>2. QED BY <1>1, <1>3, <1>4, <2>1, WalletFacts DEF Most
<1>8. QED BY <1>1, <1>3, <1>4, <1>5, <1>6, <1>7, QuietStep, Places

LEMMA FundsType == ASSUME SInv PROVE Funds \in Nat
<1>1. \A w \in Wallets : acct[w].available \in Nat /\ Pending(acct[w]) \in Nat
  BY PendingType DEF SInv, IInv, AcctOK, Account
<1>2. QED BY <1>1, WalletFacts DEF Funds

\* The balances are those of the account.
LEMMA FundFacts ==
    ASSUME SInv, NEW r \in Requests, Fund(r)
    PROVE  /\ job[r].at = "fund" /\ job[r].kind = "init"
           /\ acct[SenderWallet].decryptable_available \in Nat /\ Target \in Nat
           /\ UNCHANGED <<vars, mint, ata, events>>
           /\ \E j \in Job :
                 /\ job' = [job EXCEPT ![r] = j]
                 /\ j.kind = "init" /\ j.wallet = SenderWallet
                 /\ j.lib = job[r].lib /\ j.seen = job[r].seen /\ j.late = job[r].late
                 /\ j.order = job[r].order /\ j.goal = FundsGoal
                 /\ \/ /\ Needed <= 0 /\ j.at = "view_sender"
                       /\ j.amount = job[r].amount
                    \/ /\ Needed > 0 /\ Needed \in Nat /\ j.amount = Needed
                       /\ j.extra = Missing(Needed, acct[SenderWallet].public)
                       /\ j.at = IF j.extra > 0 THEN "mint_to" ELSE "deposit"
<1> DEFINE view  == acct[SenderWallet]
           extra == Missing(Needed, view.public)
           place == IF extra > 0 THEN "mint_to" ELSE "deposit"
<1>1. job[r].at = "fund" /\ job[r].kind = "init" /\ job[r].wallet = SenderWallet
      /\ job \in [Requests -> Job] /\ job[r] \in Job
      /\ UNCHANGED <<vars, mint, ata, events>>
  BY Places DEF Fund, At, PlaceOK
<1>2. /\ view.decryptable_available \in Nat /\ view.public \in Nat /\ Target \in Nat
  BY WalletFacts, ServerAssumption DEF SInv, IInv, AcctOK, Account
<1>3. FundsGoal \in Nat /\ Needed \in Int
  BY <1>2, FundsType DEF FundsGoal, Needed
<1>4. CASE Needed <= 0
  <2> DEFINE j == [job[r] EXCEPT !.goal = FundsGoal, !.at = "view_sender"]
  <2>1. job' = [job EXCEPT ![r] = j]
    BY <1>1, <1>4 DEF Fund
  <2>2. /\ j \in Job /\ j.kind = job[r].kind /\ j.wallet = job[r].wallet
        /\ j.lib = job[r].lib /\ j.seen = job[r].seen /\ j.late = job[r].late
        /\ j.order = job[r].order /\ j.goal = FundsGoal /\ j.at = "view_sender"
        /\ j.amount = job[r].amount
    BY <1>1, <1>3 DEF Job, Reads
  <2> HIDE DEF j
  <2>3. QED BY <1>1, <1>2, <1>4, <2>1, <2>2
<1>5. CASE ~(Needed <= 0)
  <2> DEFINE j == [job[r] EXCEPT !.goal = FundsGoal, !.amount = Needed, !.extra = extra,
                                 !.at = place]
  <2>1. Needed > 0 /\ Needed \in Nat /\ extra \in Nat
    BY <1>2, <1>3, <1>5 DEF Missing
  <2>2. job' = [job EXCEPT ![r] = j]
    BY <1>1, <1>5 DEF Fund
  <2>3. place \in {"mint_to", "deposit"}
    OBVIOUS
  <2> HIDE DEF extra, place
  <2>4. /\ j \in Job /\ j.kind = job[r].kind /\ j.wallet = job[r].wallet
        /\ j.lib = job[r].lib /\ j.seen = job[r].seen /\ j.late = job[r].late
        /\ j.order = job[r].order /\ j.goal = FundsGoal /\ j.at = place
        /\ j.amount = Needed /\ j.extra = extra
    BY <1>1, <1>3, <2>1, <2>3 DEF Job, OwnTxs, LibOps
  <2> HIDE DEF j
  <2>5. j.extra = Missing(Needed, view.public) /\ j.at = IF j.extra > 0 THEN "mint_to" ELSE "deposit"
    BY <2>4 DEF extra, place
  <2>6. QED BY <1>1, <1>2, <2>1, <2>2, <2>4, <2>5
<1>6. QED BY <1>4, <1>5

LEMMA FundKeepsSInv ==
    ASSUME SInv, NEW r \in Requests, Fund(r)
    PROVE  SInv'
<1>1. /\ job[r].at = "fund" /\ UNCHANGED <<vars, mint, ata, events>>
      /\ mint # "none"
      /\ \A w \in Wallets : AtaConfigured(w)
      /\ job[r].lib <= 2
  BY FundFacts, Places DEF PlaceOK, ThereOK, CountOK, Most, LibOps
<1>2. PICK j \in Job :
        /\ job' = [job EXCEPT ![r] = j] /\ j.lib = job[r].lib
        /\ j.at \in {"view_sender", "mint_to", "deposit"}
        /\ j.kind = "init" /\ j.wallet = SenderWallet
  BY FundFacts
<1>3. job'[r] = j /\ Quietly(r)
  BY <1>1, <1>2, JobChanged DEF Quietly, LibOps
<1>4. PlaceOK(r)'
  BY <1>2, <1>3 DEF PlaceOK
<1>5. ThereOK(r)'
  BY <1>1, <1>2, <1>3 DEF ThereOK, LibOps, AtaConfigured, vars
<1>6. job[r].lib <= Most(r)'
  BY <1>1, <1>2, <1>3, Places DEF Most
<1>7. QED BY <1>1, <1>2, <1>3, <1>4, <1>5, <1>6, QuietStep, Places

LEMMA PreviewFacts ==
    ASSUME SInv, NEW r \in Requests, Preview(r)
    PROVE  /\ job[r].at = "preview" /\ UNCHANGED <<vars, mint, ata, events>>
           /\ \E j \in Job :
                 /\ job' = [job EXCEPT ![r] = j]
                 /\ j.at = "apply" /\ j.kind = "apply" /\ j.wallet = job[r].wallet
                 /\ j.lib = job[r].lib /\ j.seen = job[r].seen
                 /\ j.goal = job[r].goal /\ j.order = job[r].order
<1>1. /\ job[r].at = "preview" /\ job[r].kind = "apply" /\ job[r].wallet \in Wallets
      /\ job \in [Requests -> Job] /\ job[r] \in Job
      /\ UNCHANGED <<vars, mint, ata, events>>
  BY Places DEF Preview, At, PlaceOK
<1>2. PICK amount \in {PendingShown(acct[job[r].wallet]), 0} :
        job' = [job EXCEPT ![r].amount = amount, ![r].at = "apply"]
  BY DEF Preview
<1>3. amount \in Nat
  <2> DEFINE a == acct[job[r].wallet]
  <2>1. a.pending_lo \in Nat /\ a.pending_hi \in Nat
    BY <1>1 DEF SInv, IInv, AcctOK, Account
  <2> HIDE DEF a
  <2>2. PendingShown(a) \in Nat
    BY <2>1, LimitsAssumption DEF PendingShown
  <2>3. QED BY <2>2 DEF a
<1> DEFINE j == [job[r] EXCEPT !.amount = amount, !.at = "apply"]
<1>4. job' = [job EXCEPT ![r] = j]
  BY <1>1, <1>2
<1>5. /\ j \in Job /\ j.at = "apply" /\ j.kind = "apply" /\ j.wallet = job[r].wallet
      /\ j.lib = job[r].lib /\ j.seen = job[r].seen
      /\ j.goal = job[r].goal /\ j.order = job[r].order
  BY <1>1, <1>3 DEF Job, LibOps
<1>6. QED BY <1>1, <1>4, <1>5

LEMMA PreviewKeepsSInv ==
    ASSUME SInv, NEW r \in Requests, Preview(r)
    PROVE  SInv'
<1>1. /\ job[r].at = "preview" /\ UNCHANGED <<vars, mint, ata, events>>
      /\ mint # "none" /\ \A w \in Wallets : AtaConfigured(w)
      /\ job[r].lib = 0
  BY PreviewFacts, Places DEF ThereOK, CountOK, Most, LibOps
<1>2. PICK j \in Job :
        /\ job' = [job EXCEPT ![r] = j] /\ j.lib = job[r].lib
        /\ j.at = "apply" /\ j.kind = "apply"
  BY PreviewFacts
<1>3. job'[r] = j /\ Quietly(r)
  BY <1>1, <1>2, JobChanged DEF Quietly, LibOps
<1>4. PlaceOK(r)'
  BY <1>2, <1>3 DEF PlaceOK
<1>5. ThereOK(r)'
  BY <1>1, <1>2, <1>3 DEF ThereOK, LibOps, AtaConfigured, vars
<1>6. job[r].lib <= Most(r)'
  BY <1>1, <1>2, <1>3 DEF Most
<1>7. QED BY <1>1, <1>2, <1>3, <1>4, <1>5, <1>6, QuietStep, Places

\* The log is no longer than Keep, newest first.
LEMMA LoggedFacts ==
    ASSUME NEW log \in Seq(LogEntry), Len(log) <= Keep, NEW e \in LogEntry
    PROVE  /\ Logged(log, e) \in Seq(LogEntry)
           /\ Len(Logged(log, e)) = (IF Len(log) < Keep THEN Len(log) + 1 ELSE Keep)
           /\ Logged(log, e)[1] = e
           /\ \A i \in 2..Len(Logged(log, e)) : Logged(log, e)[i] = log[i - 1]
<1>1. Keep \in Nat /\ Keep > 0
  BY ServerAssumption
<1>2. <<e>> \in Seq(LogEntry) /\ Len(<<e>>) = 1 /\ <<e>>[1] = e
  OBVIOUS
<1>3. ASSUME NEW rest \in Seq(LogEntry)
      PROVE  /\ <<e>> \o rest \in Seq(LogEntry)
             /\ Len(<<e>> \o rest) = Len(rest) + 1
             /\ (<<e>> \o rest)[1] = e
             /\ \A i \in 2..(Len(rest) + 1) : (<<e>> \o rest)[i] = rest[i - 1]
  BY <1>2
<1>4. CASE Len(log) < Keep
  BY <1>3, <1>4 DEF Logged
<1>5. CASE ~(Len(log) < Keep)
  <2> DEFINE rest == SubSeq(log, 1, Keep - 1)
  <2>1. Len(log) = Keep
    BY <1>1, <1>5
  <2>2. rest \in Seq(LogEntry) /\ Len(rest) = Keep - 1
        /\ \A i \in 1..(Keep - 1) : rest[i] = log[i]
    BY <1>1, <2>1
  <2>3. Logged(log, e) = <<e>> \o rest
    BY <1>5 DEF Logged
  <2> HIDE DEF rest
  <2>4. QED BY <1>1, <1>3, <1>5, <2>2, <2>3
<1>6. QED BY <1>4, <1>5

LEMMA LogFacts ==
    ASSUME SInv, NEW r \in Requests, Log(r)
    PROVE  LET e == [kind |-> job[r].kind, amount |-> job[r].amount, sig |-> LoggedSig(r)]
           IN  /\ job[r].at = "log" /\ UNCHANGED <<vars, mint, ata>>
               /\ job[r].kind \in {"init", "transfer", "apply"}
               /\ \E j \in Job :
                     /\ job' = [job EXCEPT ![r] = j]
                     /\ j = [job[r] EXCEPT !.order = HaveLogged \cup {r}, !.at = "view_sender"]
                     /\ j.at = "view_sender" /\ j.order = HaveLogged \cup {r}
                     /\ j.kind = job[r].kind /\ j.wallet = job[r].wallet
                     /\ j.lib = job[r].lib /\ j.amount = job[r].amount
                     /\ j.goal = job[r].goal /\ j.seen = job[r].seen
               /\ e \in LogEntry
               /\ events' = Logged(events, e)
<1>1. /\ job[r].at = "log" /\ UNCHANGED <<vars, mint, ata>>
      /\ job' = [job EXCEPT ![r].order = HaveLogged \cup {r}, ![r].at = "view_sender"]
      /\ job[r].kind \in {"init", "transfer", "apply"}
      /\ events' = Logged(events, [kind |-> job[r].kind, amount |-> job[r].amount,
                                   sig |-> LoggedSig(r)])
  BY Places DEF Log, At, PlaceOK
<1>2. /\ job[r].amount \in Nat /\ job[r].lib \in 0..4
      /\ job[r].lib >= (IF job[r].kind = "init" THEN 2 ELSE 1)
  BY <1>1, Places DEF CountOK
<1>3. LoggedSig(r) \in Calls \X (1..5)
  <2>1. job[r].lib \in 1..4 /\ (job[r].kind = "init" => job[r].lib - 1 \in 1..4)
    BY <1>2
  <2>2. Latest(r) \in Calls /\ (job[r].kind = "init" => <<r, job[r].lib - 1>> \in Calls)
    BY <2>1, WalletFacts DEF Latest
  <2>3. QED BY <1>1, <2>2 DEF LoggedSig
<1> DEFINE order == HaveLogged \cup {r}
           j == [job[r] EXCEPT !.order = order, !.at = "view_sender"]
<1>4. order \in SUBSET Requests
  BY DEF HaveLogged
<1>5. job \in [Requests -> Job] /\ job[r] \in Job
  BY Places
<1>6. job' = [job EXCEPT ![r] = j]
  BY <1>1, <1>5
<1> HIDE DEF order
<1>7. /\ j \in Job /\ j.at = "view_sender" /\ j.order = order
      /\ j.kind = job[r].kind /\ j.wallet = job[r].wallet
      /\ j.lib = job[r].lib /\ j.amount = job[r].amount
      /\ j.goal = job[r].goal /\ j.seen = job[r].seen
  BY <1>4, <1>5 DEF Job, Reads
<1>8. [kind |-> job[r].kind, amount |-> job[r].amount, sig |-> LoggedSig(r)] \in LogEntry
  BY <1>1, <1>2, <1>3 DEF LogEntry
<1>9. QED BY <1>1, <1>6, <1>7, <1>8 DEF order

LEMMA LogKeepsSInv ==
    ASSUME SInv, NEW r \in Requests, Log(r)
    PROVE  SInv'
<1> DEFINE e == [kind |-> job[r].kind, amount |-> job[r].amount, sig |-> LoggedSig(r)]
<1>1. /\ job[r].at = "log" /\ UNCHANGED <<vars, mint, ata>>
      /\ e \in LogEntry /\ events' = Logged(events, e)
  BY LogFacts
<1> HIDE DEF e
<1>2. events' \in Seq(LogEntry) /\ Len(events') <= Keep
  <2>1. Keep \in Nat /\ Len(events) \in Nat /\ Len(events) <= Keep
    BY Places, ServerAssumption
  <2>2. QED BY <1>1, <2>1, LoggedFacts, Places
<1>3. PICK j \in Job :
        /\ job' = [job EXCEPT ![r] = j] /\ j.lib = job[r].lib
        /\ j.at = "view_sender" /\ j.kind = job[r].kind /\ j.wallet = job[r].wallet
  BY LogFacts
<1>4. job'[r] = j
  BY <1>3, JobChanged
<1>5. Quietly(r)
  BY <1>1, <1>3 DEF Quietly, LibOps
<1>6. PlaceOK(r)' /\ ThereOK(r)' /\ job[r].lib <= Most(r)'
  BY <1>3, <1>4, Places DEF PlaceOK, ThereOK, LibOps, Most
<1>7. QED BY <1>2, <1>3, <1>4, <1>5, <1>6, QuietStep

\* A handler shows one account after the other.
LEMMA ViewFacts ==
    ASSUME SInv, NEW r \in Requests, View(r)
    PROVE  /\ UNCHANGED <<vars, mint, ata, events>>
           /\ job[r].at \in {"view_sender", "view_receiver"}
           /\ \E j \in Job :
                 /\ job' = [job EXCEPT ![r] = j]
                 /\ j.kind = job[r].kind /\ j.wallet = job[r].wallet /\ j.lib = job[r].lib
                 /\ j.amount = job[r].amount /\ j.goal = job[r].goal
                 /\ j.order = job[r].order
                 /\ \/ /\ job[r].at = "view_sender" /\ j.at = "view_receiver"
                       /\ j.seen["sender"] = acct[SenderWallet]
                       /\ j.there = Supply
                    \/ /\ job[r].at = "view_receiver" /\ j.at = "ok"
                       /\ j.seen["sender"] = job[r].seen["sender"]
                       /\ j.seen["receiver"] = acct[ReceiverWallet]
                       /\ j.there = job[r].there
<1>1. /\ UNCHANGED <<vars, mint, ata, events>>
      /\ job[r].at \in {"view_sender", "view_receiver"}
      /\ job \in [Requests -> Job] /\ job[r] \in Job
  BY Places DEF View
<1> DEFINE first == job[r].at = "view_sender"
<1>2. PICK v : /\ v = Views[job[r].at]
               /\ job' = [job EXCEPT ![r].seen[v] = acct[OwnerOf[v]],
                                     ![r].there = IF first THEN Supply ELSE @,
                                     ![r].at = IF @ = "view_sender" THEN "view_receiver"
                                               ELSE "ok"]
  BY DEF View, At
<1>3. \/ first /\ v = "sender" /\ OwnerOf[v] = SenderWallet
      \/ job[r].at = "view_receiver" /\ v = "receiver" /\ OwnerOf[v] = ReceiverWallet
  BY <1>1, <1>2 DEF Views, OwnerOf
<1> DEFINE w == OwnerOf[v]
           place == IF first THEN "view_receiver" ELSE "ok"
           seen == [job[r].seen EXCEPT ![v] = acct[w]]
           there == IF first THEN Supply ELSE job[r].there
           j == [job[r] EXCEPT !.seen = seen, !.there = there, !.at = place]
<1>4. acct[w] \in Account(Calls) /\ job[r].seen \in [{"sender", "receiver"} -> Account(Calls)]
  BY <1>3, Places, WalletFacts DEF SInv, IInv, AcctOK
<1>5. seen \in [{"sender", "receiver"} -> Account(Calls)] /\ seen[v] = acct[w]
      /\ \A u \in {"sender", "receiver"} : u # v => seen[u] = job[r].seen[u]
  BY <1>3, <1>4
<1>6. job' = [job EXCEPT ![r] = j]
  BY <1>1, <1>2
<1>7. there \in Nat
  <2>1. Supply \in Nat
    <3>1. \A u \in Wallets : Worth(u) \in Nat
      BY PendingType DEF SInv, IInv, AcctOK, Account, Worth
    <3>2. QED BY <3>1, WalletFacts DEF Supply
  <2>2. job[r].there \in Nat
    BY <1>1 DEF Job
  <2>3. QED BY <2>1, <2>2
<1>8. /\ place \in {"view_receiver", "ok"}
      /\ first => place = "view_receiver" /\ there = Supply
      /\ ~first => place = "ok" /\ there = job[r].there
  OBVIOUS
<1>9. job[r].at = "view_receiver" => ~first
  OBVIOUS
<1> HIDE DEF seen, place, there, first
<1>10. /\ j \in Job /\ j.kind = job[r].kind /\ j.wallet = job[r].wallet
       /\ j.lib = job[r].lib /\ j.at = place /\ j.seen = seen /\ j.amount = job[r].amount
       /\ j.goal = job[r].goal /\ j.order = job[r].order /\ j.there = there
  BY <1>1, <1>5, <1>7, <1>8 DEF Job, Reads, Ended
<1> HIDE DEF j
<1>11. CASE first
  <2>1. job[r].at = "view_sender"
    BY <1>11 DEF first
  <2>2. QED BY <1>1, <1>3, <1>5, <1>6, <1>8, <1>9, <1>10, <1>11, <2>1
<1>12. CASE ~first
  BY <1>1, <1>3, <1>5, <1>6, <1>8, <1>10, <1>12
<1>13. QED BY <1>11, <1>12

LEMMA ViewKeepsSInv ==
    ASSUME SInv, NEW r \in Requests, View(r)
    PROVE  SInv'
<1>1. /\ UNCHANGED <<vars, mint, ata, events>>
      /\ job[r].at \in {"view_sender", "view_receiver"}
  BY ViewFacts
<1>2. PICK j \in Job :
        /\ job' = [job EXCEPT ![r] = j] /\ j.lib = job[r].lib
        /\ j.kind = job[r].kind /\ j.wallet = job[r].wallet
        /\ j.at \in {"view_receiver", "ok"}
  BY ViewFacts
<1>3. job'[r] = j /\ Quietly(r)
  BY <1>1, <1>2, JobChanged DEF Quietly, LibOps
<1>4. PlaceOK(r)' /\ ThereOK(r)' /\ job[r].lib <= Most(r)'
  BY <1>2, <1>3, Places DEF PlaceOK, ThereOK, LibOps, Most
<1>5. QED BY <1>1, <1>2, <1>3, <1>4, QuietStep, Places

-----------------------------------------------------------------------------
\* The server's own transactions.

\* The steps of one handler: what is left to show of the one who takes it.
LEMMA HandlerStep ==
    ASSUME SInv, NEW r \in Requests, NEW j \in Job, job' = [job EXCEPT ![r] = j],
           IInv', Grows, events' = events,
           mint' \in {"none", "ours", "foreign"}, ata' \subseteq Wallets,
           \A q \in Requests : q # r => \A k \in 1..4 :
              status'[<<q, k>>] = status[<<q, k>>] /\ call'[<<q, k>>] = call[<<q, k>>],
           (\A w \in Wallets : AtaConfigured(w) => w \in ata)',
           CallsOnExistingAccounts',
           \A c \in Calls : Served(c)',
           JobOK(r)'
    PROVE  SInv'
<1>1. job'[r] = j /\ \A q \in Requests : q # r => job'[q] = job[q]
  BY Places
<1>2. \A q \in Requests : JobOK(q)'
  BY <1>1, SpectatorKept DEF Spectator
<1>3. ServerTypeOK'
  <2>1. job' \in [Requests -> Job]
    BY Places
  <2>2. QED BY <2>1 DEF ServerTypeOK, IInv, SInv
<1>4. QED BY <1>2, <1>3 DEF SInv

LEMMA OwnTxEffect ==
    ASSUME SInv, NEW j \in Job, NEW tx, OwnTx(j, tx)
    PROVE  /\ IInv' /\ Grows
           /\ UNCHANGED <<ctx, landed, clientVars, events>>
           /\ mint' \in {"none", "ours", "foreign"} /\ ata' \subseteq Wallets
           /\ (\A w \in Wallets : AtaConfigured(w) => w \in ata)'
           /\ CallsOnExistingAccounts' /\ \A c \in Calls : Served(c)'
           /\ \A w \in Wallets : acct'[w].configured = acct[w].configured
           /\ tx = "create_mint" => mint' # "none"
           /\ tx = "create_ata" => mint # "none" /\ j.wallet \in ata'
<1>1. IInv'
  BY OwnTxKeepsIInv DEF SInv
<1>2. UNCHANGED <<ctx, landed, clientVars, events>> /\ call' = call
  BY DEF OwnTx, clientVars
<1>3. /\ mint \in {"none", "ours", "foreign"} /\ ata \subseteq Wallets
      /\ j.wallet \in Wallets
  BY DEF SInv, ServerTypeOK, Job
<1>4. /\ mint' \in {"none", "ours", "foreign"} /\ ata' \subseteq Wallets
      /\ mint # "none" => mint' # "none"
      /\ ata \subseteq ata'
      /\ tx = "create_mint" => mint' # "none"
      /\ tx = "create_ata" => mint # "none" /\ j.wallet \in ata'
  BY <1>3 DEF OwnTx, CreateMint, CreateAta, MintTo
<1>5. \A w \in Wallets : acct'[w].configured = acct[w].configured
  <2>1. acct \in [Wallets -> Account(Calls)]
    BY DEF SInv, IInv, AcctOK
  <2>2. CASE acct' = acct
    BY <2>2
  <2>3. CASE MintTo(j.extra)
    <3> DEFINE b == [acct[SenderWallet] EXCEPT !.public = @ + j.extra]
    <3>1. b.configured = acct[SenderWallet].configured
      BY <2>1, WalletFacts DEF Account
    <3>2. acct' = [acct EXCEPT ![SenderWallet] = b]
      BY <2>3 DEF MintTo
    <3> HIDE DEF b
    <3>3. QED BY <2>1, <3>1, <3>2, WalletFacts
  <2>4. QED BY <2>2, <2>3 DEF OwnTx, CreateMint, CreateAta
<1>6. Grows
  BY <1>4, <1>5 DEF Grows
<1>7. (\A w \in Wallets : AtaConfigured(w) => w \in ata)'
  BY <1>4, <1>5 DEF SInv, AtaConfigured
<1>8. CallsOnExistingAccounts' /\ \A c \in Calls : Served(c)'
  BY <1>2, <1>6, CallsKept
<1>9. QED BY <1>1, <1>2, <1>4, <1>5, <1>6, <1>7, <1>8

\* Where the handler goes after a transaction of its own.
LEMMA OwnConfirmFacts ==
    ASSUME SInv, NEW r \in Requests, OwnConfirm(r)
    PROVE  /\ job[r].at \in OwnTxs /\ OwnTx(job[r], job[r].at)
           /\ \E j \in Job :
                 /\ job' = [job EXCEPT ![r] = j]
                 /\ j.kind = job[r].kind /\ j.wallet = job[r].wallet /\ j.lib = job[r].lib
                 /\ j.amount = job[r].amount /\ j.seen = job[r].seen
                 /\ j.goal = job[r].goal /\ j.there = job[r].there /\ j.order = job[r].order
                 /\ \/ job[r].at = "create_mint" /\ j.at = "ensure"
                    \/ job[r].at = "create_ata" /\ j.at = "configure"
                    \/ job[r].at = "mint_to" /\ j.at = "deposit"
<1> DEFINE place == After[job[r].at]
           j == [job[r] EXCEPT !.at = place]
<1>1. /\ job[r].at \in OwnTxs /\ OwnTx(job[r], job[r].at)
      /\ job' = [job EXCEPT ![r] = Advanced(job[r])]
      /\ job[r] \in Job
  BY Places DEF OwnConfirm
<1>2. Advanced(job[r]) = j
  BY <1>1 DEF Advanced, OwnTxs, Job
<1>3. \/ job[r].at = "create_mint" /\ place = "ensure"
      \/ job[r].at = "create_ata" /\ place = "configure"
      \/ job[r].at = "mint_to" /\ place = "deposit"
  BY <1>1 DEF After, OwnTxs
<1>4. place \in Reads \cup LibOps
  BY <1>3 DEF Reads, LibOps
<1> HIDE DEF place
<1>5. /\ j \in Job /\ j.kind = job[r].kind /\ j.wallet = job[r].wallet /\ j.lib = job[r].lib
      /\ j.amount = job[r].amount /\ j.seen = job[r].seen /\ j.at = place
      /\ j.goal = job[r].goal /\ j.there = job[r].there /\ j.order = job[r].order
  BY <1>1, <1>4 DEF Job
<1>6. QED BY <1>1, <1>2, <1>3, <1>5

LEMMA OwnConfirmKeepsSInv ==
    ASSUME SInv, NEW r \in Requests, OwnConfirm(r)
    PROVE  SInv'
<1>1. job[r].at \in OwnTxs /\ OwnTx(job[r], job[r].at) /\ job[r] \in Job
  BY OwnConfirmFacts, Places
<1>2. PICK j \in Job :
        /\ job' = [job EXCEPT ![r] = j]
        /\ j.kind = job[r].kind /\ j.wallet = job[r].wallet /\ j.lib = job[r].lib
        /\ \/ job[r].at = "create_mint" /\ j.at = "ensure"
           \/ job[r].at = "create_ata" /\ j.at = "configure"
           \/ job[r].at = "mint_to" /\ j.at = "deposit"
  BY OwnConfirmFacts
<1>3. /\ IInv' /\ Grows /\ events' = events /\ status' = status /\ call' = call
      /\ mint' \in {"none", "ours", "foreign"} /\ ata' \subseteq Wallets
      /\ (\A w \in Wallets : AtaConfigured(w) => w \in ata)'
      /\ CallsOnExistingAccounts' /\ \A c \in Calls : Served(c)'
      /\ \A w \in Wallets : acct'[w].configured = acct[w].configured
      /\ job[r].at = "create_mint" => mint' # "none"
      /\ job[r].at = "create_ata" => mint # "none" /\ job[r].wallet \in ata'
  BY <1>1, OwnTxEffect DEF clientVars
<1>4. job'[r] = j
  BY <1>2, Places
<1>5. PlaceOK(r) /\ ThereOK(r) /\ CountOK(r) /\ CallsOf(r) /\ job[r].at \notin LibOps
  BY <1>1, Places DEF OwnTxs, LibOps
<1>6. \A k \in 1..4 : status[<<r, k>>] # "running"
  BY <1>5 DEF CallsOf
<1>7. PlaceOK(r)'
  BY <1>2, <1>4, <1>5 DEF PlaceOK
<1>8. CallsOf(r)'
  BY <1>2, <1>3, <1>4, <1>5, <1>6 DEF CallsOf
<1>9. ThereOK(r)'
  <2>1. mint' # "none"
    BY <1>2, <1>3, <1>5 DEF ThereOK, Grows
  <2>2. j.at = "configure" => job[r].wallet \in ata'
    BY <1>2, <1>3
  <2>3. j.at \in {"ensure", "configure"} /\ j.wallet # SenderWallet => AtaConfigured(SenderWallet)'
    BY <1>2, <1>3, <1>5, WalletFacts DEF ThereOK, PlaceOK, AtaConfigured
  <2>4. j.at = "deposit" => \A w \in Wallets : acct'[w].configured
    BY <1>2, <1>3, <1>5 DEF ThereOK, AtaConfigured
  <2>5. QED BY <1>2, <1>4, <2>1, <2>2, <2>3, <2>4 DEF ThereOK, LibOps, AtaConfigured
<1>10. CountOK(r)'
  <2> DEFINE k == job[r].lib
  <2>1. k \in 0..4 /\ (k > 0 => k \in 1..4)
    BY Places
  <2> HIDE DEF k
  <2>2. k > 0 => status'[<<r, k>>] # "running"
    BY <1>3, <1>6, <2>1
  <2>3. Returned(r)' = job[r].lib
    BY <1>2, <1>4, <2>2 DEF Returned, Awaiting, Latest, k
  <2>4. Returned(r) = job[r].lib
    BY <1>5, Places
  <2>5. Most(r)' = Most(r)
    BY <1>2, <1>4, <1>5 DEF Most, PlaceOK
  <2>6. QED BY <1>2, <1>4, <1>5, <2>3, <2>4, <2>5 DEF CountOK
<1>11. QED BY <1>2, <1>3, <1>7, <1>8, <1>9, <1>10, HandlerStep DEF JobOK

\* Whether something is still under way is noted in late.
LEMMA LateType ==
    ASSUME SInv, NEW r \in Requests
    PROVE  \A late \in OwnTxs \cup {"none"} : [job[r] EXCEPT !.late = late] \in Job
<1>1. job[r] \in Job
  BY Places
<1>2. QED BY <1>1 DEF Job

LEMMA OwnTimeoutKeepsSInv ==
    ASSUME SInv, NEW r \in Requests, OwnTimeout(r)
    PROVE  SInv'
<1> DEFINE j == [job[r] EXCEPT !.late = job[r].at, !.at = "err"]
<1>1. /\ job[r].at \in OwnTxs /\ job[r].at \notin LibOps /\ UNCHANGED <<vars, mint, ata, events>>
      /\ job' = [job EXCEPT ![r].late = job[r].at, ![r].at = "err"]
  BY DEF OwnTimeout, OwnTxs, LibOps
<1>2. job' = [job EXCEPT ![r] = j]
  BY <1>1, Places
<1>3. /\ j \in Job /\ j.lib = job[r].lib /\ j.at = "err" /\ j.kind = job[r].kind
      /\ j.wallet = job[r].wallet
  BY <1>1, Places DEF Job, Ended
<1> HIDE DEF j
<1>4. job'[r] = j /\ Quietly(r)
  BY <1>1, <1>2, <1>3, JobChanged DEF Quietly
<1>5. PlaceOK(r)' /\ ThereOK(r)' /\ job[r].lib <= Most(r)'
  BY <1>3, <1>4, Places DEF PlaceOK, ThereOK, LibOps, Most
<1>6. QED BY <1>1, <1>3, <1>4, <1>5, QuietStep, Places

LEMMA OwnSettlesKeepsSInv ==
    ASSUME SInv, NEW r \in Requests, OwnLandLate(r) \/ OwnExpire(r)
    PROVE  SInv'
<1> DEFINE j == [job[r] EXCEPT !.late = "none"]
<1>1. /\ job' = [job EXCEPT ![r].late = "none"]
      /\ \/ OwnTx(job[r], job[r].late)
         \/ UNCHANGED <<vars, mint, ata, events>>
  BY DEF OwnLandLate, OwnExpire
<1>2. job' = [job EXCEPT ![r] = j]
  BY <1>1, Places
<1>3. /\ j \in Job /\ j.lib = job[r].lib /\ j.at = job[r].at /\ j.kind = job[r].kind
      /\ j.wallet = job[r].wallet /\ j.amount = job[r].amount
  <2>1. j \in Job
    BY LateType
  <2>2. job[r] \in Job
    BY Places
  <2>3. QED BY <2>1, <2>2 DEF Job
<1> HIDE DEF j
<1>4. job'[r] = j
  BY <1>2, Places
<1>5. /\ IInv' /\ Grows /\ events' = events /\ status' = status /\ call' = call
      /\ mint' \in {"none", "ours", "foreign"} /\ ata' \subseteq Wallets
      /\ (\A w \in Wallets : AtaConfigured(w) => w \in ata)'
      /\ CallsOnExistingAccounts' /\ \A c \in Calls : Served(c)'
  <2>1. CASE OwnTx(job[r], job[r].late)
    BY <2>1, OwnTxEffect, Places DEF clientVars
  <2>2. CASE UNCHANGED <<vars, mint, ata, events>>
    <3>1. /\ acct' = acct /\ ctx' = ctx /\ landed' = landed /\ call' = call /\ status' = status
          /\ done' = done /\ snap' = snap /\ flight' = flight /\ mint' = mint /\ ata' = ata
          /\ events' = events
      BY <2>2 DEF vars
    <3>2. IInv'
      BY <2>2, NextKeepsIInv DEF SInv
    <3>3. Grows
      BY <3>1 DEF Grows
    <3>4. (\A w \in Wallets : AtaConfigured(w) => w \in ata)'
      BY <3>1 DEF SInv, AtaConfigured
    <3>5. CallsOnExistingAccounts' /\ \A c \in Calls : Served(c)'
      BY <3>1, <3>3, CallsKept
    <3>6. QED BY <3>1, <3>2, <3>3, <3>4, <3>5 DEF SInv, ServerTypeOK
  <2>3. QED BY <1>1, <2>1, <2>2
<1>6. JobOK(r)'
  BY <1>3, <1>4, <1>5, SpectatorKept DEF Spectator
<1>7. QED BY <1>2, <1>3, <1>5, <1>6, HandlerStep

-----------------------------------------------------------------------------
\* The library calls.

\* What a step of a call in the library does to the whole.
LEMMA LibEffect ==
    ASSUME SInv, NEW c \in Calls,
           Confirm(c) \/ Fail(c) \/ Timeout(c) \/ LandLate(c) \/ Expire(c),
           mint' = mint, ata' = ata
    PROVE  /\ IInv' /\ Grows /\ call' = call
           /\ (\A w \in Wallets : AtaConfigured(w) => w \in ata)'
           /\ CallsOnExistingAccounts' /\ \A d \in Calls : Served(d)'
           /\ \A d \in Calls : d # c => status'[d] = status[d]
           /\ Confirm(c) /\ call[c].op = "configure" => acct'[Sender(c)].configured
<1>1. IInv'
  BY ConfirmKeepsIInv, LandLateKeepsIInv, GivingUpKeepsIInv DEF SInv
<1>2. call' = call /\ Active(c)
  BY DEF Confirm, Fail, Timeout, LandLate, Expire, Active
<1>3. call[c] # NoRequest /\ Sender(c) \in ata
  <2>1. call[c] \in Request
    BY <1>2, ActiveCall DEF SInv
  <2>2. call[c] # NoRequest
    BY <2>1 DEF Request, NoRequest, Ops
  <2>3. QED BY <2>2 DEF SInv, CallsOnExistingAccounts
<1>4. /\ \A w \in Wallets : acct[w].configured => acct'[w].configured
      /\ \A w \in Wallets : acct'[w].configured => acct[w].configured \/ w \in ata
      /\ Confirm(c) /\ call[c].op = "configure" => acct'[Sender(c)].configured
  <2>1. CASE Confirm(c) \/ LandLate(c)
    <3>1. Land(c)
      BY <2>1 DEF Confirm, LandLate
    <3>2. QED BY <1>2, <1>3, <3>1, LandConfigures DEF SInv
  <2>2. CASE (Fail(c) \/ Timeout(c) \/ Expire(c)) /\ ~Confirm(c)
    BY <2>2 DEF Fail, Timeout, Expire
  <2>3. QED BY <2>1, <2>2
<1>5. Grows
  BY <1>4 DEF Grows
<1>6. (\A w \in Wallets : AtaConfigured(w) => w \in ata)'
  BY <1>4 DEF SInv, AtaConfigured
<1>7. CallsOnExistingAccounts' /\ \A d \in Calls : Served(d)'
  BY <1>2, <1>5, CallsKept
<1>8. \A d \in Calls : d # c => status'[d] = status[d]
  BY DEF Confirm, Fail, Timeout, LandLate, Expire, SInv, IInv, TypeOK
<1>9. QED BY <1>1, <1>2, <1>4, <1>5, <1>6, <1>7, <1>8

LEMMA LibSettleKeepsSInv ==
    ASSUME SInv, NEW c \in Calls, LibSettle(c)
    PROVE  SInv'
<1>1. /\ LandLate(c) \/ Expire(c)
      /\ mint' = mint /\ ata' = ata /\ events' = events /\ job' = job
      /\ status' = status
  BY DEF LibSettle, serverVars, LandLate, Expire
<1>2. /\ IInv' /\ Grows /\ call' = call
      /\ (\A w \in Wallets : AtaConfigured(w) => w \in ata)'
      /\ CallsOnExistingAccounts' /\ \A d \in Calls : Served(d)'
  BY <1>1, LibEffect
<1>3. \A q \in Requests : JobOK(q)'
  BY <1>1, <1>2, SpectatorKept DEF Spectator
<1>4. ServerTypeOK'
  BY <1>1, <1>2 DEF SInv, ServerTypeOK, IInv
<1>5. QED BY <1>2, <1>3, <1>4 DEF SInv

LEMMA RestartKeepsSInv ==
    ASSUME SInv, Restart
    PROVE  SInv'
<1>1. PICK sent \in SUBSET Requests :
        /\ job' = [r \in Requests |->
               IF Running(r)
               THEN [job[r] EXCEPT !.at = "lost",
                                   !.late = IF r \in sent /\ job[r].at \in OwnTxs
                                            THEN job[r].at ELSE @]
               ELSE job[r]]
        /\ status' = [c \in Calls |-> IF status[c] = "running" THEN "err" ELSE status[c]]
        /\ events' = <<>>
        /\ UNCHANGED <<acct, ctx, landed, call, done, snap, mint, ata>>
  BY DEF Restart
<1>2. IInv'
  BY RestartKeepsIInv DEF SInv
<1>3. Grows /\ CallsOnExistingAccounts' /\ \A d \in Calls : Served(d)'
  <2>1. Grows
    BY <1>1 DEF Grows
  <2>2. QED BY <1>1, <2>1, CallsKept
<1>4. (\A w \in Wallets : AtaConfigured(w) => w \in ata)'
  BY <1>1 DEF SInv, AtaConfigured
<1>5. ASSUME NEW r \in Requests
      PROVE  /\ job'[r] \in Job
             /\ job'[r].kind = job[r].kind /\ job'[r].wallet = job[r].wallet
             /\ job'[r].lib = job[r].lib
             /\ job'[r].at = IF Running(r) THEN "lost" ELSE job[r].at
  <2>1. CASE Running(r)
    <3> DEFINE late == IF r \in sent /\ job[r].at \in OwnTxs THEN job[r].at ELSE job[r].late
               j == [job[r] EXCEPT !.at = "lost", !.late = late]
    <3>1. job'[r] = j
      BY <1>1, <2>1
    <3>2. late \in OwnTxs \cup {"none"}
      BY Places DEF Job
    <3> HIDE DEF late
    <3>3. j \in Job /\ j.kind = job[r].kind /\ j.wallet = job[r].wallet
          /\ j.lib = job[r].lib /\ j.at = "lost"
      BY <3>2, Places DEF Job, Ended
    <3>4. QED BY <2>1, <3>1, <3>3
  <2>2. CASE ~Running(r)
    BY <1>1, <2>2, Places
  <2>3. QED BY <2>1, <2>2
<1>6. ServerTypeOK'
  <2>1. job' \in [Requests -> Job]
    BY <1>1, <1>5
  <2>2. events' \in Seq(LogEntry) /\ Len(events') <= Keep
    <3>1. events' = <<>>
      BY <1>1
    <3>2. events' \in Seq(LogEntry) /\ Len(events') = 0
      BY <3>1
    <3>3. Keep \in Nat
      BY ServerAssumption
    <3>4. QED BY <3>2, <3>3
  <2>3. QED BY <1>1, <1>2, <2>1, <2>2 DEF SInv, ServerTypeOK, IInv
<1>7. ASSUME NEW r \in Requests PROVE JobOK(r)'
  <2>1. \/ job'[r].at = "lost"
        \/ job'[r].at = job[r].at /\ job[r].at \in {"idle", "ok", "err"}
    BY <1>5 DEF Running, Ended
  <2>2. PlaceOK(r)' /\ ThereOK(r)'
    BY <1>5, <2>1, Places DEF PlaceOK, ThereOK, LibOps
  <2>3. CallsOf(r)'
    <3> SUFFICES ASSUME NEW k \in 1..4
        PROVE  /\ k > job[r].lib <=> status'[<<r, k>>] = "idle"
               /\ status'[<<r, k>>] # "running"
      BY <1>5 DEF CallsOf
    <3>1. /\ status'[<<r, k>>] = IF status[<<r, k>>] = "running" THEN "err"
                                 ELSE status[<<r, k>>]
      BY <1>1, WalletFacts
    <3>2. QED BY <3>1, Places DEF CallsOf
  <2>4. CountOK(r)'
    <3>1. Returned(r)' = job[r].lib
      BY <1>5, <2>1 DEF Returned, LibOps
    <3>2. job[r].lib <= Most(r)'
      BY <1>5, <2>1, Places DEF Most, CountOK, Returned, LibOps
    <3>3. QED BY <2>1, <3>1, <3>2 DEF CountOK
  <2>5. QED BY <2>2, <2>3, <2>4 DEF JobOK
<1>8. QED BY <1>2, <1>3, <1>4, <1>6, <1>7 DEF SInv

\* The call that a handler begins.
LEMMA LibBeginFacts ==
    ASSUME SInv, NEW r \in Requests, LibBegin(r)
    PROVE  LET c == <<r, job[r].lib + 1>>
           IN  /\ job[r].at \in LibOps /\ ~Awaiting(r)
               /\ c \in Calls /\ job[r].lib + 1 \in 1..4 /\ job[r].lib \in 0..3
               /\ job[r].lib <= Most(r)
               /\ LibRequest(job[r]) \in Request
               /\ Invoke(c, LibRequest(job[r]))
               /\ status[c] = "idle"
               /\ call'[c] = LibRequest(job[r]) /\ status'[c] \in {"running", "err"}
               /\ UNCHANGED <<mint, ata, events, acct>>
               /\ \A d \in Calls : d # c => call'[d] = call[d] /\ status'[d] = status[d]
               /\ \E j \in Job :
                     /\ job' = [job EXCEPT ![r] = j]
                     /\ j.kind = job[r].kind /\ j.wallet = job[r].wallet
                     /\ j.amount = job[r].amount /\ j.seen = job[r].seen
                     /\ j.goal = job[r].goal /\ j.there = job[r].there /\ j.order = job[r].order
                     /\ j.lib = job[r].lib + 1
                     /\ j.at = IF status'[c] = "err" THEN "err" ELSE job[r].at
<1> DEFINE lib == job[r].lib
           c == <<r, lib + 1>>
           place == IF status'[c] = "err" THEN "err" ELSE job[r].at
           j == [job[r] EXCEPT !.lib = lib + 1, !.at = place]
<1>1. /\ job[r].at \in LibOps /\ ~Awaiting(r)
      /\ Invoke(c, LibRequest(job[r])) /\ status[c] = "idle"
      /\ job' = [job EXCEPT ![r].lib = @ + 1,
                            ![r].at = IF status'[c] = "err" THEN "err" ELSE @]
      /\ UNCHANGED <<mint, ata, events, acct>>
  BY DEF LibBegin, Invoke
<1>2. Returned(r) = lib /\ lib <= Most(r) /\ lib \in 0..4
  BY <1>1, Places DEF Returned, CountOK
<1>3. lib \in 0..3
  BY <1>1, <1>2 DEF Most, LibOps
<1>4. lib + 1 \in 1..4 /\ c \in Calls
  <2> HIDE DEF lib
  <2>1. lib + 1 \in 1..4
    BY <1>3
  <2>2. QED BY <2>1, WalletFacts
<1>5. LibRequest(job[r]) \in Request
  <2>1. /\ job[r].at \in Ops /\ job[r].wallet \in Wallets /\ job[r].amount \in Nat
        /\ job[r].at = "transfer" => job[r].wallet # ReceiverWallet
    BY <1>1, Places, WalletFacts DEF LibOps, Ops, PlaceOK
  <2>2. QED BY <2>1, WalletFacts DEF LibRequest, Request
<1>6. /\ call'[c] = LibRequest(job[r]) /\ status'[c] \in {"running", "err"}
      /\ \A d \in Calls : d # c => call'[d] = call[d] /\ status'[d] = status[d]
  BY <1>1, <1>4 DEF Invoke, SInv, IInv, TypeOK
<1>7. job' = [job EXCEPT ![r] = j]
  BY <1>1, Places
<1>8. place \in LibOps \cup {"err"}
  BY <1>1
<1> HIDE DEF place
<1>9. /\ j \in Job /\ j.kind = job[r].kind /\ j.wallet = job[r].wallet
      /\ j.amount = job[r].amount /\ j.seen = job[r].seen
      /\ j.goal = job[r].goal /\ j.there = job[r].there /\ j.order = job[r].order
      /\ j.lib = lib + 1 /\ j.at = place
  <2>1. job[r] \in Job
    BY Places
  <2> HIDE DEF lib
  <2>2. lib + 1 \in 0..4
    BY <1>3
  <2>3. QED BY <1>8, <2>1, <2>2 DEF Job, Ended
<1>10. QED BY <1>1, <1>2, <1>3, <1>4, <1>5, <1>6, <1>7, <1>9 DEF place

LEMMA LibBeginKeepsSInv ==
    ASSUME SInv, NEW r \in Requests, LibBegin(r)
    PROVE  SInv'
<1> DEFINE k == job[r].lib + 1
           c == <<r, k>>
           q == LibRequest(job[r])
<1>1. /\ job[r].at \in LibOps /\ ~Awaiting(r)
      /\ c \in Calls /\ k \in 1..4 /\ job[r].lib \in 0..3 /\ job[r].lib <= Most(r)
      /\ q \in Request /\ Invoke(c, q)
      /\ call'[c] = q /\ status'[c] \in {"running", "err"}
      /\ mint' = mint /\ ata' = ata /\ events' = events /\ acct' = acct
      /\ \A d \in Calls : d # c => call'[d] = call[d] /\ status'[d] = status[d]
  BY LibBeginFacts
<1>2. PICK j \in Job :
        /\ job' = [job EXCEPT ![r] = j]
        /\ j.kind = job[r].kind /\ j.wallet = job[r].wallet /\ j.amount = job[r].amount
        /\ j.lib = k
        /\ j.at = IF status'[c] = "err" THEN "err" ELSE job[r].at
  BY LibBeginFacts
<1>3. job'[r] = j
  BY <1>2, Places
<1>4. IInv'
  BY <1>1, InvokeKeepsIInv DEF SInv
<1>5. Grows /\ (\A w \in Wallets : AtaConfigured(w) => w \in ata)'
  BY <1>1 DEF Grows, SInv, AtaConfigured
<1>6. /\ q.op = job[r].at /\ q.wallet = job[r].wallet /\ q.to = ReceiverWallet
  BY DEF LibRequest
<1>7. /\ mint # "none" /\ job[r].wallet \in ata
      /\ job[r].at # "configure" => \A w \in Wallets : AtaConfigured(w)
      /\ job[r].at = "transfer" => job[r].wallet = SenderWallet
  <2>1. job[r].at # "configure" => \A w \in Wallets : AtaConfigured(w)
    BY <1>1, Places DEF ThereOK, LibOps
  <2>2. mint # "none"
    BY <1>1, Places DEF ThereOK
  <2>3. job[r].wallet \in ata
    <3>1. CASE job[r].at = "configure"
      BY <3>1, Places DEF ThereOK
    <3>2. CASE job[r].at # "configure"
      BY <2>1, <3>2, Places DEF SInv
    <3>3. QED BY <3>1, <3>2
  <2>4. QED BY <2>1, <2>2, <2>3, Places DEF PlaceOK
<1> HIDE DEF q
<1>8. \A d \in Calls : Served(d)'
  <2> SUFFICES ASSUME NEW d \in Calls PROVE Served(d)'
    OBVIOUS
  <2>1. CASE d = c
    BY <1>1, <1>6, <1>7, <2>1 DEF Served, Sender
  <2>2. CASE d # c
    BY <1>1, <2>2 DEF SInv, Served, Sender
  <2>3. QED BY <2>1, <2>2
<1>9. CallsOnExistingAccounts'
  <2> SUFFICES ASSUME NEW d \in Calls, call'[d] # NoRequest
      PROVE  /\ mint' # "none" /\ call'[d].wallet \in ata'
             /\ call'[d].op # "configure" => \A w \in Wallets : acct'[w].configured
    BY DEF CallsOnExistingAccounts, Sender, AtaConfigured
  <2>1. CASE d = c
    BY <1>1, <1>6, <1>7, <2>1 DEF AtaConfigured
  <2>2. CASE d # c
    BY <1>1, <2>2 DEF SInv, CallsOnExistingAccounts, Sender, AtaConfigured
  <2>3. QED BY <2>1, <2>2
<1>10. CallsOf(r)'
  <2> SUFFICES ASSUME NEW i \in 1..4
      PROVE  /\ i > k <=> status'[<<r, i>>] = "idle"
             /\ status'[<<r, i>>] = "running" =>
                    i = k /\ j.at \in LibOps /\ call'[<<r, i>>] = LibRequest(j)
    BY <1>2, <1>3 DEF CallsOf
  <2>1. CASE i = k
    <3>1. LibRequest(j) = q \/ status'[c] = "err"
      BY <1>2 DEF LibRequest, q
    <3>2. QED BY <1>1, <1>2, <2>1, <3>1
  <2>2. CASE i # k
    <3>1. <<r, i>> \in Calls /\ <<r, i>> # c
      BY <2>2, WalletFacts
    <3>2. status'[<<r, i>>] = status[<<r, i>>]
      BY <1>1, <3>1
    <3>3. status[<<r, i>>] # "running"
      <4> SUFFICES ASSUME status[<<r, i>>] = "running" PROVE FALSE
        OBVIOUS
      <4>1. i = job[r].lib
        BY Places DEF CallsOf
      <4>2. job[r].lib > 0 /\ status[<<r, job[r].lib>>] = "running"
        BY <4>1
      <4>3. QED BY <1>1, <4>2 DEF Awaiting, Latest
    <3>4. i > job[r].lib <=> status[<<r, i>>] = "idle"
      BY Places DEF CallsOf
    <3>5. i > job[r].lib <=> i > k
      BY <1>1, <2>2
    <3>6. QED BY <3>2, <3>3, <3>4, <3>5
  <2>3. QED BY <2>1, <2>2
<1>11. PlaceOK(r)'
  BY <1>1, <1>2, <1>3, Places DEF PlaceOK
<1>12. ThereOK(r)'
  BY <1>1, <1>2, <1>3, Places DEF ThereOK, AtaConfigured, LibOps
<1>13. CountOK(r)'
  <2>1. CASE status'[c] = "err"
    <3>1. j.at = "err"
      BY <1>2, <2>1
    <3>2. Returned(r)' = k /\ Most(r)' = 4
      BY <1>2, <1>3, <3>1 DEF Returned, Most, LibOps
    <3>3. QED BY <1>1, <1>3, <3>1, <3>2 DEF CountOK
  <2>2. CASE status'[c] = "running"
    <3>1. j.at = job[r].at /\ Awaiting(r)'
      BY <1>1, <1>2, <1>3, <2>2 DEF Awaiting, Latest
    <3>2. Returned(r)' = job[r].lib
      BY <1>1, <1>2, <1>3, <3>1 DEF Returned
    <3>3. Most(r)' = Most(r)
      BY <1>2, <1>3, <3>1 DEF Most
    <3>4. Returned(r) = job[r].lib
      BY <1>1 DEF Returned
    <3>5. job[r].at # "log"
      BY <1>1 DEF LibOps
    <3>6. QED BY <1>1, <1>2, <1>3, <3>1, <3>2, <3>3, <3>4, <3>5, Places DEF CountOK
  <2>3. QED BY <1>1, <2>1, <2>2
<1>14. \A p \in Requests : p # r => \A i \in 1..4 :
          status'[<<p, i>>] = status[<<p, i>>] /\ call'[<<p, i>>] = call[<<p, i>>]
  BY <1>1, WalletFacts
<1>15. mint' \in {"none", "ours", "foreign"} /\ ata' \subseteq Wallets
  BY <1>1 DEF SInv, ServerTypeOK
<1>16. QED BY <1>1, <1>2, <1>4, <1>5, <1>8, <1>9, <1>10, <1>11, <1>12, <1>13, <1>14, <1>15,
              HandlerStep DEF JobOK

\* Where the handler goes when a call has returned.
LEMMA LibAwaitFacts ==
    ASSUME SInv, NEW r \in Requests, LibAwait(r)
    PROVE  LET c == Latest(r)
           IN  /\ job[r].at \in LibOps /\ Awaiting(r) /\ status[c] = "running"
               /\ c \in Calls /\ c = <<r, job[r].lib>> /\ job[r].lib \in 1..4
               /\ Confirm(c) \/ Fail(c) \/ Timeout(c)
               /\ call[c] = LibRequest(job[r])
               /\ job[r].lib - 1 <= Most(r)
               /\ UNCHANGED <<mint, ata, events>>
               /\ status'[c] \in {"running", "ok", "err"}
               /\ status'[c] # "err" => Confirm(c)
               /\ \E j \in Job :
                     /\ job' = [job EXCEPT ![r] = j]
                     /\ j.kind = job[r].kind /\ j.lib = job[r].lib
                     /\ j.amount = job[r].amount /\ j.seen = job[r].seen
                     /\ j.goal = job[r].goal /\ j.there = job[r].there /\ j.order = job[r].order
                     /\ \/ status'[c] = "running" /\ j = job[r]
                        \/ status'[c] = "err" /\ j.at = "err" /\ j.wallet = job[r].wallet
                        \/ /\ status'[c] = "ok" /\ job[r].at = "configure"
                           /\ job[r].wallet = SenderWallet
                           /\ j.wallet = ReceiverWallet /\ j.at = "ensure"
                        \/ /\ status'[c] = "ok" /\ job[r].at = "configure"
                           /\ job[r].wallet = ReceiverWallet
                           /\ j.wallet = SenderWallet /\ j.at = "fund"
                        \/ /\ status'[c] = "ok" /\ job[r].at = "deposit"
                           /\ j.at = "apply" /\ j.wallet = job[r].wallet
                        \/ /\ status'[c] = "ok" /\ job[r].at \in {"apply", "transfer"}
                           /\ j.at = "log" /\ j.wallet = job[r].wallet
<1> DEFINE lib == job[r].lib
           c == Latest(r)
<1>1. /\ job[r].at \in LibOps /\ Awaiting(r) /\ status[c] = "running" /\ lib > 0
      /\ c = <<r, lib>>
      /\ Confirm(c) \/ Fail(c) \/ Timeout(c)
      /\ UNCHANGED <<mint, ata, events>>
      /\ job' = [job EXCEPT ![r] = CASE status'[c] = "running" -> job[r]
                                     [] status'[c] = "ok"      -> Advanced(job[r])
                                     [] status'[c] = "err"     -> [job[r] EXCEPT !.at = "err"]]
  BY DEF LibAwait, Awaiting, Latest
<1>2. lib \in 1..4
  <2>1. lib \in 0..4
    BY Places
  <2> HIDE DEF lib
  <2>2. QED BY <1>1, <2>1
<1>3. c \in Calls
  BY <1>1, <1>2, WalletFacts
<1>4. call[c] = LibRequest(job[r])
  BY <1>1, <1>2, Places DEF CallsOf
<1>5. lib - 1 <= Most(r)
  BY <1>1, Places DEF CountOK, Returned
<1>6. status'[c] \in {"running", "ok", "err"} /\ (status'[c] # "err" => Confirm(c))
  <2>1. status \in [Calls -> {"idle", "running", "ok", "err"}]
    BY DEF SInv, IInv, TypeOK
  <2>2. CASE Confirm(c)
    BY <1>1, <1>3, <2>1, <2>2 DEF Confirm
  <2>3. CASE Fail(c) \/ Timeout(c)
    BY <1>3, <2>1, <2>3 DEF Fail, Timeout
  <2>4. QED BY <1>1, <2>2, <2>3
<1>7. job[r] \in Job /\ job[r].wallet \in Wallets
  BY Places
<1> HIDE DEF c
<1>8. CASE status'[c] = "running"
  <2>1. job' = [job EXCEPT ![r] = job[r]]
    BY <1>1, <1>8
  <2>2. QED BY <1>1, <1>2, <1>3, <1>4, <1>5, <1>6, <1>7, <1>8, <2>1 DEF c
<1>9. CASE status'[c] = "err"
  <2> DEFINE j == [job[r] EXCEPT !.at = "err"]
  <2>1. job' = [job EXCEPT ![r] = j]
    BY <1>1, <1>9
  <2>2. /\ j \in Job /\ j.kind = job[r].kind /\ j.lib = job[r].lib /\ j.wallet = job[r].wallet
        /\ j.amount = job[r].amount /\ j.seen = job[r].seen /\ j.at = "err"
        /\ j.goal = job[r].goal /\ j.there = job[r].there /\ j.order = job[r].order
    BY <1>7 DEF Job, Ended
  <2> HIDE DEF j
  <2>3. QED BY <1>1, <1>2, <1>3, <1>4, <1>5, <1>6, <1>9, <2>1, <2>2 DEF c
<1>10. CASE status'[c] = "ok"
  <2> DEFINE j == Advanced(job[r])
  <2>1. job' = [job EXCEPT ![r] = j]
    BY <1>1, <1>10
  <2>2. /\ j \in Job /\ j.kind = job[r].kind /\ j.lib = job[r].lib
        /\ j.amount = job[r].amount /\ j.seen = job[r].seen
        /\ j.goal = job[r].goal /\ j.there = job[r].there /\ j.order = job[r].order
        /\ \/ /\ job[r].at = "configure" /\ job[r].wallet = SenderWallet
              /\ j.wallet = ReceiverWallet /\ j.at = "ensure"
           \/ /\ job[r].at = "configure" /\ job[r].wallet = ReceiverWallet
              /\ j.wallet = SenderWallet /\ j.at = "fund"
           \/ job[r].at = "deposit" /\ j.at = "apply" /\ j.wallet = job[r].wallet
           \/ job[r].at \in {"apply", "transfer"} /\ j.at = "log" /\ j.wallet = job[r].wallet
    <3>1. CASE job[r].at = "configure" /\ job[r].wallet = SenderWallet
      <4>1. j = [job[r] EXCEPT !.wallet = ReceiverWallet, !.at = "ensure"]
        BY <3>1 DEF Advanced, AccountReady
      <4>2. QED BY <1>7, <3>1, <4>1, WalletFacts DEF Job, Reads
    <3>2. CASE job[r].at = "configure" /\ job[r].wallet # SenderWallet
      <4>1. j = [job[r] EXCEPT !.wallet = SenderWallet, !.at = "fund"]
        BY <3>2 DEF Advanced, AccountReady
      <4>2. job[r].wallet = ReceiverWallet
        BY <1>7, <3>2, WalletFacts
      <4>3. QED BY <1>7, <3>2, <4>1, <4>2, WalletFacts DEF Job, Reads
    <3>3. CASE job[r].at \in {"deposit", "apply", "transfer"}
      <4> DEFINE place == IF job[r].at = "deposit" THEN "apply" ELSE "log"
      <4>1. j = [job[r] EXCEPT !.at = place]
        BY <3>3 DEF Advanced, After
      <4>2. place \in {"apply", "log"} /\ (place = "apply" <=> job[r].at = "deposit")
        OBVIOUS
      <4> HIDE DEF place
      <4>3. QED BY <1>7, <3>3, <4>1, <4>2 DEF Job, LibOps
    <3>4. QED BY <1>1, <3>1, <3>2, <3>3 DEF LibOps
  <2> HIDE DEF j
  <2>3. QED BY <1>1, <1>2, <1>3, <1>4, <1>5, <1>6, <1>10, <2>1, <2>2 DEF c
<1>11. QED BY <1>6, <1>8, <1>9, <1>10 DEF c

LEMMA LibAwaitKeepsSInv ==
    ASSUME SInv, NEW r \in Requests, LibAwait(r)
    PROVE  SInv'
<1> DEFINE k == job[r].lib
           c == Latest(r)
<1>1. /\ job[r].at \in LibOps /\ Awaiting(r) /\ status[c] = "running"
      /\ c \in Calls /\ c = <<r, k>> /\ k \in 1..4
      /\ Confirm(c) \/ Fail(c) \/ Timeout(c)
      /\ call[c] = LibRequest(job[r])
      /\ k - 1 <= Most(r)
      /\ mint' = mint /\ ata' = ata /\ events' = events
      /\ status'[c] \in {"running", "ok", "err"}
      /\ status'[c] # "err" => Confirm(c)
  BY LibAwaitFacts
<1>2. PICK j \in Job :
        /\ job' = [job EXCEPT ![r] = j] /\ j.kind = job[r].kind /\ j.lib = k
        /\ \/ status'[c] = "running" /\ j = job[r]
           \/ status'[c] = "err" /\ j.at = "err" /\ j.wallet = job[r].wallet
           \/ /\ status'[c] = "ok" /\ job[r].at = "configure"
              /\ job[r].wallet = SenderWallet
              /\ j.wallet = ReceiverWallet /\ j.at = "ensure"
           \/ /\ status'[c] = "ok" /\ job[r].at = "configure"
              /\ job[r].wallet = ReceiverWallet
              /\ j.wallet = SenderWallet /\ j.at = "fund"
           \/ /\ status'[c] = "ok" /\ job[r].at = "deposit"
              /\ j.at = "apply" /\ j.wallet = job[r].wallet
           \/ /\ status'[c] = "ok" /\ job[r].at \in {"apply", "transfer"}
              /\ j.at = "log" /\ j.wallet = job[r].wallet
  BY LibAwaitFacts
<1>3. job'[r] = j
  BY <1>2, Places
<1>4. /\ IInv' /\ Grows /\ call' = call
      /\ (\A w \in Wallets : AtaConfigured(w) => w \in ata)'
      /\ CallsOnExistingAccounts' /\ \A d \in Calls : Served(d)'
      /\ \A d \in Calls : d # c => status'[d] = status[d]
      /\ Confirm(c) /\ call[c].op = "configure" => acct'[Sender(c)].configured
  BY <1>1, LibEffect
<1>5. job[r].at = "configure" /\ status'[c] = "ok" => acct'[job[r].wallet].configured
  BY <1>1, <1>4 DEF LibRequest, Sender
<1>6. \A w \in Wallets : AtaConfigured(w) => acct'[w].configured
  BY <1>4 DEF Grows, AtaConfigured
<1> HIDE DEF c
<1>7. PlaceOK(r)'
  <2>1. job[r].at = "deposit" => job[r].kind = "init" /\ job[r].wallet = SenderWallet
    BY Places DEF PlaceOK
  <2>2. QED BY <1>2, <1>3, <2>1, Places DEF PlaceOK
<1>8. CallsOf(r)'
  <2> SUFFICES ASSUME NEW i \in 1..4
      PROVE  /\ i > k <=> status'[<<r, i>>] = "idle"
             /\ status'[<<r, i>>] = "running" =>
                    i = k /\ j.at \in LibOps /\ call'[<<r, i>>] = LibRequest(j)
    BY <1>2, <1>3 DEF CallsOf
  <2>1. CASE i = k
    BY <1>1, <1>2, <1>4, <2>1
  <2>2. CASE i # k
    <3>1. <<r, i>> \in Calls /\ <<r, i>> # c
      BY <1>1, <2>2, WalletFacts
    <3>2. status'[<<r, i>>] = status[<<r, i>>]
      BY <1>4, <3>1
    <3>3. QED BY <2>2, <3>2, Places DEF CallsOf
  <2>3. QED BY <2>1, <2>2
<1>9. ThereOK(r)'
  <2>1. mint # "none" /\ mint' = mint /\ ata' = ata
    BY <1>1, Places DEF ThereOK
  <2>2. CASE status'[c] = "running"
    BY <1>2, <1>3, <1>6, <2>1, <2>2, Places, WalletFacts DEF ThereOK, AtaConfigured, LibOps
  <2>3. CASE j.at \in {"err", "log"}
    BY <1>3, <2>3 DEF ThereOK, LibOps
  <2>4. CASE j.at = "ensure" /\ status'[c] = "ok"
    BY <1>1, <1>2, <1>3, <1>5, <2>1, <2>4 DEF ThereOK, AtaConfigured, LibOps
  <2>5. CASE j.at = "fund" /\ status'[c] = "ok"
    <3>1. job[r].at = "configure" /\ job[r].wallet = ReceiverWallet
      BY <1>2, <2>5
    <3>2. acct'[ReceiverWallet].configured /\ acct'[SenderWallet].configured
      BY <1>5, <1>6, <2>5, <3>1, Places, WalletFacts DEF ThereOK
    <3>3. \A w \in Wallets : acct'[w].configured
      BY <3>2, WalletFacts
    <3>4. QED BY <1>3, <2>1, <2>5, <3>3 DEF ThereOK, AtaConfigured, LibOps
  <2>6. CASE j.at = "apply" /\ status'[c] = "ok"
    <3>1. \A w \in Wallets : acct'[w].configured
      BY <1>2, <1>6, <2>6, Places DEF ThereOK
    <3>2. QED BY <1>3, <2>1, <2>6, <3>1 DEF ThereOK, AtaConfigured, LibOps
  <2>7. QED BY <1>2, <2>2, <2>3, <2>4, <2>5, <2>6
<1>10. CountOK(r)'
  <2>1. Returned(r) = k - 1
    BY <1>1 DEF Returned
  <2>2. CASE status'[c] = "running"
    <3>1. Awaiting(r)' /\ Most(r)' = Most(r)
      BY <1>1, <1>2, <1>3, <2>2 DEF Awaiting, Latest, Most
    <3>2. Returned(r)' = k - 1
      BY <1>1, <1>2, <1>3, <2>2, <3>1 DEF Returned
    <3>3. QED BY <1>2, <1>3, <2>1, <2>2, <3>1, <3>2, Places DEF CountOK
  <2>3. CASE status'[c] # "running"
    <3>1. ~Awaiting(r)'
      BY <1>1, <1>2, <1>3, <2>3 DEF Awaiting, Latest
    <3>2. Returned(r)' = k
      BY <1>2, <1>3, <3>1 DEF Returned
    <3>3. k <= Most(r)'
      <4>1. CASE j.at \in {"err", "log"}
        BY <1>1, <1>3, <4>1 DEF Most
      <4>2. CASE j.at \in {"ensure", "fund", "apply"}
        BY <1>1, <1>2, <1>3, <2>3, <4>2, WalletFacts DEF Most
      <4>3. QED BY <1>2, <2>3, <4>1, <4>2
    <3>4. job[r].at = "apply" /\ job[r].kind = "init" => k >= 2
      BY <1>1, <2>1, Places DEF CountOK
    <3>5. j.at = "log" => k >= (IF j.kind = "init" THEN 2 ELSE 1)
      <4>1. job[r].at = "transfer" => job[r].kind # "init"
        BY Places DEF PlaceOK
      <4>2. QED BY <1>1, <1>2, <2>3, <3>4, <4>1
    <3>6. QED BY <1>1, <1>2, <1>3, <3>2, <3>3, <3>5 DEF CountOK
  <2>4. QED BY <2>2, <2>3
<1>11. \A p \in Requests : p # r => \A i \in 1..4 :
          status'[<<p, i>>] = status[<<p, i>>] /\ call'[<<p, i>>] = call[<<p, i>>]
  BY <1>1, <1>4, WalletFacts
<1>12. mint' \in {"none", "ours", "foreign"} /\ ata' \subseteq Wallets
  BY <1>1 DEF SInv, ServerTypeOK
<1>13. QED BY <1>1, <1>2, <1>4, <1>7, <1>8, <1>9, <1>10, <1>11, <1>12, HandlerStep DEF JobOK

-----------------------------------------------------------------------------

LEMMA NextKeepsSInv == SInv /\ [ServerNext]_allVars => SInv'
<1> SUFFICES ASSUME SInv, [ServerNext]_allVars PROVE SInv'
  OBVIOUS
<1>1. ASSUME NEW r \in Requests, NEW b \in Bodies, Receive(r, b) PROVE SInv'
  BY <1>1, ReceiveKeepsSInv
<1>2. ASSUME NEW r \in Requests, Handle(r) PROVE SInv'
  BY <1>2, EndsKeepSInv, EnsureKeepsSInv, FundKeepsSInv, PreviewKeepsSInv, OwnConfirmKeepsSInv,
     OwnTimeoutKeepsSInv, LibBeginKeepsSInv, LibAwaitKeepsSInv, LogKeepsSInv, ViewKeepsSInv
     DEF Handle
<1>3. ASSUME NEW r \in Requests, OwnLandLate(r) \/ OwnExpire(r) PROVE SInv'
  BY <1>3, OwnSettlesKeepsSInv
<1>4. ASSUME NEW c \in Calls, LibSettle(c) PROVE SInv'
  BY <1>4, LibSettleKeepsSInv
<1>5. CASE Restart
  BY <1>5, RestartKeepsSInv
<1>6. CASE UNCHANGED allVars
  <2>1. /\ UNCHANGED vars /\ mint' = mint /\ ata' = ata /\ events' = events /\ job' = job
        /\ acct' = acct /\ call' = call /\ status' = status
    BY <1>6 DEF allVars, vars
  <2>2. IInv'
    BY <2>1, NextKeepsIInv DEF SInv
  <2>3. Grows
    BY <2>1 DEF Grows
  <2>4. CallsOnExistingAccounts' /\ \A c \in Calls : Served(c)'
    BY <2>1, <2>3, CallsKept
  <2>5. \A q \in Requests : JobOK(q)'
    BY <2>1, <2>3, SpectatorKept DEF Spectator
  <2>6. ServerTypeOK'
    BY <2>1, <2>2 DEF SInv, ServerTypeOK, IInv
  <2>7. (\A w \in Wallets : AtaConfigured(w) => w \in ata)'
    BY <2>1 DEF SInv, AtaConfigured
  <2>8. QED BY <2>2, <2>4, <2>5, <2>6, <2>7 DEF SInv
<1>7. QED BY <1>1, <1>2, <1>3, <1>4, <1>5, <1>6 DEF ServerNext

\* It holds of the server.
THEOREM ServerInvariant == ServerSpec => []SInv
BY InitSInv, NextKeepsSInv, PTL DEF ServerSpec

\* Type correctness of the server with the library under it: no balance and no
\* amount is ever negative, an init makes four library calls at most, and the
\* log keeps to its limit.
THEOREM ServerTypeCorrect == ServerSpec => []ServerTypeOK
<1>1. SInv => ServerTypeOK
  BY DEF SInv
<1>2. QED BY <1>1, ServerInvariant, PTL

\* The library is only called on token accounts that exist, whatever was
\* interrupted before, and but for configure on configured ones.
THEOREM LibraryCallsFindAccounts == ServerSpec => []CallsOnExistingAccounts
<1>1. SInv => CallsOnExistingAccounts
  BY DEF SInv
<1>2. QED BY <1>1, ServerInvariant, PTL

\* The credit limit that init configures both accounts with keeps the low half
\* of what is pending decryptable, across restarts and whatever lands late.
THEOREM ServerPendingLoDecryptable == ServerSpec => []PendingLoDecryptable
<1>1. SInv => PendingLoDecryptable
  BY LoDecrypts DEF SInv
<1>2. QED BY <1>1, ServerInvariant, PTL
=============================================================================
