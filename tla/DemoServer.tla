----------------------------- MODULE DemoServer -----------------------------
(* The handlers of the demo server as concurrent requests on top of the      *)
(* library of BalanceOps. A handler checks the chain, sends transactions of   *)
(* its own and calls the library, one await after the other; no lock spans    *)
(* two of them, and every request runs on a runtime of its own, so requests   *)
(* interleave at each await. The process can stop and start again: its        *)
(* requests and its event log are gone, what it sent last may still land.     *)
EXTENDS BalanceOps

CONSTANTS
    Requests,                     \* HTTP requests, each received at most once
    Bodies,                       \* what a request may ask
    SenderWallet, ReceiverWallet,
    StartMints,                   \* what the mint may be at the start
    Target,                       \* initial_deposit_ui, in base units
    Keep                          \* RECENT_EVENTS_KEEP

\* A request for /demo/state has kind "state"; the wallet of an apply is the
\* account it names. Only transfers carry an amount.
Body ==
    {b \in [kind : {"init", "transfer", "apply", "state"}, wallet : Wallets, amount : Nat] :
        b.kind # "apply" => b.wallet = SenderWallet}

ASSUME ServerAssumption ==
    /\ Wallets = {SenderWallet, ReceiverWallet}
    /\ SenderWallet # ReceiverWallet
    /\ Bodies \subseteq Body
    /\ Calls = Requests \X (1..4)    \* an init makes at most four library calls
    /\ Target \in Nat
    /\ Keep \in Nat \ {0}
    /\ StartMints \subseteq {"none", "ours", "foreign"}
    /\ StartConfigured # {} => "none" \notin StartMints
    /\ \A w \in Wallets : StartPublic[w] > 0 => w \in StartConfigured

VARIABLES
    mint,     \* "none", "ours", or "foreign": another auditor, or not this kind of mint
    ata,      \* the wallets whose token account exists
    events,   \* the event log, newest first
    job       \* each request and how far its handler has got

serverVars == <<mint, ata, events, job>>
allVars == <<acct, ctx, landed, call, status, done, snap, flight, mint, ata, events, job>>

OwnTxs    == {"create_mint", "create_ata", "mint_to"}
LibOps    == {"configure", "deposit", "apply", "transfer"}
Reads     == {"mint", "ensure", "fund", "check", "view_sender", "view_receiver"}
Ended     == {"ok", "err", "lost"}

Job ==
    [kind   : {"none", "init", "transfer", "apply", "state"},
     at     : {"idle", "preview", "log"} \cup Reads \cup OwnTxs \cup LibOps \cup Ended,
     wallet : Wallets,            \* the account being worked on
     amount : Nat,                \* what is missing, asked for, or believed applied
     extra  : Nat,                \* what init mints
     lib    : 0..4,               \* library calls made so far
     late   : OwnTxs \cup {"none"},   \* sent, never confirmed, may still land
     seen   : [{"sender", "receiver"} -> Account(Calls)],   \* the accounts as answered
     \* history, which no step depends on:
     goal   : Nat,                \* what Funds has to come to for an init that has looked
     there  : Nat,                \* the tokens there were when the answer was begun
     order  : SUBSET Requests]    \* once it has logged: itself and all that had before

\* The amount is that of the handler, the signature the n-th of a library call.
LogEntry == [kind : {"init", "transfer", "apply"}, amount : Nat, sig : Calls \X (1..5)]

NoJob ==
    [kind |-> "none", at |-> "idle", wallet |-> SenderWallet, amount |-> 0, extra |-> 0,
     lib |-> 0, late |-> "none",
     seen |-> [v \in {"sender", "receiver"} |-> Unconfigured(0)],
     goal |-> 0, there |-> 0, order |-> {}]

ServerInit ==
    /\ Init
    /\ mint \in StartMints
    /\ ata = StartConfigured
    /\ events = <<>>
    /\ job = [r \in Requests |-> NoJob]

-----------------------------------------------------------------------------
\* Reading the chain.

\* Mutant of AtaConfigured: the account is taken for configured once it exists.
AtaConfiguredOnceThere(w) == w \in ata

\* The account exists and has the confidential transfer extension.
AtaConfigured(w) == acct[w].configured

\* What read_account_view makes of the pending halves: one that decrypt_u32
\* does not answer for counts as zero.
PendingShown(a) ==
    LET Half(v) == IF DecryptsU32(v) THEN v ELSE 0
    IN  Half(a.pending_lo) + Half(a.pending_hi) * LoBase

\* The three numbers of an AccountView, added up. An account that does not exist
\* shows zeros, one that is not configured its public balance; they have no more.
Shown(a) == a.public + PendingShown(a) + a.decryptable_available

RequireInitialized == mint # "none" /\ \A w \in Wallets : AtaConfigured(w)

-----------------------------------------------------------------------------
\* The handlers. At(r, place) is the await a request is at.

At(r, place) == job[r].at = place

Running(r) == job[r].at \notin {"idle"} \cup Ended

Goto(r, place) == job' = [job EXCEPT ![r].at = place]

\* A call id of the library is a request and a count.
Latest(r)   == <<r, job[r].lib>>
Awaiting(r) == job[r].lib > 0 /\ status[Latest(r)] = "running"

\* Where each handler begins.
Entry ==
    [init |-> "mint", transfer |-> "check", apply |-> "check", state |-> "view_sender"]

Receive(r, b) ==
    /\ At(r, "idle")
    /\ job' = [job EXCEPT ![r] = [NoJob EXCEPT !.kind = b.kind, !.wallet = b.wallet,
                                               !.amount = b.amount, !.at = Entry[b.kind]]]
    /\ UNCHANGED <<vars, mint, ata, events>>

\* Any RPC read can fail, or find too few lamports with the payer or the
\* sender; the handler answers the error.
ReadFails(r) ==
    /\ job[r].at \in Reads
    /\ Goto(r, "err")
    /\ UNCHANGED <<vars, mint, ata, events>>

\* init: the mint is created, or verified to be ours.
CheckMint(r) ==
    /\ At(r, "mint")
    /\ Goto(r, [none |-> "create_mint", ours |-> "ensure", foreign |-> "err"][mint])
    /\ UNCHANGED <<vars, mint, ata, events>>

\* init goes on to the receiver's account, and then to the funding.
AccountReady(j) ==
    IF j.wallet = SenderWallet
    THEN [j EXCEPT !.wallet = ReceiverWallet, !.at = "ensure"]
    ELSE [j EXCEPT !.wallet = SenderWallet, !.at = "fund"]

\* Mutant of Ensure: the account is configured without being created.
EnsureUncreated(r) ==
    /\ At(r, "ensure")
    /\ job' = [job EXCEPT ![r] =
                   IF AtaConfigured(@.wallet) THEN AccountReady(@)
                   ELSE [@ EXCEPT !.at = "configure"]]
    /\ UNCHANGED <<vars, mint, ata, events>>

Ensure(r) ==
    /\ At(r, "ensure")
    /\ job' = [job EXCEPT ![r] =
                   IF AtaConfigured(@.wallet) THEN AccountReady(@)
                   ELSE [@ EXCEPT !.at = "create_ata"]]
    /\ UNCHANGED <<vars, mint, ata, events>>

\* What has to be minted before needed can be deposited.
Missing(needed, public) == IF public < needed THEN needed - public ELSE 0

\* What the sender was given and can be spent or has been spent.
Funds == acct[SenderWallet].available + acct[ReceiverWallet].available
             + Pending(acct[ReceiverWallet])

\* The target less the sender's decryptable balance.
Needed == Target - acct[SenderWallet].decryptable_available

\* History: what there is and what is missing.
FundsGoal == IF Needed > 0 THEN Funds + Needed ELSE Funds

\* Mutant of Fund: a sender with any balance left is taken for funded.
FundOnce(r) ==
    /\ At(r, "fund")
    /\ LET view  == acct[SenderWallet]
           extra == Missing(Needed, view.public)
       IN  IF Needed <= 0 \/ view.decryptable_available > 0
           THEN job' = [job EXCEPT ![r].goal = FundsGoal, ![r].at = "view_sender"]
           ELSE job' = [job EXCEPT ![r].goal = FundsGoal, ![r].amount = Needed,
                                   ![r].extra = extra,
                                   ![r].at = IF extra > 0 THEN "mint_to" ELSE "deposit"]
    /\ UNCHANGED <<vars, mint, ata, events>>

\* init: the sender's decryptable balance is compared with the target.
Fund(r) ==
    /\ At(r, "fund")
    /\ LET extra == Missing(Needed, acct[SenderWallet].public)
       IN  IF Needed <= 0
           THEN job' = [job EXCEPT ![r].goal = FundsGoal, ![r].at = "view_sender"]
           ELSE job' = [job EXCEPT ![r].goal = FundsGoal, ![r].amount = Needed,
                                   ![r].extra = extra,
                                   ![r].at = IF extra > 0 THEN "mint_to" ELSE "deposit"]
    /\ UNCHANGED <<vars, mint, ata, events>>

\* transfer and apply: the mint and both accounts are there and configured.
Check(r) ==
    /\ At(r, "check")
    /\ Goto(r, IF RequireInitialized
               THEN [transfer |-> "transfer", apply |-> "preview"][job[r].kind]
               ELSE "err")
    /\ UNCHANGED <<vars, mint, ata, events>>

\* apply: the amount for the log is read first; a failed read counts as zero.
Preview(r) ==
    /\ At(r, "preview")
    /\ \E amount \in {PendingShown(acct[job[r].wallet]), 0} :
          job' = [job EXCEPT ![r].amount = amount, ![r].at = "apply"]
    /\ UNCHANGED <<vars, mint, ata, events>>

\* What follows a confirmed transaction or a library call that returned Ok.
After ==
    [create_mint |-> "ensure", create_ata |-> "configure", mint_to |-> "deposit",
     deposit |-> "apply", apply |-> "log", transfer |-> "log"]

Advanced(j) == IF j.at = "configure" THEN AccountReady(j) ELSE [j EXCEPT !.at = After[@]]

-----------------------------------------------------------------------------
\* The server's own transactions.

CreateMint ==
    /\ mint = "none"
    /\ mint' = "ours"
    /\ UNCHANGED <<ata, acct>>

\* The idempotent instruction succeeds on an account that exists.
CreateAta(w) ==
    /\ mint # "none"
    /\ ata' = ata \cup {w}
    /\ UNCHANGED <<mint, acct>>

MintTo(amount) ==
    /\ SenderWallet \in ata
    /\ acct' = [acct EXCEPT ![SenderWallet].public = @ + amount]
    /\ UNCHANGED <<mint, ata>>

OwnTx(j, tx) ==
    /\ \/ tx = "create_mint" /\ CreateMint
       \/ tx = "create_ata"  /\ CreateAta(j.wallet)
       \/ tx = "mint_to"     /\ MintTo(j.extra)
    /\ UNCHANGED <<ctx, landed, clientVars, events>>

OwnConfirm(r) ==
    /\ job[r].at \in OwnTxs
    /\ OwnTx(job[r], job[r].at)
    /\ job' = [job EXCEPT ![r] = Advanced(@)]

OwnFail(r) ==
    /\ job[r].at \in OwnTxs
    /\ Goto(r, "err")
    /\ UNCHANGED <<vars, mint, ata, events>>

OwnTimeout(r) ==
    /\ job[r].at \in OwnTxs
    /\ job' = [job EXCEPT ![r].late = job[r].at, ![r].at = "err"]
    /\ UNCHANGED <<vars, mint, ata, events>>

\* Mutant of OwnLandLate: the transaction can land again and again.
OwnLandLateAgain(r) ==
    /\ job[r].late # "none"
    /\ OwnTx(job[r], job[r].late)
    /\ UNCHANGED job

OwnLandLate(r) ==
    /\ job[r].late # "none"
    /\ OwnTx(job[r], job[r].late)
    /\ job' = [job EXCEPT ![r].late = "none"]

OwnExpire(r) ==
    /\ job[r].late # "none"
    /\ job' = [job EXCEPT ![r].late = "none"]
    /\ UNCHANGED <<vars, mint, ata, events>>

-----------------------------------------------------------------------------
\* The library calls.

LibRequest(j) ==
    [op |-> j.at, wallet |-> j.wallet, to |-> ReceiverWallet, amount |-> j.amount]

LibBegin(r) ==
    LET c == <<r, job[r].lib + 1>>
    IN  /\ job[r].at \in LibOps
        /\ ~Awaiting(r)
        /\ Invoke(c, LibRequest(job[r]))
        /\ job' = [job EXCEPT ![r].lib = @ + 1,
                              ![r].at = IF status'[c] = "err" THEN "err" ELSE @]
        /\ UNCHANGED <<mint, ata, events>>

\* One transaction of the call is confirmed, or the call returns.
LibAwait(r) ==
    LET c == Latest(r)
    IN  /\ job[r].at \in LibOps
        /\ Awaiting(r)
        /\ Confirm(c) \/ Fail(c) \/ Timeout(c)
        /\ job' = [job EXCEPT ![r] = CASE status'[c] = "running" -> @
                                       [] status'[c] = "ok"      -> Advanced(@)
                                       [] status'[c] = "err"     -> [@ EXCEPT !.at = "err"]]
        /\ UNCHANGED <<mint, ata, events>>

LibSettle(c) ==
    /\ LandLate(c) \/ Expire(c)
    /\ UNCHANGED serverVars

-----------------------------------------------------------------------------
\* The event log and the answer.

\* The signature that is logged: of an apply the only one, of init the one of
\* the deposit, the call before the last, and of a transfer number 3 of the
\* list, counted from zero.
LoggedSig(r) ==
    CASE job[r].kind = "apply"    -> <<Latest(r), 1>>
      [] job[r].kind = "init"     -> <<<<r, job[r].lib - 1>>, 1>>
      [] job[r].kind = "transfer" -> <<Latest(r), 4>>

\* Mutants of Logged: the newest entry is last, so that a full log drops it, or
\* the log is never cut.
LoggedLast(log, entry) == IF Len(log) < Keep THEN Append(log, entry) ELSE log

LoggedUncut(log, entry) == <<entry>> \o log

\* The newest entry is first, and Keep entries are kept.
Logged(log, entry) ==
    IF Len(log) < Keep THEN <<entry>> \o log ELSE <<entry>> \o SubSeq(log, 1, Keep - 1)

\* The requests that have logged before.
HaveLogged == {q \in Requests : job[q].order # {}}

Log(r) ==
    /\ At(r, "log")
    /\ events' = Logged(events, [kind |-> job[r].kind, amount |-> job[r].amount,
                                 sig |-> LoggedSig(r)])
    /\ job' = [job EXCEPT ![r].order = HaveLogged \cup {r}, ![r].at = "view_sender"]
    /\ UNCHANGED <<vars, mint, ata>>

\* Mutant of Views: the receiver's account is read first.
ViewsSwapped == [view_sender |-> "receiver", view_receiver |-> "sender"]

\* read_ledger_state reads the sender's account, then the receiver's.
Views == [view_sender |-> "sender", view_receiver |-> "receiver"]

OwnerOf == [sender |-> SenderWallet, receiver |-> ReceiverWallet]

\* History: all the tokens of the demo.
Supply == Worth(SenderWallet) + Worth(ReceiverWallet)

\* Then the log is cloned and the answer is sent.
View(r) ==
    /\ job[r].at \in {"view_sender", "view_receiver"}
    /\ LET v == Views[job[r].at]
       IN  job' = [job EXCEPT ![r].seen[v] = acct[OwnerOf[v]],
                              ![r].there = IF At(r, "view_sender") THEN Supply ELSE @,
                              ![r].at = IF @ = "view_sender" THEN "view_receiver" ELSE "ok"]
    /\ UNCHANGED <<vars, mint, ata, events>>

-----------------------------------------------------------------------------
\* The process stops and starts again. Of every transaction that was waited
\* for it is not known whether it had been sent.
Restart ==
    \E sent \in SUBSET Requests :
        /\ job' = [r \in Requests |->
               IF Running(r)
               THEN [job[r] EXCEPT !.at = "lost",
                                   !.late = IF r \in sent /\ job[r].at \in OwnTxs
                                            THEN job[r].at ELSE @]
               ELSE job[r]]
        /\ status' = [c \in Calls |-> IF status[c] = "running" THEN "err" ELSE status[c]]
        /\ flight' = [c \in Calls |-> flight[c] \/ (status[c] = "running" /\ c[1] \in sent)]
        /\ events' = <<>>
        /\ UNCHANGED <<acct, ctx, landed, call, done, snap, mint, ata>>

\* A step of the handler that runs for request r.
Handle(r) ==
    \/ CheckMint(r) \/ Ensure(r) \/ Fund(r) \/ Check(r) \/ Preview(r)
    \/ OwnConfirm(r) \/ OwnFail(r) \/ OwnTimeout(r)
    \/ LibBegin(r) \/ LibAwait(r)
    \/ Log(r) \/ View(r) \/ ReadFails(r)

ServerNext ==
    \/ \E r \in Requests :
          \/ \E b \in Bodies : Receive(r, b)
          \/ Handle(r)
          \/ OwnLandLate(r) \/ OwnExpire(r)
    \/ \E c \in Calls : LibSettle(c)
    \/ Restart

ServerSpec == ServerInit /\ [][ServerNext]_allVars

-----------------------------------------------------------------------------
\* Properties.

\* Every variable has its type, and the log keeps to its limit.
ServerTypeOK ==
    /\ TypeOK
    /\ mint \in {"none", "ours", "foreign"}
    /\ ata \subseteq Wallets
    /\ events \in Seq(LogEntry)
    /\ Len(events) <= Keep
    /\ job \in [Requests -> Job]

\* The library is only ever called on token accounts that exist, whatever was
\* interrupted before: BalanceOps takes this for granted of its callers. All
\* but configure find both accounts configured.
CallsOnExistingAccounts ==
    \A c \in Calls : call[c] # NoRequest =>
        /\ mint # "none"
        /\ Sender(c) \in ata
        /\ call[c].op # "configure" => \A w \in Wallets : AtaConfigured(w)

\* An init that answers ok has given the sender what it has found missing: since
\* it looked, what is available, with what has been transferred out of it, has
\* grown by that much. Its deposit can be applied by an apply of another request,
\* be spent before it returns, or its mint land twice; none of this loses any
\* of it. Tokens sent out before it looked do not count.
InitOkFunded ==
    \A r \in Requests : job[r].kind = "init" /\ At(r, "ok") => Funds >= job[r].goal

StartSupply == StartPublic[SenderWallet] + StartAvailable[SenderWallet]
                   + StartPublic[ReceiverWallet] + StartAvailable[ReceiverWallet]

\* How far init can overshoot: it adds the target once at most, whatever fails,
\* lands late or runs at the same time, and nothing else makes tokens.
InitMintsOnce ==
    Supply
        <= StartSupply + Target * Cardinality({r \in Requests : job[r].kind = "init"})

\* What the server makes of the ledger of BalanceLedger. Its requests are those
\* of the handlers.
LedgerStep ==
    \E c \in Calls : Ledger!Ask(c, call'[c]) \/ Ledger!Settle(c) \/ Ledger!Answer(c)

\* An init issues the tokens it has found missing.
Issue(r) ==
    /\ job[r].kind = "init"
    /\ PublicBalances' = [PublicBalances EXCEPT ![SenderWallet] = @ + job[r].extra]
    /\ UNCHANGED <<PendingBalances, AvailableBalances, call, landed, Answers>>

\* When the process stops, the calls that have no answer will not get another.
Abandon ==
    /\ \A c \in Calls :
          Answers'[c] # Answers[c] =>
              call[c] # NoRequest /\ Answers[c] = "none" /\ Answers'[c] = "err"
    /\ UNCHANGED <<PublicBalances, PendingBalances, AvailableBalances, call, landed>>

\* Whatever the handlers interleave, and wherever the process stops, balances
\* only change by what was asked of the library, in full, once per call and
\* never below zero, and by what an init issues to the sender.
KeepsLedger ==
    Ledger!LedgerInit
        /\ [][LedgerStep \/ (\E r \in Requests : Issue(r)) \/ Abandon]_(Ledger!ledgerVars)

\* The decryptable balance is right, and the high half is not shown as zero.
Readable(a) == Synced(a) /\ DecryptsU32(a.pending_hi)

\* The two accounts of an answer are read one after the other, and transfers
\* and mints land in between. As long as both can be read, the answer never
\* shows fewer tokens than there were when it was begun: the sender, who pays,
\* is read first.
ShownNeverShort ==
    \A r \in Requests :
        LET s == job[r].seen["sender"]
            v == job[r].seen["receiver"]
        IN  At(r, "ok") /\ Readable(s) /\ Readable(v) => Shown(s) + Shown(v) >= job[r].there

EventsRange == {events[i] : i \in 1..Len(events)}

\* Request r had made its entry when that of e was made.
NewerThan(e, r) == r \in job[e.sig[1][1]].order

\* The auditor's log tells of nothing that has not happened, of nothing twice,
\* and the balances that answer a transfer or an apply come with its entry
\* unless Keep newer ones have pushed it out.
LogFaithful ==
    /\ \A e \in EventsRange :
          LET c == e.sig[1]
          IN  /\ c \in landed
              /\ e.kind # "apply" => e.amount = call[c].amount
    /\ \A i, j \in 1..Len(events) : i # j => events[i].sig[1] # events[j].sig[1]
    /\ \A r \in Requests :
          /\ job[r].at \in {"view_sender", "view_receiver"}
          /\ job[r].kind \in {"transfer", "apply"}
          => \/ \E e \in EventsRange : e.sig[1] = Latest(r)
             \/ Len(events) = Keep /\ \A e \in EventsRange : NewerThan(e, r)

\* demo-server.rs:11: init is idempotent. The tokens of a demo that only runs
\* init are those of one funding.
InitIdempotent == Worth(SenderWallet) <= Target

\* demo-server.rs:11: init ensures that the sender is funded. An init that finds
\* nothing to do finds the target available.
InitFindsFunded ==
    [][\A r \in Requests :
          At(r, "fund") /\ job'[r].at = "view_sender" =>
              acct[SenderWallet].available >= Target]_allVars

\* demo-server.rs:559-560: an apply is logged with the amount that moved.
AppliedAmountLogged ==
    [][\A r \in Requests :
          At(r, "apply") /\ job[r].kind = "apply" /\ Latest(r) \in landed' \ landed =>
              job[r].amount = Pending(acct[job[r].wallet])]_allVars

\* run_transfer.rs:286-289 and the name transfer_sig (demo-server.rs:517): the
\* fourth signature is that of the transfer itself.
LoggedSigMoves ==
    \A e \in EventsRange :
        LET r == call[e.sig[1]] IN Script[r.op][e.sig[2]] = r.op
=============================================================================
