----------------------------- MODULE BalanceOps -----------------------------
(* The library's five operations as concurrent clients of one chain. Each     *)
(* call of a library function reads the accounts once, decides everything     *)
(* from that snapshot, and then sends its transactions one after the other,   *)
(* each waiting for the one before (send_and_confirm_transaction). Nothing    *)
(* locks the accounts: between the read and any of the transactions, those of *)
(* other calls land. A transaction whose confirmation is lost makes the call  *)
(* return Err although it can land later.                                     *)
EXTENDS ConfidentialAccount, Sequences

CONSTANTS
    Wallets,           \* owners of one token account each, all of one mint
    Calls,             \* calls of the library; a call id stands for its fresh randomness
    Menu,              \* the requests a call may carry
    StartConfigured,   \* the wallets whose account is configured at the start
    StartPublic,       \* [Wallets -> Nat], the public balances at the start
    StartAvailable     \* [Wallets -> Nat], deposited and applied before the start

Ops == {"configure", "deposit", "apply", "withdraw", "transfer"}

\* Every request has the fields wallet, to and amount; an operation that takes
\* no recipient or no amount ignores them. A transfer to oneself is left out.
Request == {r \in [op : Ops, wallet : Wallets, to : Wallets, amount : Nat] :
                r.op = "transfer" => r.to # r.wallet}

ASSUME MenuAssumption == Menu \subseteq Request

ASSUME StartAssumption ==
    /\ StartConfigured \subseteq Wallets
    /\ StartPublic \in [Wallets -> Nat]
    /\ StartAvailable \in [Wallets -> Nat]
    /\ \A w \in Wallets : StartAvailable[w] > 0 => w \in StartConfigured

VARIABLES
    \* the chain
    acct,     \* the token account of each wallet
    ctx,      \* live auxiliary accounts <<c, kind>>: proof contexts and the proof record
    landed,   \* the calls whose main instruction has executed
    \* the clients
    call,     \* the request of each call, or NoRequest
    status,   \* "idle", "running", "ok" or "err"
    done,     \* how many signatures the call has collected
    snap,     \* the sender account as the call read it
    flight    \* the last transaction was sent, never confirmed, and may still land

chainVars  == <<acct, ctx, landed>>
clientVars == <<call, status, done, snap, flight>>
vars == <<acct, ctx, landed, call, status, done, snap, flight>>

NoRequest == [op |-> "none"]

ContextKinds == {"pubkey", "equality", "validity", "range", "record"}

\* Mutant of Script: the loop that closes withdraw's contexts stops short.
ScriptCloseForgotten ==
    [configure |-> <<"configure">>,
     deposit   |-> <<"deposit">>,
     apply     |-> <<"apply">>,
     withdraw  |-> <<"equality", "range", "withdraw", "close_equality">>,
     transfer  |-> <<"equality", "validity", "record", "range", "transfer">>]

\* Mutant of Script: the withdrawal is sent among the closings.
ScriptCloseEarly ==
    [ScriptCloseForgotten EXCEPT !.withdraw =
        <<"equality", "range", "close_equality", "withdraw", "close_range">>]

\* The transactions of each operation, in the order in which they are sent.
\* The one named after the operation holds its main instruction. A transfer
\* stages the range proof in a record account: "record" creates it and writes
\* the first chunk, "range" writes the rest and verifies from it.
Script ==
    [configure |-> <<"configure">>,
     deposit   |-> <<"deposit">>,
     apply     |-> <<"apply">>,
     withdraw  |-> <<"equality", "range", "withdraw", "close_equality", "close_range">>,
     transfer  |-> <<"equality", "validity", "record", "range", "transfer">>]

TxKinds == Ops \cup {"equality", "validity", "record", "range",
                     "close_equality", "close_range"}

\* An account with a balance got it by one deposit and one apply.
StartAccount(w) ==
    LET applied == IF StartAvailable[w] > 0 THEN 1 ELSE 0
    IN  [Unconfigured(StartPublic[w]) EXCEPT
            !.configured = w \in StartConfigured,
            !.available = StartAvailable[w],
            !.decryptable_available = StartAvailable[w],
            !.expected_counter = applied,
            !.actual_counter = applied]

Init ==
    /\ acct = [w \in Wallets |-> StartAccount(w)]
    /\ ctx = {}
    /\ landed = {}
    /\ call = [c \in Calls |-> NoRequest]
    /\ status = [c \in Calls |-> "idle"]
    /\ done = [c \in Calls |-> 0]
    /\ snap = [c \in Calls |-> Unconfigured(0)]
    /\ flight = [c \in Calls |-> FALSE]

-----------------------------------------------------------------------------
\* What a call decides from the accounts it has read.

\* Mutants of ApplyReady: pending_balance_hi, or the available balance, is
\* taken without a check that it decrypts.
ApplyReadyAnyHi(a) ==
    a.configured /\ DecryptsU32(a.pending_lo) /\ DecryptsU32(a.available)

ApplyReadyAnyAvailable(a) ==
    a.configured /\ DecryptsU32(a.pending_lo) /\ DecryptsU32(a.pending_hi)

\* All three balances are decrypted; one that does not fit 32 bits is an error.
ApplyReady(a) ==
    /\ a.configured
    /\ DecryptsU32(a.pending_lo)
    /\ DecryptsU32(a.pending_hi)
    /\ DecryptsU32(a.available)

\* Mutants of WithdrawReady: the amount is not compared with the balance, or
\* the balance is read without the limit of decrypt_u32.
WithdrawReadyAnyAmount(a, amount) == a.configured /\ DecryptsU32(a.available)

WithdrawReadyAnyBalance(a, amount) == a.configured /\ amount <= a.available

WithdrawReady(a, amount) ==
    /\ a.configured
    /\ DecryptsU32(a.available)
    /\ amount <= a.available

\* The proofs are generated from the AES ciphertext; the available_balance
\* ciphertext itself is never decrypted.
TransferReady(a, recipient, amount) ==
    /\ recipient.configured
    /\ a.configured
    /\ amount <= a.decryptable_available

Ready(r) ==
    /\ r.op = "apply"    => ApplyReady(acct[r.wallet])
    /\ r.op = "withdraw" => WithdrawReady(acct[r.wallet], r.amount)
    /\ r.op = "transfer" => TransferReady(acct[r.wallet], acct[r.to], r.amount)

\* Mutant of AppliedBalance: the shift of the high half is forgotten.
AppliedBalanceUnshifted(s) == s.available + (s.pending_lo + s.pending_hi)

\* The available balance after applying, from the snapshot.
AppliedBalance(s) == s.available + (s.pending_lo + s.pending_hi * LoBase)

-----------------------------------------------------------------------------
\* The transactions. Each action is the execution of the next transaction of
\* call c: its guard is that every instruction in it succeeds, else the
\* transaction has no effect.

NextTx(c) == Script[call[c].op][done[c] + 1]

Sender(c) == call[c].wallet

Contexts(c, kinds) == {<<c, k>> : k \in kinds}

\* The proof account it creates is not among those any transaction closes.
LandConfigure(c) ==
    /\ NextTx(c) = "configure"
    /\ ~acct[Sender(c)].configured
    /\ acct' = [acct EXCEPT ![Sender(c)] = ConfigureAccount(@)]
    /\ ctx' = ctx \cup Contexts(c, {"pubkey"})
    /\ landed' = landed \cup {c}

\* Mutant of LandDeposit: the public balance is not checked.
LandDepositUnchecked(c) ==
    /\ NextTx(c) = "deposit"
    /\ acct[Sender(c)].configured
    /\ acct' = [acct EXCEPT ![Sender(c)] = Deposit(@, call[c].amount)]
    /\ landed' = landed \cup {c}
    /\ UNCHANGED ctx

LandDeposit(c) ==
    /\ NextTx(c) = "deposit"
    /\ CanDeposit(acct[Sender(c)], call[c].amount)
    /\ acct' = [acct EXCEPT ![Sender(c)] = Deposit(@, call[c].amount)]
    /\ landed' = landed \cup {c}
    /\ UNCHANGED ctx

LandApply(c) ==
    /\ NextTx(c) = "apply"
    /\ acct[Sender(c)].configured
    /\ acct' = [acct EXCEPT ![Sender(c)] =
                    ApplyPendingBalance(@, snap[c].credit_counter, AppliedBalance(snap[c]))]
    /\ landed' = landed \cup {c}
    /\ UNCHANGED ctx

\* Mutant of LandEquality: nothing ties the two ciphertexts together.
LandEqualityUntied(c) ==
    /\ NextTx(c) = "equality"
    /\ ctx' = ctx \cup Contexts(c, {"equality"})
    /\ UNCHANGED <<acct, landed>>

\* The equality proof ties the new available_balance ciphertext to the
\* plaintext it was generated from. In a transfer that plaintext came from the
\* AES ciphertext, so the proof verifies only if the two agreed when read.
LandEquality(c) ==
    /\ NextTx(c) = "equality"
    /\ call[c].op = "transfer" => snap[c].decryptable_available = snap[c].available
    /\ ctx' = ctx \cup Contexts(c, {"equality"})
    /\ UNCHANGED <<acct, landed>>

LandValidity(c) ==
    /\ NextTx(c) = "validity"
    /\ ctx' = ctx \cup Contexts(c, {"validity"})
    /\ UNCHANGED <<acct, landed>>

LandRecord(c) ==
    /\ NextTx(c) = "record"
    /\ ctx' = ctx \cup Contexts(c, {"record"})
    /\ UNCHANGED <<acct, landed>>

\* A transfer's range proof also bounds the two halves of the amount.
LandRange(c) ==
    /\ NextTx(c) = "range"
    /\ call[c].op = "transfer" =>
           /\ <<c, "record">> \in ctx
           /\ call[c].amount <= MaxAmount
    /\ ctx' = ctx \cup Contexts(c, {"range"})
    /\ UNCHANGED <<acct, landed>>

LandWithdraw(c) ==
    /\ NextTx(c) = "withdraw"
    /\ Contexts(c, {"equality", "range"}) \subseteq ctx
    /\ CanDebit(acct[Sender(c)], snap[c])
    /\ acct' = [acct EXCEPT ![Sender(c)] =
                    Withdraw(@, call[c].amount, snap[c].available - call[c].amount)]
    /\ landed' = landed \cup {c}
    /\ UNCHANGED ctx

LandClose(c) ==
    /\ \/ /\ NextTx(c) = "close_equality"
          /\ ctx' = ctx \ Contexts(c, {"equality"})
       \/ /\ NextTx(c) = "close_range"
          /\ ctx' = ctx \ Contexts(c, {"range"})
    /\ UNCHANGED <<acct, landed>>

\* The transfer and the closing of its four accounts are one transaction.
LandTransfer(c) ==
    /\ NextTx(c) = "transfer"
    /\ Contexts(c, {"equality", "validity", "range", "record"}) \subseteq ctx
    /\ CanDebit(acct[Sender(c)], snap[c])
    /\ CanCredit(acct[call[c].to])
    /\ acct' = [acct EXCEPT
           ![Sender(c)] = DebitTransfer(@, call[c].amount, {c},
                              snap[c].decryptable_available - call[c].amount),
           ![call[c].to] = Credit(@, call[c].amount, {c})]
    /\ ctx' = ctx \ Contexts(c, {"equality", "validity", "range", "record"})
    /\ landed' = landed \cup {c}

Land(c) ==
    \/ LandConfigure(c)
    \/ LandDeposit(c)
    \/ LandApply(c)
    \/ LandEquality(c)
    \/ LandValidity(c)
    \/ LandRecord(c)
    \/ LandRange(c)
    \/ LandWithdraw(c)
    \/ LandClose(c)
    \/ LandTransfer(c)

-----------------------------------------------------------------------------
\* The clients.

\* The call reads the accounts and returns at once if they rule it out. A
\* transfer reads its recipient a moment before its sender; no account is ever
\* unconfigured again, so one read stands for both.
Invoke(c, r) ==
    /\ status[c] = "idle"
    /\ call' = [call EXCEPT ![c] = r]
    /\ snap' = [snap EXCEPT ![c] = acct[r.wallet]]   \* configure and deposit do not look at it
    /\ status' = [status EXCEPT ![c] = IF Ready(r) THEN "running" ELSE "err"]
    /\ UNCHANGED <<acct, ctx, landed, done, flight>>

\* Mutant of Confirm: Ok is returned one transaction early.
ConfirmEarly(c) ==
    /\ status[c] = "running"
    /\ Land(c)
    /\ done' = [done EXCEPT ![c] = @ + 1]
    /\ status' = [status EXCEPT ![c] =
                      IF done[c] + 2 >= Len(Script[call[c].op]) THEN "ok" ELSE @]
    /\ UNCHANGED <<call, snap, flight>>

\* send_and_confirm_transaction answers with the signature. The call goes on
\* to its next transaction, or returns Ok after the last.
Confirm(c) ==
    /\ status[c] = "running"
    /\ Land(c)
    /\ done' = [done EXCEPT ![c] = @ + 1]
    /\ status' = [status EXCEPT ![c] =
                      IF done[c] + 1 = Len(Script[call[c].op]) THEN "ok" ELSE @]
    /\ UNCHANGED <<call, snap, flight>>

\* The transaction is rejected or never sent, or an RPC read before it fails:
\* the call returns the error, and its accounts stay as they are.
Fail(c) ==
    /\ status[c] = "running"
    /\ status' = [status EXCEPT ![c] = "err"]
    /\ UNCHANGED <<acct, ctx, landed, call, done, snap, flight>>

\* The transaction is sent and its confirmation never seen.
Timeout(c) ==
    /\ status[c] = "running"
    /\ status' = [status EXCEPT ![c] = "err"]
    /\ flight' = [flight EXCEPT ![c] = TRUE]
    /\ UNCHANGED <<acct, ctx, landed, call, done, snap>>

\* A transaction whose call has returned Err lands after all.
LandLate(c) ==
    /\ flight[c]
    /\ Land(c)
    /\ flight' = [flight EXCEPT ![c] = FALSE]
    /\ UNCHANGED <<call, status, done, snap>>

\* Mutant of Expire: the transaction names no recent blockhash.
ExpireNever(c) ==
    /\ flight[c]
    /\ call[c].op = "none"
    /\ flight' = [flight EXCEPT ![c] = FALSE]
    /\ UNCHANGED <<acct, ctx, landed, call, status, done, snap>>

\* Its blockhash expires, or it executes and fails.
Expire(c) ==
    /\ flight[c]
    /\ flight' = [flight EXCEPT ![c] = FALSE]
    /\ UNCHANGED <<acct, ctx, landed, call, status, done, snap>>

Next ==
    \E c \in Calls :
        \/ \E r \in Menu : Invoke(c, r)
        \/ Confirm(c)
        \/ Fail(c)
        \/ Timeout(c)
        \/ LandLate(c)
        \/ Expire(c)

Spec == Init /\ [][Next]_vars

-----------------------------------------------------------------------------
\* Properties.

\* Every variable has its type. In particular no balance is ever negative:
\* the chain accepts a withdrawal or a transfer without seeing the amount it
\* is taken from, on proofs about a balance read earlier.
TypeOK ==
    /\ acct \in [Wallets -> Account(Calls)]
    /\ ctx \subseteq Calls \X ContextKinds
    /\ landed \subseteq Calls
    /\ call \in [Calls -> Request \cup {NoRequest}]
    /\ status \in [Calls -> {"idle", "running", "ok", "err"}]
    /\ done \in [Calls -> 0..5]
    /\ snap \in [Calls -> Account(Calls)]
    /\ flight \in [Calls -> BOOLEAN]

\* The tokens of an account, in all its forms.
Worth(w) == acct[w].public + Pending(acct[w]) + acct[w].available

Synced(a) == a.decryptable_available = a.available

\* The decryptable balance that the owner's wallet shows and that the next
\* transfer is built on is the available balance.
DecryptableIsAvailable == \A w \in Wallets : Synced(acct[w])

\* An apply is overtaken when the total it read is not the total it applies.
Overtaken(c) ==
    LET now == acct[Sender(c)]
    IN  snap[c].available + Pending(snap[c]) # now.available + Pending(now)

\* An account whose decryptable balance is wrong after a step either was not
\* touched in these two fields by the step, or has just been hit by an apply
\* that was overtaken between its read (apply_pending.rs:40) and its landing.
\* No debit, deposit, credit or late transaction can put the two out of step.
OnlyOvertakenApplyDesyncs ==
    [][\A w \in Wallets :
          ~Synced(acct'[w]) =>
              \/ /\ acct'[w].available = acct[w].available
                 /\ acct'[w].decryptable_available = acct[w].decryptable_available
              \/ \E c \in landed' \ landed :
                    call[c].op = "apply" /\ Sender(c) = w /\ Overtaken(c)]_vars

\* Whenever a withdrawal or a transfer lands, be it late or after a concurrent
\* call on the same account, the balance it is taken from is the one it read,
\* is enough, and the decryptable balance it stores is what is left. This is
\* the absence of double spending: of two debits prepared from one read, the
\* second to land is refused unless the first is undone.
DebitsUseTheirRead ==
    [][\A c \in landed' \ landed :
          call[c].op \in {"withdraw", "transfer"} =>
              LET before == acct[Sender(c)]
                  after  == acct'[Sender(c)]
              IN  /\ before.available = snap[c].available
                  /\ call[c].amount <= before.available
                  /\ after.available = before.available - call[c].amount
                  /\ Synced(after)]_vars

\* The credit limit that configure asks for (configure.rs:57) keeps
\* pending_balance_lo decryptable however many credits of whatever amounts
\* arrive before the owner applies.
PendingLoDecryptable == \A w \in Wallets : DecryptsU32(acct[w].pending_lo)

\* pending_balance_hi has no such limit. Once it does not decrypt, no apply
\* started from then on gets through; only one that read the account earlier
\* can still empty it.
PendingHiStuck ==
    [][\A w \in Wallets :
          /\ ~DecryptsU32(acct[w].pending_hi)
          /\ acct'[w].pending_hi < acct[w].pending_hi
          => \E c \in landed' \ landed :
                call[c].op = "apply" /\ Sender(c) = w /\ DecryptsU32(snap[c].pending_hi)]_vars

\* From the decryption bound on, an available balance can only be brought down
\* by a transfer: withdraw_from_confidential cannot decrypt it, and one that
\* read a smaller balance is refused.
AboveBoundOnlyTransferDebits ==
    [][\A w \in Wallets :
          /\ ~DecryptsU32(acct[w].available)
          /\ acct'[w].available < acct[w].available
          => \E c \in landed' \ landed : call[c].op = "transfer" /\ Sender(c) = w]_vars

\* An account is wedged when its available balance does not decrypt and its
\* decryptable balance is wrong: apply and withdraw cannot read it and a
\* transfer cannot prove anything about it.
Wedged(a) == ~DecryptsU32(a.available) /\ ~Synced(a)

\* Nothing started on a wedged account gets it out: only a call that read the
\* account before it was wedged can.
WedgedStays ==
    [][\A w \in Wallets :
          Wedged(acct[w]) /\ ~Wedged(acct'[w]) =>
              \E c \in landed' \ landed :
                  call[c].op \in {"apply", "transfer"} /\ Sender(c) = w /\ ~Wedged(snap[c])]_vars

\* A call that returned Ok has left no auxiliary account of its own behind,
\* except the proof account of configure: every create of withdraw and
\* transfer is matched by a close before the Ok.
RentReclaimed ==
    \A c \in Calls, k \in ContextKinds :
        status[c] = "ok" /\ <<c, k>> \in ctx => call[c].op = "configure" /\ k = "pubkey"

\* The auxiliary accounts that a transaction names are there when its turn has
\* come, whatever has been sent and has landed in between: only the token
\* accounts, or what was read of them, can make the chain refuse it.
ProofsInPlace ==
    \A c \in Calls : status[c] = "running" =>
        LET named == CASE NextTx(c) = "withdraw"       -> {"equality", "range"}
                       [] NextTx(c) = "close_equality" -> {"equality"}
                       [] NextTx(c) = "close_range"    -> {"range"}
                       [] NextTx(c) = "range" /\ call[c].op = "transfer" -> {"record"}
                       [] NextTx(c) = "transfer" ->
                              {"equality", "validity", "range", "record"}
                       [] OTHER -> {}
        IN  Contexts(c, named) \subseteq ctx

-----------------------------------------------------------------------------
\* What the callers see.

PublicBalances    == [w \in Wallets |-> acct[w].public]
PendingBalances   == [w \in Wallets |-> Pending(acct[w])]
AvailableBalances == [w \in Wallets |-> acct[w].available]

Answers == [c \in Calls |-> IF status[c] \in {"ok", "err"} THEN status[c] ELSE "none"]

Ledger == INSTANCE BalanceLedger WITH
    public    <- PublicBalances,
    pending   <- PendingBalances,
    available <- AvailableBalances,
    asked     <- call,
    settled   <- landed,
    answer    <- Answers

\* The operations implement the ledger: every amount moves at once and in full,
\* at most once per call, only after the call, never below zero, and an Ok is
\* answered only after the move.
ImplementsLedger == Ledger!LedgerSpec
=============================================================================
