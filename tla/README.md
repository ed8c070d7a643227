# Confidential balances: a TLA+ model

TLA+ modules, TLC runs and TLAPS proofs about this repository: a Rust library
that moves tokens of a Token-2022 mint between public, pending and available
(confidential) balances, and a demo server on top of it. All paths in this file
are relative to the repository root.

## 1. The system

| Component | State it keeps | Operations | Talks to |
|---|---|---|---|
| `src/configure.rs` | none | `configure_account_for_confidential_transfers`: 1 transaction (reallocate, create + verify a pubkey-validity proof account, configure) | chain |
| `src/deposit.rs` | none | `deposit_to_confidential`: 1 transaction | chain |
| `src/apply_pending.rs` | none | `apply_pending_balance`: read, decrypt three balances, 1 transaction | chain |
| `src/withdraw.rs` | none | `withdraw_from_confidential`: read, decrypt, 5 transactions | chain |
| `src/transfer.rs` | none | `transfer_confidential(_with_progress)`: read sender, recipient and mint, 5 transactions; `stage_range_proof_record`; `send_tx`; byte casts | chain, progress channel |
| `src/keys.rs` | none | key derivation from one signature | – |
| `src/types.rs` | – | result types, `TransferProgress`, `emit` | broadcast channel |
| `src/bin/demo-server.rs` | the last 8 events, a broadcast channel of 64 progress events, keypairs | `/demo/init`, `/demo/transfer`, `/demo/apply-pending`, `/demo/state`, `/demo/events`, `/demo/health` | library, chain, SSE clients |
| `examples/*.rs` | none | command-line walk through the operations; balance viewer | library, chain |
| Token-2022, ZK ElGamal proof program, spl-record (external) | token accounts, context accounts, record accounts | the instructions | – |

All lasting state is on the chain. A library call reads it once, computes
everything from that snapshot, and sends its transactions one after the other,
waiting for each. There is no lock, no retry and no cleanup on the error path,
so what is hard is:

* **Races between the read and the landing.** `apply_pending_balance` stores an
  AES ciphertext of a total computed from its read, and the program applies
  whatever is pending when the transaction lands. `withdraw` and `transfer`
  make proofs about the balance they read, two to four transactions before
  they are used.
* **Lost confirmations.** `send_and_confirm_transaction` can return an error
  for a transaction that lands later, so a caller that has `Err` in hand, and
  perhaps retries, races its own first attempt.
* **Partial failure.** A call that stops half-way leaves proof accounts behind;
  `withdraw` can return `Err` after the funds have moved.
* **Limits.** `decrypt_u32` answers below 2^32 only. The credit counter limit
  (65536) bounds `pending_balance_lo`, and nothing bounds `pending_balance_hi`
  or the available balance.
* **Two cursors.** `stage_range_proof_record` walks a slice with `chunks()` and
  keeps a write offset beside it, with a special case for a single chunk.
* **The demo server.** `/demo/init` checks and then acts, with awaits in
  between and no lock; its own transactions can time out and land later; it can
  fail, or the process stop, between any two of its steps; balances are read
  one account after the other, and compared by their AES ciphertext; the event
  log is filled from amounts read earlier and from a fixed signature index.
* **The progress channel.** All requests share one bounded broadcast channel;
  streams join late, lag and lose events; whether a failure is reported depends
  on where it happens and on whether the client is still there.

What makes each correct: a move is for the whole amount, at most once per call,
never below zero, never before it was asked for, and an `Ok` means it happened
(all five operations); the decryptable balance the wallet relies on is the
available balance, or it is known which race broke it (apply, withdraw,
transfer); auxiliary accounts are closed by the time of an `Ok` (withdraw,
transfer); the proof verified is the proof generated (staging); an init that
answers ok has provided what it found missing, and can be run again after
whatever stopped it (demo server); an answer shows no fewer tokens than there
were when it was begun, and the log tells only of what has happened, and drops
an entry for newer ones only (demo server); every operation that got past
its checks ends with Done or Error, in order, and a stream that keeps up sees
it (progress events).

## 2. The modules

| Module | What it is |
|---|---|
| `ConfidentialAccount` | The token account and, per Token-2022 instruction, the check and the effect. External: the program is not in the repository. |
| `BalanceLedger` | Abstract specification: what callers of the library are promised, without proofs, ciphertexts or transactions. |
| `BalanceOps` | The five operations as concurrent calls over a shared chain. Implements `BalanceLedger`. |
| `RecordStaging` | `stage_range_proof_record`, byte by byte. |
| `DemoServer` | The handlers of the demo server as concurrent requests. Extends `BalanceOps`: the library calls of a handler are calls of that module, with every transaction of theirs. |
| `ProgressFeed` | Abstract specification of the event streams: in order, nothing twice, nothing from before the stream joined. |
| `ProgressChannel` | The progress events of transfers and applies, the bounded channel and the streams. Implements `ProgressFeed`. |
| `MCBalanceOps`, `MCRecordStaging`, `MCDemoServer`, `MCProgressChannel` | Small instances for TLC; `MCDemoServer` also counts faults. |
| `BalanceOpsProofs`, `RentProofs`, `RecordStagingProofs`, `DemoServerProofs`, `FundingProofs`, `LogProofs`, `ProgressChannelProofs` | Theorems and proofs. |
| `SumTheorems` | Induction over a finite set, and what sums over sets of requests are. |

### `ConfidentialAccount`

An ElGamal ciphertext is its plaintext and the set of transfers whose fresh
randomness was added to it. The second part decides whether two ciphertexts
are bitwise equal, which is what the program compares in a debit
(`CanDebit`): a balance of 5 reached by a deposit and a withdrawal is the same
ciphertext as before, a balance of 5 reached through a received transfer is
not. The AES ciphertext `decryptable_available_balance` is the number it
decrypts to. `decrypt_u32` is the guard `DecryptsU32`. Amounts are credited in
two halves, `Lo` and `Hi`, and the program records the expected and the actual
credit counter without comparing them, as Token-2022 does.

### `BalanceOps`

| State | In the code |
|---|---|
| `acct[w]` | the associated token account of wallet `w` |
| `ctx` | the context and record accounts that exist, by the call that created them |
| `landed` | calls whose main instruction has executed |
| `call[c]`, `status[c]` | arguments and result of one library call |
| `done[c]` | length of its `signatures` vector |
| `snap[c]` | what `client.get_account` returned to it |
| `flight[c]` | its last transaction was sent, was not confirmed and can still land |

| Action | In the code |
|---|---|
| `Invoke` | everything up to the first transaction: reads, decryption, early returns (`Ready`) |
| `Confirm` | one transaction executes (`Land…`) and `send_and_confirm_transaction` returns its signature; after the last, `Ok` |
| `Fail` | `?` on a transaction that did not execute or on an RPC read |
| `Timeout` | `?` on a transaction whose confirmation was not seen |
| `LandLate`, `Expire` | that transaction lands after all, or its blockhash expires |
| `LandConfigure` … `LandTransfer` | the instructions of each transaction: all of them succeed or nothing happens |

`Script` lists each operation's transactions in order. The `apply` writes the
amount computed from the snapshot (`AppliedBalance`) over an account that may
have moved on. The equality proof of a transfer is made from the AES ciphertext
about the ElGamal one, so it verifies only if the two agreed when they were
read (`LandEquality`); that of a withdrawal is made from the decrypted ElGamal
ciphertext. The two transactions that stage a transfer's range proof are
`record` and `range`; `RecordStaging` opens them up. Two is what a U128 range
proof of about a thousand bytes takes with chunks of 750 and 900.

Abstractions: a transfer reads recipient, mint and sender in three RPC calls
and the model in one step, which is the same because of the recipient only
"configured" matters and no operation ever reverts it; configure and deposit do
not read the account, so their snapshot is not used; a transfer to oneself, the
closing of token accounts, fees and withheld amounts, freezing, account
approval and the configurable credit flags are left out, as the library uses
none of them; cryptography is perfect; the auditor's and the recipient's
handles are not modelled, and reads see every transaction that has landed.

### `BalanceLedger`

Three balances per wallet, the request of each call, the calls whose move has
happened, and the answer. `err` says nothing about the move, on purpose: that
is what the code promises (`withdraw.rs:205`, `transfer.rs:470`). The mapping
in `BalanceOps`: `pending` is `lo + LoBase * hi`, `settled` is `landed`,
`answer` is `status` once it is `ok` or `err`.

### `RecordStaging`

One action per transaction of the loop. `record` is the set of pairs
<<position, byte of the proof>>, so a misplaced, missing or doubled chunk is
visible, and the verification (`VerifyFrom`) is accepted exactly when the
record is the proof. `rest` is the slice left in `chunks()`, `offset` the
counter beside it. `Answered` covers the lost confirmation: the write is there,
the function returns `Err`.

### `DemoServer`

| State | In the code |
|---|---|
| `acct`, `ctx`, `landed`, `call`, … | those of `BalanceOps`; a call id is <<request, count>>, as a handler makes its calls one after the other |
| `mint` | the account `s.keys.mint` on the chain: absent, ours, or not ours |
| `ata` | which of the two token accounts exist |
| `events` | `AppState::events` |
| `job[r]` | the handler that runs for request `r`: the await it is at and its local variables |
| `job[r].goal`, `.there`, `.order` | history, which no step depends on: what `Funds` has to come to once an init has looked at the balance; the tokens there were when the answer was begun; the requests whose log entries are older than that of `r` |

| Action | In the code |
|---|---|
| `Receive` | axum calls the handler (the four routes with a result) |
| `CheckMint`, `OwnConfirm` at `create_mint` | `mint_exists`, `create_confidential_mint`, `verify_mint_matches` |
| `Ensure`, `OwnConfirm` at `create_ata`, `LibBegin` at `configure` | `ensure_confidential_account`, first for the sender and then for the receiver |
| `Fund`, `OwnConfirm` at `mint_to` | the comparison of the decryptable balance with the target, `mint_to_sender` |
| `Check` | `require_initialized` |
| `Preview` | the view that an apply is logged with; a failed read counts as zero |
| `OwnFail`, `OwnTimeout`, `OwnLandLate`, `OwnExpire` | a transaction of the server is rejected, or not confirmed in time, and then lands or expires |
| `LibBegin`, `LibAwait`, `LibSettle` | a call of the library begins, goes on, returns; what it sent and gave up on lands or expires (`Invoke`, `Confirm`, `Fail`, `Timeout`, `LandLate`, `Expire` of `BalanceOps`) |
| `Log` | `log_event`: insert at the front, truncate |
| `View` | `read_ledger_state`: one account, then the other, then the answer |
| `ReadFails` | `?` on any read; the balance checks on the payer's and the sender's lamports are folded into it |
| `Restart` | the process stops and starts again: handlers and log are gone, and of each transaction that was waited for it is open whether it had been sent |

`KeepsLedger` says what the server makes of the ledger of its library: a step is
`Ask`, `Settle` or `Answer` of a library call, or `Issue`, the mint of what an init
has found missing, or `Abandon`: a restart leaves the calls that had no answer
without one, which the ledger counts as `err`. Nothing else changes a balance.

A handler is one thread of steps with nothing locked across them, so the model
interleaves handlers at every read, transaction and lock. Requests run on
threads and runtimes of their own (`demo-server.rs:614-620`), so a client that
hangs up does not stop what was begun: for the state on the chain that is a
request like any other.

Abstractions: amounts are in base units. The code goes through `f64` in between
(`ui_to_base`, `base_to_ui`), which is exact for balances below about 2^51 base
units and not beyond. An unknown account name in an apply is the early return
of a request that does nothing and is left out. The server's three wallets are
its own: nobody else moves their tokens. `PendingShown` counts a half that
`decrypt_u32` does not answer for as zero, as the code does. A mint
with another auditor, or none, is one value, "foreign".

### `ProgressChannel`

| State | In the code |
|---|---|
| `stage[r]`, `emitted[r]` | the handler and how many `emit`s it has passed |
| `connected[r]` | its client has not hung up |
| `sent` | everything sent so far; a history |
| `buffer` | the ring buffer of `broadcast::channel(64)`: the last `Capacity` of `sent` |
| `open`, `next[s]`, `got[s]` | the SSE streams: open, the receiver's position, what was shown |

| Action | In the code |
|---|---|
| `Receive`, `Proceed` | the `emit` calls of `transfer_handler`, `transfer_confidential_with_progress` and `apply_pending_handler`, in their order |
| `Fail`, `Report` | an error on the way, and whether anybody emits Error for it: for a transfer what the library returns, for an apply any error while the handler is still there |
| `Answer`, `Hangup` | the response; the client goes away before it |
| `Subscribe`, `Leave` | `/demo/events` opens (`subscribe()`), and is dropped |
| `Read`, `Lag` | the receiver returns the next event, or `Lagged`, which the stream filters out and which moves it to the oldest event kept |

Which operation runs is all that is kept of the handlers here: the guards that
decide whether a transaction lands are those of `BalanceOps`, and any step may
fail. The step labels are those of the code; `sent` also names the request,
which the code does not send, so that a property can speak of one request.
`ImplementsFeed` maps `feed` to `sent`, `joined` to `open`, `mark` to `next` and
`shown` to `got`: `Read` is `Show`, `Lag` is `Miss`.

## 3. The runs

| Run | What it asks | Bounds | Result |
|---|---|---|---|
| `races` | Three calls at once on shared accounts, any mix of apply, deposit, withdrawal and two transfers from `a` to `b`, and with an account that is not configured: configure, a deposit above the maximum, a transfer to it: `TypeOK`, `RentReclaimed`, `ProofsInPlace`, `OnlyOvertakenApplyDesyncs`, `DebitsUseTheirRead`, `ImplementsLedger` | 3 wallets, 3 calls, 9 requests | holds, 176 614 states |
| `limits` | The numeric limits: `PendingLoDecryptable`, `PendingHiStuck`, `AboveBoundOnlyTransferDebits`, `WedgedStays` | 4 calls, deposits of the maximum amount | holds, 1 384 997 states |
| `staging` | `TypeOK`, `NeverRefused`, `OkIsVerified`, `WritesFit`, `NothingOverwritten` | lengths 0..30, chunks 3 and 4 | holds, 446 states |
| `server` | Three requests at once on a demo that is set up, any mix of init, transfer and apply for the receiver: what an init found missing is there when it answers ok (`InitOkFunded`), an answer shows no fewer tokens than there were when it was begun (`ShownNeverShort`), an entry is missing from the log only when newer ones fill it (`LogFaithful`) | target 3, log of 2, no faults | holds, 1 259 367 states |
| `fresh` | Two requests of any kind on an empty chain, or one with a foreign mint, with up to three faults: `ServerTypeOK`, `CallsOnExistingAccounts`, `InitMintsOnce`, `KeepsLedger`, and with fairness `InitRecovers` and `EveryRequestSettles` | log of 1, 3 faults | holds, 264 506 states |
| `stream` | One stream that joins, lags, leaves and joins again while a transfer runs: `TypeOK`, `ImplementsFeed`, and with fairness `EveryStreamConcludes` | 12 events, capacity 4 | holds, 37 442 states |
| `concludes` | A transfer and an apply on one channel, failing anywhere, clients hanging up: `TerminalOrder`, and with fairness `EveryOperationConcludes` | 2 requests | holds, 367 461 states |
| `stale_decryptable` | is the decryptable balance always the available balance? | 2 calls | violated |
| `init_twice` | is `/demo/init` idempotent? | 2 inits | violated |
| `stale_funding` | does an init that finds nothing to do find the target available? | 3 requests, 3 available at the start | violated |
| `applied_amount` | is an apply logged with the amount that moved? | 2 requests | violated |
| `logged_sig` | is the signature logged for a transfer that of the transfer? | 2 requests | violated |

**Why these bounds.** The hazards of the library are races between calls on one
account. Two calls give every pair; a third supplies the credit or the debit in
between (withdraw / transfer / apply), and the fourth call of `limits` gives
the sequences deposit, deposit, apply, then something. A call is made once: a
retry is another call with the same request. The limits are scaled from 2^16 to
`LoBase = B = 2` with their ratios kept: `MaxCredits = B` (65536),
`DecryptBound = B^2` (2^32), `MaxAmount = B^3 - 1` (2^48 - 1), so a full
`pending_balance_lo` is B(B-1) < B^2 as 65536 · 65535 < 2^32, and the high half,
and the available balance, can pass the bound as they can in reality. The
server runs widen them (16, 15 and 8) so that the limits do not get in the way
of the funding. The staging lengths cover the empty proof, a single chunk,
exact multiples of the chunks and one byte on either side, several times over.

A server request takes up to a dozen steps and four library calls, so the
interleavings are divided between two runs. `server` has three requests and no
faults: an init, a transfer that drains what it gives and an apply that moves
it on, or three of a kind, with a log shorter than the number of entries.
With a single fault `server` is out of reach of a run of some minutes, so its
three properties under faults and restarts are left to the theorems `InitsFund`,
`AnswersShowAll` and `LogTellsTheTruth`, whose specification has both.
`fresh` has two requests, every start and faults: the first init stops
anywhere, and the second finds what it left. A fault is a request that ends in
an error or is lost although it could have gone on; three are enough for a lost
confirmation, a restart and a failure in one behaviour. The
channel of `stream` is a third of the events of a transfer, so a stream can
fall behind once, twice, or join late and fall behind again. Calls and requests
are interchangeable: runs without liveness use symmetry. The theorems below
remove these bounds.

`CHECK_DEADLOCK FALSE`: each call and request is made once, so a behaviour ends
when all of them have returned and nothing is in flight.

**Fairness.**

* `MCDemoServer!MCFairness`: a handler (`Handle`, which includes `Confirm`, `Fail`
  and `Timeout` of the library call it waits for) is weakly fair: between two
  awaits it runs on, and it awaits nothing but the RPC client, which answers or
  gives up. Nothing says that a transaction ever succeeds. What was sent and not
  confirmed (`LandLate \/ Expire` of a call, `OwnLandLate \/ OwnExpire`) is
  weakly fair: every transaction names a recent blockhash, so it lands or
  becomes invalid. `EveryRequestSettles` needs both. `InitRecovers` asks that an
  init succeeds, which needs the faults to end: `Count` counts them, and after
  `MaxFaults` (or after `Calm`, which declares the rest of them not to happen)
  only handlers that cannot go on (`Doomed`) answer an error. It speaks of an
  init that starts with nothing else under way.
* `ProgressChannel!LiveSpec`: a handler goes on or fails, and a stream whose
  client reads is polled. Nobody has to connect, and no request has to succeed.

**What the violated runs show**

* `stale_decryptable`: an apply is read, a deposit (or a transfer) credits the
  account, the apply lands. The program applies both credits, and the AES
  ciphertext counts one. `docs/reference/token-extensions.md:459` describes the
  field as the "AES-encrypted available balance", and `docs/FAQ.md:101-103` gives a
  "Credit counter mismatch" as the cause of a failed apply, while this one
  succeeds: the two counters are recorded and not compared. From then on a
  transfer cannot prove its equality statement until another apply or a
  withdrawal rewrites the field. `OnlyOvertakenApplyDesyncs` shows that this
  race is the only way in, and `WedgedStays` that it is permanent when the
  balance is too large to decrypt.
* `init_twice`: `demo-server.rs:11` calls `/demo/init` idempotent. It looks at the
  decryptable available balance and not at what is pending, so two inits at
  once, or one after another that failed between its deposit and its apply,
  each fund the sender. `InitMintsOnce` bounds it: no init adds more than one
  target. `InitOkFunded` is the other side: it never gives less than it found
  missing. What it finds can be wrong:
* `stale_funding`: an apply for the sender reads 3 available, a transfer of 2
  lands, then the apply, which stores the 3 it has read. The decryptable
  balance says 3, one token is available, and a lone init after that finds
  nothing to do and answers ok, where `demo-server.rs:11` promises "sender
  funded". This is `stale_decryptable` seen from `/demo/init`: the comparison at
  `demo-server.rs:423` goes by the AES ciphertext.
* `applied_amount`: `demo-server.rs:559-560` captures the pending balance so that
  the log shows the amount that moved. A credit that lands between that read and
  the apply (with these bounds the deposit of an init) is moved by it and not
  logged.
* `logged_sig`: `demo-server.rs:517` logs `sigs.get(3)` of a transfer as
  `transfer_sig`. That is the last write of the range proof; the transfer is the
  fifth. `examples/run_transfer.rs:286-289` describes the older sequence of seven
  transactions, in which it was number 3.

Noticed on the way, and not given runs: `configure.rs:67-121` leaves its
pubkey-validity context account open, where
`docs/reference/token-extensions.md:411-413` ends the flow with closing it
(`RentReclaimed` makes the exception); `README.md:286-288` counts three
transactions for a transfer where `transfer.rs` sends five; an apply can send
Error after Done, when the balances cannot be read for the answer, where
`types.rs:24-27` has one for success and one for failure (`TerminalOrder` excludes
it for transfers only).

## 4. The proofs

Assumptions: the limits are naturals (`LimitsAssumption`),
`MaxCredits * (LoBase - 1) < DecryptBound` (`CreditLimitAssumption`, true of
65536, 2^16 and 2^32), the menu holds well-formed requests without a transfer
to oneself (`MenuAssumption`), an account that starts with a balance is
configured (`StartAssumption`); the chunks are positive (`ChunkAssumption`); the
server has two wallets, its call ids are requests with a count up to 4, and it
keeps at least one log entry (`ServerAssumption`); the channel has a capacity
(`ChannelAssumption`). `Wallets` is otherwise
arbitrary, and so are `Calls`, `Menu`, `Requests`, `Bodies` and `Streams`, infinite
sets included.

**`BalanceOpsProofs`.** None of the properties is inductive. A debit lands on
the word of proofs made from a snapshot, so `IInv` adds to `TypeOK`:

* `AcctOK`: in every account `credit_counter <= MaxCredits` and
  `pending_lo <= credit_counter * (LoBase - 1)`;
* `CallOK`, per call: an idle call has touched nothing (`Untouched`); only a
  call that returned `Err` has a transaction in flight; an `Ok` has landed; and
  a call that can still land something (`Active`) has transactions left,
  passed the checks of `Ready` on its snapshot, which outlive the account they
  were made on (`SnapshotReady`), and has landed its main instruction exactly
  if it has collected that transaction's signature, so it cannot land it twice
  (`LandedAt`);
* `EqualityMeansSynced`: the equality context of a transfer exists only if its
  snapshot had equal balances.

From these: when a debit lands, `CanDebit` says that the account's balance is
the snapshot's, `SnapshotReady` that the amount is within it, and
`EqualityMeansSynced` that the stored AES balance is what is left. That gives
`TypeCorrect` (no negative balance). `PendingLoAlwaysDecryptable` is `AcctOK` and
`CreditLimitAssumption`. The action properties are all about steps that move
something, so they go through one statement: `OnlyMoves` says that every step
either leaves balances and `landed` alone (`Still`) or lands the main
instruction of one call that was able to (`MoveOf`). `OnlyMoves` alone implies
`NoDoubleSpending`, `OnlyOvertakenAppliesDesync`, `AboveBoundOnlyTransfers`,
`PendingHiStaysStuck` and `WedgedAccountsStay`, and it is proved of `Spec` and,
later, of `ServerSpec`. `Refinement` maps each action:
`Invoke` to `Ask`, a landing of a main instruction to `Settle`, a return to
`Answer`, the proof and close transactions to stutters, and a last transaction
that is also the main one to `Settle` with its answer.

**`SumTheorems`.** The installed provers cannot use an induction theorem whose
property is an operator. `SubsetInduction` takes the property as the set of
the subsets that have it, and follows from the well-foundedness of the strict
subset ordering in the library. `SumIsChosen` and `SumUnique` turn the fold behind
`SumFunctionOnSet` into its recursive equation; from that, how a sum changes
when the function changes at one point, or the set gains an element, which is
what `InitsMintOnce` needs of the sum over all requests.

**`RentProofs`.** `Held` gives the accounts a call holds as a function of how
many of its transactions are done; `RentInv` says that a call that has not failed
holds exactly these, and that an `Ok` has sent its whole script. At the end of
the scripts of withdraw and transfer `Held` is empty: `OkLeavesNothing`. At every
other place it contains what the next transaction names: `NothingMissing`. Both
need that no call touches another's accounts, and that a late landing belongs
to a call that has failed. `ServerOkLeavesNothing` and `ServerNothingMissing` carry
them over to the server, where calls are also cut off by restarts.

**`RecordStagingProofs`.** `StagingInvariant` says that `offset + rest = len`
and that the record is exactly the first `offset` bytes in place; while the
trailing instructions are unsent nothing has been verified. The four
properties follow for every length and all chunk sizes.

**`DemoServerProofs`.** `SInv` puts the server on top of `IInv`: which kind of
request can be at which place (`PlaceOK`), that of the calls of a request those
up to `lib` have been made and only the last can be running, with the request the
job says (`CallsOf`), how many calls can have returned by then, so that four
call ids suffice (`CountOK`), and which of mint and accounts are there
(`ThereOK`); and of every call that its accounts exist. That the accounts stay
(`Grows`) carries it over the steps of others. `ServerTypeCorrect` and
`LibraryCallsFindAccounts` follow; the latter is what `BalanceOps` takes for
granted of its callers. `ServerPendingLoDecryptable` is `AcctOK` again.

**`FundingProofs`.** Tokens of the demo move one way, from public to pending to
available to the receiver, so `Funds` (available with the sender, or with the
receiver) never shrinks, and neither does `Gross`, which adds what is pending
with the sender. When an init looks, the comparison fixes its `goal`: `Funds` as
they are then, and what the comparison finds missing. `MInv` follows this one
init to its answer: while it mints and deposits, `Gross` and its amount come to
the goal; its deposit adds the amount to `Gross`, so `Gross` is at the goal when
it applies; and `Funds` are when its apply has returned, as that apply empties
what is pending, or another request's apply has. Nothing takes any of it
back, and tokens that were sent out before are in `Funds` on both sides:
`InitsFund`. For the answers, `AInv` says that what is shown of the sender and
what the receiver is worth come to the tokens `there` were when the answer was
begun: no token is ever lost, and the receiver makes up for whatever the sender
pays after its account was read. `AnswersShowAll` is this at the end, when the
receiver is read too.

How much the inits make is `DueInv`. An init that has yet to look at the balance
may issue a target (`Due`), one whose mint is under way, or given up on and still
in flight, what it has found missing, and one past that nothing. The supply and
what is due never exceed the start and a target for every init received. Only a
`Receive` adds to the right-hand side; a mint turns what is due into supply,
and once only, as it lands either when it is waited for or late, never both
(`DueOK`). Everything else moves tokens between the two accounts at most
(`AccountSteps`). `InitsMintOnce` drops what is due.

The same case split gives `OnlyMoves` of `ServerSpec` (a mint is `Still`: it
changes the public balance only), and with it four action properties of
`BalanceOps` for the server, which never withdraws. `ServerLedger` maps the steps of handlers to the
ledger: those of a library call as in `Refinement`, whatever the handler does
besides, and the rest to `Issue`, `Abandon` or a stutter.

**`LogProofs`.** `LogStep` lists what a step can do to a request as far as the
log is concerned; a landed call stays landed with its amount (`LandedStays`).
`LogReady` is what a handler about to write relies on: the deposit of an init,
two calls ago, or the call just returned has landed with the job's amount.
That every entry is true follows with what `Logged` keeps of the old log. For
those that are gone, a request writes one entry at most, and its `order` is then
itself and every request that has written before (`OrderOK`). `EntriesInOrder`
says that the entries are of different requests, sorted by that order with the
newest first; so the one that `truncate` drops is older than all it keeps
(`PushedOut`), and stays older. An entry that a handler has written is therefore
in the log when it answers, or the log is full of newer ones. A restart empties
the log and ends the handlers, so there is then nobody to answer:
`LogTellsTheTruth` makes no claim about entries that were there before it.

**`ProgressChannelProofs`.** `IInv` says how much of its script a request has
sent, that "error" is sent when the request is over and "done" last of the
script, that the buffer is the tail of everything sent, and that no stream is
ahead. `EventsInOrder` follows, and `Refinement` maps every
step to one of `ProgressFeed` or a stutter: that `buffer[next - Oldest + 1]` is
`sent[next + 1]` is where the ring buffer matters.

**Only model-checked.** `EveryRequestSettles`, `InitRecovers`,
`EveryOperationConcludes` and `EveryStreamConcludes` are liveness under fairness,
and need ENABLED, which the installed provers cannot reason about. Every
invariant, action property and refinement of a passing run is a theorem.

## 5. Not modelled

* `src/keys.rs`: a pure function without state.
* The byte casts: copies between types of the same layout.
* `src/lib.rs`, the examples and the tests: no state of their own.
* Of `src/bin/demo-server.rs`: `/demo/health`, reading the configuration and the
  keys at start, `generate-env`; static files and CORS.
* The rounding of `f64` amounts beyond about 2^51 base units
  (`demo-server.rs:955`): the models count in base units.

## 6. What could come next

* `BalanceOps` with `RecordStaging` composed: the `record` and `range`
  transactions replaced by the loop. What each relies on of the other is stated:
  `OkIsVerified` and `NeverRefused` on one side, `LandRange` on the other.
* `DemoServer` with `ProgressChannel` composed, so that an event is tied to the
  very transaction that landed and not only to its place in the script.
* Termination measures: as liveness is out of the provers' reach, the safety
  half of it, that a call or a handler never goes back in its script.
