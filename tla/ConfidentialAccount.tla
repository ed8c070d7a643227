------------------------ MODULE ConfidentialAccount ------------------------
(* One token account with the ConfidentialTransferAccount extension, and what *)
(* each Token-2022 instruction does to it. The program is not in the         *)
(* repository: the instructions are modelled from the calls the library       *)
(* builds and from docs/reference/token-extensions.md, and are external.      *)
(*                                                                            *)
(* An ElGamal ciphertext is a pair of its plaintext and its randomness. The   *)
(* plaintext is a number. The randomness is the set of transfers that were    *)
(* added into it, because only a transfer draws fresh randomness: a deposit   *)
(* and a withdrawal add a plaintext.                                          *)
EXTENDS Integers, FiniteSets

CONSTANTS
    LoBase,        \* 2^16: an amount is credited as amount % LoBase and amount \div LoBase
    MaxAmount,     \* 2^48-1: the largest deposit or transfer
    MaxCredits,    \* 65536: max_pending_balance_credit_counter, configure.rs:57
    DecryptBound   \* 2^32: decrypt_u32 answers None from here on

ASSUME LimitsAssumption ==
    /\ LoBase \in Nat \ {0}
    /\ MaxAmount \in Nat
    /\ MaxCredits \in Nat
    /\ DecryptBound \in Nat \ {0}

\* The counter limit the library asks for keeps a full pending_balance_lo
\* decryptable: 65536 * (2^16 - 1) < 2^32.
ASSUME CreditLimitAssumption == MaxCredits * (LoBase - 1) < DecryptBound

-----------------------------------------------------------------------------
\* The account, for transfers drawn from the set calls.
Account(calls) ==
    [configured            : BOOLEAN,
     public                : Nat,
     pending_lo            : Nat,
     pending_hi            : Nat,
     pending_rnd           : SUBSET calls,
     available             : Nat,
     available_rnd         : SUBSET calls,
     decryptable_available : Nat,    \* what the AES ciphertext decrypts to
     credit_counter        : Nat,
     expected_counter      : Nat,
     actual_counter        : Nat]

Unconfigured(public) ==
    [configured |-> FALSE, public |-> public,
     pending_lo |-> 0, pending_hi |-> 0, pending_rnd |-> {},
     available |-> 0, available_rnd |-> {}, decryptable_available |-> 0,
     credit_counter |-> 0, expected_counter |-> 0, actual_counter |-> 0]

Lo(amount) == amount % LoBase
Hi(amount) == amount \div LoBase

Pending(a) == a.pending_lo + a.pending_hi * LoBase

\* ElGamal decryption by discrete logarithm: it answers below 2^32 only.
DecryptsU32(value) == value < DecryptBound

\* Bitwise equality of two available_balance ciphertexts.
SameAvailable(a, b) ==
    /\ a.available = b.available
    /\ a.available_rnd = b.available_rnd

-----------------------------------------------------------------------------
\* Instructions: the checks (Can...) and the effect on the account.

ConfigureAccount(a) == [a EXCEPT !.configured = TRUE]

\* Mutant of CanCredit: the account accepts credits without a limit.
CanCreditUnlimited(a) == a.configured

CanCredit(a) == a.configured /\ a.credit_counter < MaxCredits

Credit(a, amount, rnd) ==
    [a EXCEPT !.pending_lo = @ + Lo(amount),
              !.pending_hi = @ + Hi(amount),
              !.pending_rnd = @ \cup rnd,
              !.credit_counter = @ + 1]

CanDeposit(a, amount) == CanCredit(a) /\ amount <= MaxAmount /\ amount <= a.public

Deposit(a, amount) == [Credit(a, amount, {}) EXCEPT !.public = @ - amount]

\* The two counters are recorded, never compared.
ApplyPendingBalance(a, expected, decryptable) ==
    [a EXCEPT !.available = @ + Pending(a),
              !.available_rnd = @ \cup a.pending_rnd,
              !.pending_lo = 0,
              !.pending_hi = 0,
              !.pending_rnd = {},
              !.decryptable_available = decryptable,
              !.expected_counter = expected,
              !.actual_counter = a.credit_counter,
              !.credit_counter = 0]

\* The proofs were made from the ciphertext of snapshot: the program compares
\* the balance they leave with the one it computes from the account.
CanDebit(a, snapshot) == a.configured /\ SameAvailable(a, snapshot)

Withdraw(a, amount, decryptable) ==
    [a EXCEPT !.available = @ - amount,
              !.public = @ + amount,
              !.decryptable_available = decryptable]

DebitTransfer(a, amount, rnd, decryptable) ==
    [a EXCEPT !.available = @ - amount,
              !.available_rnd = @ \cup rnd,
              !.decryptable_available = decryptable]
=============================================================================
