--------------------------- MODULE BalanceLedger ---------------------------
(* What the library promises its callers, with no proofs, ciphertexts or     *)
(* transactions: every wallet has a public, a pending and an available        *)
(* balance, and a request moves its whole amount from one balance to another  *)
(* at one instant, at most once, and never before it was asked for. An answer *)
(* of "ok" says that the move has happened; "err" says nothing: the move may  *)
(* have happened, may still happen, or may never happen.                      *)
EXTENDS Integers

CONSTANTS
    Wallets,
    Calls,           \* invocations of the library, each made once
    Menu,            \* the requests an invocation may carry
    StartPublic,     \* [Wallets -> Nat]
    StartAvailable   \* [Wallets -> Nat]

VARIABLES
    public, pending, available,   \* [Wallets -> Nat]
    asked,                        \* the request of each call, or NoRequest
    settled,                      \* the calls whose move has happened
    answer                        \* "none", "ok" or "err"

ledgerVars == <<public, pending, available, asked, settled, answer>>

NoRequest == [op |-> "none"]

LedgerInit ==
    /\ public = StartPublic
    /\ pending = [w \in Wallets |-> 0]
    /\ available = StartAvailable
    /\ asked = [c \in Calls |-> NoRequest]
    /\ settled = {}
    /\ answer = [c \in Calls |-> "none"]

-----------------------------------------------------------------------------
\* The moves.

Open(r) == r.op = "configure" /\ UNCHANGED <<public, pending, available>>

Deposit(r) ==
    /\ r.op = "deposit"
    /\ public[r.wallet] >= r.amount
    /\ public' = [public EXCEPT ![r.wallet] = @ - r.amount]
    /\ pending' = [pending EXCEPT ![r.wallet] = @ + r.amount]
    /\ UNCHANGED available

Apply(r) ==
    /\ r.op = "apply"
    /\ available' = [available EXCEPT ![r.wallet] = @ + pending[r.wallet]]
    /\ pending' = [pending EXCEPT ![r.wallet] = 0]
    /\ UNCHANGED public

Withdraw(r) ==
    /\ r.op = "withdraw"
    /\ available[r.wallet] >= r.amount
    /\ available' = [available EXCEPT ![r.wallet] = @ - r.amount]
    /\ public' = [public EXCEPT ![r.wallet] = @ + r.amount]
    /\ UNCHANGED pending

Transfer(r) ==
    /\ r.op = "transfer"
    /\ available[r.wallet] >= r.amount
    /\ available' = [available EXCEPT ![r.wallet] = @ - r.amount]
    /\ pending' = [pending EXCEPT ![r.to] = @ + r.amount]
    /\ UNCHANGED public

Move(r) == Open(r) \/ Deposit(r) \/ Apply(r) \/ Withdraw(r) \/ Transfer(r)

-----------------------------------------------------------------------------
\* A call is asked, possibly refused at once, moves at most once, and is
\* answered. The move and its answer may coincide.

Ask(c, r) ==
    /\ asked[c] = NoRequest
    /\ asked' = [asked EXCEPT ![c] = r]
    /\ answer' \in {answer, [answer EXCEPT ![c] = "err"]}
    /\ UNCHANGED <<public, pending, available, settled>>

Settle(c) ==
    /\ asked[c] # NoRequest
    /\ c \notin settled
    /\ Move(asked[c])
    /\ settled' = settled \cup {c}
    /\ \/ UNCHANGED answer
       \/ answer[c] = "none" /\ answer' = [answer EXCEPT ![c] = "ok"]
    /\ UNCHANGED asked

Answer(c) ==
    /\ asked[c] # NoRequest
    /\ answer[c] = "none"
    /\ \/ answer' = [answer EXCEPT ![c] = "err"]
       \/ c \in settled /\ answer' = [answer EXCEPT ![c] = "ok"]
    /\ UNCHANGED <<public, pending, available, asked, settled>>

LedgerNext ==
    \E c \in Calls : (\E r \in Menu : Ask(c, r)) \/ Settle(c) \/ Answer(c)

LedgerSpec == LedgerInit /\ [][LedgerNext]_ledgerVars
=============================================================================
