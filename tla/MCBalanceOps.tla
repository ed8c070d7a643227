---------------------------- MODULE MCBalanceOps ----------------------------
(* Small instances of BalanceOps for TLC: few wallets, and the limits scaled  *)
(* from 2^16 to B = 2 with their ratios kept: MaxCredits = B, DecryptBound =  *)
(* B * B, MaxAmount = B * B * B - 1.                                          *)
EXTENDS BalanceOps, TLC

CONSTANTS a, b, d   \* the wallets

Symmetry == Permutations(Calls)

Ask(op, w, to, amount) == [op |-> op, wallet |-> w, to |-> to, amount |-> amount]

Both == {a, b}
All  == {a, b, d}

\* Races: a has 3 available and 2 public, and everything it can do at once. d is
\* not configured and holds more than one deposit can take.
RacePublic == a :> 2 @@ b :> 0 @@ d :> 8
RaceAvailable == a :> 3 @@ b :> 0 @@ d :> 0
RaceMenu ==
    {Ask("apply", a, a, 0), Ask("apply", b, b, 0), Ask("deposit", a, a, 1),
     Ask("withdraw", a, a, 2), Ask("transfer", a, b, 2), Ask("transfer", a, b, 3),
     Ask("configure", d, d, 0), Ask("deposit", d, d, 8), Ask("transfer", a, d, 1)}

\* Limits: a holds just less than the decryption bound and two deposits that
\* overflow pending_balance_hi.
LimitPublic == a :> 28 @@ b :> 0
LimitAvailable == a :> 3 @@ b :> 0
LimitMenu ==
    {Ask("apply", a, a, 0), Ask("deposit", a, a, 7),
     Ask("withdraw", a, a, 2), Ask("transfer", a, b, 3)}
=============================================================================
