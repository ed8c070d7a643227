--------------------------- MODULE RecordStaging ---------------------------
(* stage_range_proof_record (transfer.rs:388): a range proof too long for one *)
(* transaction is written to a record account in chunks. The creation and the *)
(* verification of the proof context ("trailing" instructions) ride the last  *)
(* write, or follow in a transaction of their own if the first write was the  *)
(* only one. Two cursors move here: what is left of the proof, consumed by    *)
(* chunks(), and the offset the next chunk is written to.                     *)
EXTENDS Integers

CONSTANTS
    FirstChunk,   \* RECORD_FIRST_CHUNK, 750
    WriteChunk,   \* RECORD_WRITE_CHUNK, 900
    Lengths       \* the proof lengths considered

ASSUME ChunkAssumption ==
    /\ FirstChunk \in Nat \ {0}
    /\ WriteChunk \in Nat \ {0}
    /\ Lengths \subseteq Nat

VARIABLES
    len,       \* proof_bytes.len()
    step,      \* "begin", "write", "trailing", "ok" or "err"
    rest,      \* how many bytes of the proof are not yet handed out
    offset,    \* where the next chunk goes
    sigs,      \* how many signatures are collected
    record,    \* the record account: <<i, j>> when position i holds byte j of the proof
    verified   \* the fate of the trailing instructions: "unsent", "accepted" or "refused"

vars == <<len, step, rest, offset, sigs, record, verified>>

Least(x, y) == IF x < y THEN x ELSE y

\* n bytes of the proof, from byte j on, written at position i.
Write(i, j, n) == {<<i + k, j + k>> : k \in 0..(n - 1)}

WholeProof == Write(0, 0, len)

\* Verify-from-account reads the proof from the record account.
VerifyFrom(rec) == verified' = IF rec = WholeProof THEN "accepted" ELSE "refused"

\* The transaction confirms and the function goes on, or its confirmation is
\* lost and the function returns Err.
Answered(next) == \/ step' = next /\ sigs' = sigs + 1
                  \/ step' = "err" /\ UNCHANGED sigs

Init ==
    /\ len \in Lengths
    /\ step = "begin"
    /\ rest = len
    /\ offset = 0
    /\ sigs = 0
    /\ record = {}
    /\ verified = "unsent"

RejectEmpty ==
    /\ step = "begin"
    /\ len = 0
    /\ step' = "err"
    /\ UNCHANGED <<len, rest, offset, sigs, record, verified>>

\* Create, initialize and write the first chunk; never the trailing instructions.
FirstTx ==
    /\ step = "begin"
    /\ len > 0
    /\ LET n == Least(len, FirstChunk)
       IN  /\ record' = Write(0, 0, n)
           /\ offset' = n
           /\ rest' = len - n
           /\ Answered(IF n = len THEN "trailing" ELSE "write")
    /\ UNCHANGED <<len, verified>>

\* Mutants of WriteTx: the offset is not advanced; the trailing instructions
\* ride a write that has another one after it; the last chunk is not cut to
\* what is left.
WriteTxOffsetKept ==
    /\ step = "write"
    /\ LET n == Least(rest, WriteChunk)
           last == n = rest
       IN  /\ record' = record \cup Write(offset, len - rest, n)
           /\ rest' = rest - n
           /\ IF last THEN VerifyFrom(record') ELSE UNCHANGED verified
           /\ Answered(IF last THEN "ok" ELSE "write")
    /\ UNCHANGED <<len, offset>>

WriteTxEarlyTrailing ==
    /\ step = "write"
    /\ LET n == Least(rest, WriteChunk)
           last == rest <= 2 * WriteChunk
       IN  /\ record' = record \cup Write(offset, len - rest, n)
           /\ offset' = offset + n
           /\ rest' = rest - n
           /\ IF last THEN VerifyFrom(record') ELSE UNCHANGED verified
           /\ Answered(IF last THEN "ok" ELSE "write")
    /\ UNCHANGED len

WriteTxUncut ==
    /\ step = "write"
    /\ LET last == rest <= WriteChunk
       IN  /\ record' = record \cup Write(offset, len - rest, WriteChunk)
           /\ offset' = offset + WriteChunk
           /\ rest' = rest - WriteChunk
           /\ IF last THEN VerifyFrom(record') ELSE UNCHANGED verified
           /\ Answered(IF last THEN "ok" ELSE "write")
    /\ UNCHANGED len

\* Write the next chunk; the last write carries the trailing instructions.
WriteTx ==
    /\ step = "write"
    /\ LET n == Least(rest, WriteChunk)
           last == n = rest
       IN  /\ record' = record \cup Write(offset, len - rest, n)
           /\ offset' = offset + n
           /\ rest' = rest - n
           /\ IF last THEN VerifyFrom(record') ELSE UNCHANGED verified
           /\ Answered(IF last THEN "ok" ELSE "write")
    /\ UNCHANGED len

\* Mutant of TrailingTx: the single-chunk case is forgotten.
TrailingTxForgotten ==
    /\ step = "trailing"
    /\ step' = "ok"
    /\ UNCHANGED <<len, rest, offset, sigs, record, verified>>

\* Single-chunk proof: the trailing instructions go on their own.
TrailingTx ==
    /\ step = "trailing"
    /\ VerifyFrom(record)
    /\ Answered("ok")
    /\ UNCHANGED <<len, rest, offset, record>>

\* The rent query or a transaction fails.
Fail ==
    /\ step \in {"begin", "write", "trailing"}
    /\ step' = "err"
    /\ UNCHANGED <<len, rest, offset, sigs, record, verified>>

Next == RejectEmpty \/ FirstTx \/ WriteTx \/ TrailingTx \/ Fail

Spec == Init /\ [][Next]_vars

-----------------------------------------------------------------------------
\* Properties.

TypeOK ==
    /\ len \in Lengths
    /\ step \in {"begin", "write", "trailing", "ok", "err"}
    /\ rest \in Nat
    /\ offset \in Nat
    /\ sigs \in Nat
    /\ record \subseteq Nat \X Nat
    /\ verified \in {"unsent", "accepted", "refused"}

\* The proof is verified from the record only when every byte of it is there
\* and in its place: the two cursors agree, no chunk is skipped and no
\* verification is sent before the last write.
NeverRefused == verified # "refused"

\* An Ok means that the context account exists and is verified, and that one
\* signature was collected per transaction: the first, one per further chunk,
\* and at least one after the first. The caller numbers them (transfer.rs:290).
TxCount(n) == IF n <= FirstChunk THEN 2 ELSE 1 + ((n - FirstChunk + WriteChunk - 1) \div WriteChunk)

OkIsVerified == step = "ok" => verified = "accepted" /\ sigs = TxCount(len)

\* No write reaches past the space the account was created with
\* (transfer.rs:396).
WritesFit == \A p \in record : p[1] < len

\* What a write has put into the record is never overwritten with another byte.
NothingOverwritten ==
    [][\A p \in record : \A q \in record' : p[1] = q[1] => p = q]_vars
=============================================================================
