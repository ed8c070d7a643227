------------------------ MODULE RecordStagingProofs ------------------------
(* RecordStaging for every chunk size and every proof length.                 *)
EXTENDS RecordStaging, TLAPS

-----------------------------------------------------------------------------
\* Writing n bytes right after the first i bytes gives the first i + n bytes.
LEMMA WriteExtends ==
    ASSUME NEW i \in Nat, NEW n \in Nat
    PROVE  Write(0, 0, i) \cup Write(i, i, n) = Write(0, 0, i + n)
<1>1. ASSUME NEW p \in Write(0, 0, i) \cup Write(i, i, n)
      PROVE  p \in Write(0, 0, i + n)
  <2>1. CASE p \in Write(0, 0, i)
    <3>1. PICK k \in 0..(i - 1) : p = <<0 + k, 0 + k>>
      BY <2>1 DEF Write
    <3>2. k \in 0..((i + n) - 1)
      OBVIOUS
    <3>3. QED BY <3>1, <3>2 DEF Write
  <2>2. CASE p \in Write(i, i, n)
    <3>1. PICK k \in 0..(n - 1) : p = <<i + k, i + k>>
      BY <2>2 DEF Write
    <3>2. /\ i + k \in 0..((i + n) - 1)
          /\ p = <<0 + (i + k), 0 + (i + k)>>
      BY <3>1
    <3>3. QED BY <3>2 DEF Write
  <2>3. QED BY <1>1, <2>1, <2>2
<1>2. ASSUME NEW p \in Write(0, 0, i + n)
      PROVE  p \in Write(0, 0, i) \cup Write(i, i, n)
  <2>1. PICK k \in 0..((i + n) - 1) : p = <<0 + k, 0 + k>>
    BY <1>2 DEF Write
  <2>2. CASE k < i
    <3>1. k \in 0..(i - 1)
      BY <2>2
    <3>2. QED BY <2>1, <3>1 DEF Write
  <2>3. CASE k >= i
    <3>1. /\ k - i \in 0..(n - 1)
          /\ p = <<i + (k - i), i + (k - i)>>
      BY <2>1, <2>3
    <3>2. QED BY <3>1 DEF Write
  <2>4. QED BY <2>2, <2>3
<1>3. QED BY <1>1, <1>2

LEMMA WriteType ==
    ASSUME NEW i \in Nat, NEW n \in Nat
    PROVE  /\ Write(i, i, n) \subseteq Nat \X Nat
           /\ \A p \in Write(i, i, n) : p[1] = p[2] /\ p[1] < i + n
BY DEF Write

\* The quotient of q full chunks and a part of a chunk.
LEMMA QuotientOfPart ==
    ASSUME NEW q \in Nat, NEW r \in Nat, r < WriteChunk
    PROVE  (q * WriteChunk + r) \div WriteChunk = q
BY ChunkAssumption

-----------------------------------------------------------------------------
\* The two cursors add up to the length, what they have passed is written in
\* place, and the number of signatures follows from the offset.
IInv ==
    /\ TypeOK
    /\ offset + rest = len
    /\ record = Write(0, 0, offset)
    /\ step \in {"begin", "write", "trailing"} => verified = "unsent"
    /\ step = "begin" => offset = 0 /\ sigs = 0
    /\ step = "write" =>
           /\ rest > 0
           /\ sigs > 0
           /\ offset = FirstChunk + (sigs - 1) * WriteChunk
    /\ step = "trailing" => rest = 0 /\ len <= FirstChunk /\ sigs = 1
    /\ NeverRefused
    /\ OkIsVerified

LEMMA InitIInv == Init => IInv
<1> SUFFICES ASSUME Init PROVE IInv
  OBVIOUS
<1>1. len \in Nat
  BY ChunkAssumption DEF Init
<1>2. Write(0, 0, 0) = {}
  BY DEF Write
<1>3. QED BY <1>1, <1>2 DEF Init, IInv, TypeOK, NeverRefused, OkIsVerified

LEMMA FirstTxKeepsIInv == IInv /\ FirstTx => IInv'
<1> SUFFICES ASSUME IInv, FirstTx PROVE IInv'
  OBVIOUS
<1> DEFINE n == Least(len, FirstChunk)
<1>1. /\ len \in Nat \ {0}
      /\ n \in Nat
      /\ n <= len
      /\ n <= FirstChunk
      /\ n # len => n = FirstChunk
  BY ChunkAssumption DEF IInv, TypeOK, FirstTx, Least
<1>2. /\ record' = Write(0, 0, n)
      /\ offset' = n
      /\ rest' = len - n
      /\ Answered(IF n = len THEN "trailing" ELSE "write")
      /\ len' = len
      /\ verified' = "unsent"
      /\ sigs = 0
  BY DEF FirstTx, IInv
<1>3. record' \subseteq Nat \X Nat
  BY <1>1, <1>2, WriteType
<1> HIDE DEF n
<1>4. TypeOK'
  BY <1>1, <1>2, <1>3 DEF IInv, TypeOK, Answered
<1>5. QED
  BY <1>1, <1>2, <1>4, ChunkAssumption DEF IInv, Answered, NeverRefused, OkIsVerified

LEMMA WriteTxKeepsIInv == IInv /\ WriteTx => IInv'
<1> SUFFICES ASSUME IInv, WriteTx PROVE IInv'
  OBVIOUS
<1> DEFINE n == Least(rest, WriteChunk)
<1>1. /\ len \in Nat /\ rest \in Nat /\ offset \in Nat /\ sigs \in Nat
      /\ len - rest = offset
      /\ rest > 0 /\ sigs > 0
      /\ offset = FirstChunk + (sigs - 1) * WriteChunk
      /\ record = Write(0, 0, offset)
  BY DEF IInv, TypeOK, WriteTx
<1>2. /\ n \in Nat
      /\ n <= rest
      /\ n <= WriteChunk
      /\ n # rest => n = WriteChunk
  BY <1>1, ChunkAssumption DEF Least
<1>3. /\ record' = record \cup Write(offset, len - rest, n)
      /\ offset' = offset + n
      /\ rest' = rest - n
      /\ IF n = rest THEN VerifyFrom(record') ELSE verified' = verified
      /\ Answered(IF n = rest THEN "ok" ELSE "write")
      /\ len' = len
      /\ verified = "unsent"
  BY DEF WriteTx, IInv
<1> HIDE DEF n
<1>4. record' = Write(0, 0, offset')
  BY <1>1, <1>2, <1>3, WriteExtends
<1>5. record' \subseteq Nat \X Nat
  BY <1>1, <1>2, <1>3, <1>4, WriteType
<1>6. n = rest => verified' = "accepted"
  BY <1>1, <1>3, <1>4 DEF VerifyFrom, WholeProof
<1>7. TypeOK'
  BY <1>1, <1>2, <1>3, <1>5, <1>6 DEF IInv, TypeOK, Answered
<1>8. CASE n = rest
  <2>1. sigs + 1 = TxCount(len)
    <3>1. (len - FirstChunk) + WriteChunk - 1 = sigs * WriteChunk + (rest - 1)
      BY <1>1, ChunkAssumption
    <3>2. rest - 1 \in Nat /\ rest - 1 < WriteChunk
      BY <1>1, <1>2, <1>8, ChunkAssumption
    <3>3. (len - FirstChunk + WriteChunk - 1) \div WriteChunk = sigs
      BY <1>1, <3>1, <3>2, QuotientOfPart, ChunkAssumption
    <3>4. len > FirstChunk
      <4>1. (sigs - 1) * WriteChunk >= 0
        BY <1>1, ChunkAssumption
      <4>2. QED BY <1>1, <4>1, ChunkAssumption
    <3>5. QED BY <1>1, <3>3, <3>4, ChunkAssumption DEF TxCount
  <2>2. QED
    BY <1>1, <1>2, <1>3, <1>4, <1>6, <1>7, <1>8, <2>1
    DEF IInv, Answered, NeverRefused, OkIsVerified
<1>9. CASE n # rest
  <2>1. offset' = FirstChunk + sigs * WriteChunk
    BY <1>1, <1>2, <1>3, <1>9, ChunkAssumption
  <2>2. CASE step' = "write" /\ sigs' = sigs + 1
    <3>1. sigs' - 1 = sigs /\ sigs' > 0
      BY <1>1, <2>2
    <3>2. offset' = FirstChunk + (sigs' - 1) * WriteChunk
      BY <2>1, <3>1
    <3>3. rest' > 0 /\ offset' + rest' = len'
      <4>1. n < rest
        BY <1>1, <1>2, <1>9
      <4>2. rest' = rest - n /\ offset' = offset + n /\ len' = len
        BY <1>3
      <4>3. len \in Nat /\ rest \in Nat /\ offset \in Nat /\ n \in Nat /\ len - rest = offset
        BY <1>1, <1>2
      <4>4. QED BY <4>1, <4>2, <4>3
    <3>4. verified' = "unsent"
      BY <1>3, <1>9
    <3>5. QED
      BY <1>4, <1>7, <2>2, <3>1, <3>2, <3>3, <3>4 DEF IInv, NeverRefused, OkIsVerified
  <2>3. CASE step' = "err"
    BY <1>1, <1>2, <1>3, <1>4, <1>7, <1>9, <2>3 DEF IInv, NeverRefused, OkIsVerified
  <2>4. QED BY <1>3, <1>9, <2>2, <2>3 DEF Answered
<1>10. QED BY <1>8, <1>9

LEMMA TrailingTxKeepsIInv == IInv /\ TrailingTx => IInv'
<1> SUFFICES ASSUME IInv, TrailingTx PROVE IInv'
  OBVIOUS
<1>1. /\ len \in Nat /\ len <= FirstChunk
      /\ offset = len
      /\ record = Write(0, 0, offset)
      /\ sigs = 1
  BY DEF IInv, TypeOK, TrailingTx
<1>2. verified' = "accepted"
  BY <1>1 DEF TrailingTx, VerifyFrom, WholeProof
<1>3. 2 = TxCount(len)
  BY <1>1 DEF TxCount
<1>4. QED
  BY <1>1, <1>2, <1>3 DEF IInv, TypeOK, TrailingTx, Answered, NeverRefused, OkIsVerified

LEMMA NextKeepsIInv == IInv /\ [Next]_vars => IInv'
<1> SUFFICES ASSUME IInv, [Next]_vars PROVE IInv'
  OBVIOUS
<1>1. CASE RejectEmpty
  BY <1>1 DEF RejectEmpty, IInv, TypeOK, NeverRefused, OkIsVerified
<1>2. CASE FirstTx
  BY <1>2, FirstTxKeepsIInv
<1>3. CASE WriteTx
  BY <1>3, WriteTxKeepsIInv
<1>4. CASE TrailingTx
  BY <1>4, TrailingTxKeepsIInv
<1>5. CASE Fail
  BY <1>5 DEF Fail, IInv, TypeOK, NeverRefused, OkIsVerified
<1>6. CASE UNCHANGED vars
  BY <1>6 DEF vars, IInv, TypeOK, NeverRefused, OkIsVerified
<1>7. QED BY <1>1, <1>2, <1>3, <1>4, <1>5, <1>6 DEF Next

\* The inductive invariant of the staging holds in every reachable state.
THEOREM StagingInvariant == Spec => []IInv
BY InitIInv, NextKeepsIInv, PTL DEF Spec

\* The slice left in chunks() and the write offset beside it stay numbers, and
\* the record a set of positions and bytes.
THEOREM StagingTypeCorrect == Spec => []TypeOK
<1>1. IInv => TypeOK
  BY DEF IInv
<1>2. QED BY <1>1, StagingInvariant, PTL

\* stage_range_proof_record (transfer.rs:388-459) never sends the verification
\* of a proof that is not completely in its record account.
THEOREM VerificationNeverRefused == Spec => []NeverRefused
<1>1. IInv => NeverRefused
  BY DEF IInv
<1>2. QED BY <1>1, StagingInvariant, PTL

\* Its Ok comes with a verified context account and with as many signatures as
\* the length of the proof calls for.
THEOREM OkVerified == Spec => []OkIsVerified
<1>1. IInv => OkIsVerified
  BY DEF IInv
<1>2. QED BY <1>1, StagingInvariant, PTL

\* It never writes past the end of the record account, whose space is the
\* length of the proof (transfer.rs:396).
THEOREM StagingWritesFit == Spec => []WritesFit
<1>1. IInv => WritesFit
  <2> SUFFICES ASSUME IInv, NEW p \in record PROVE p[1] < len
    BY DEF WritesFit
  <2>1. /\ offset \in Nat /\ rest \in Nat /\ len \in Int
        /\ offset + rest = len
        /\ p \in Write(0, 0, offset)
    BY ChunkAssumption DEF IInv, TypeOK
  <2>2. p[1] \in Int /\ p[1] < offset
    BY <2>1, WriteType
  <2>3. QED BY <2>1, <2>2
<1>2. QED BY <1>1, StagingInvariant, PTL

\* No byte it has written is overwritten with another.
THEOREM StagingOverwritesNothing == Spec => NothingOverwritten
<1>1. IInv /\ IInv' => \A p \in record : \A q \in record' : p[1] = q[1] => p = q
  <2> SUFFICES ASSUME IInv, IInv', NEW p \in record, NEW q \in record', p[1] = q[1]
               PROVE  p = q
    OBVIOUS
  <2>1. /\ offset \in Nat /\ p \in Write(0, 0, offset)
        /\ offset' \in Nat /\ q \in Write(0, 0, offset')
    BY DEF IInv, TypeOK
  <2>2. p = <<p[2], p[2]>>
    <3>1. PICK k \in 0..(offset - 1) : p = <<0 + k, 0 + k>>
      BY <2>1 DEF Write
    <3>2. QED BY <3>1
  <2>3. q = <<q[1], q[1]>>
    <3>1. PICK k \in 0..(offset' - 1) : q = <<0 + k, 0 + k>>
      BY <2>1 DEF Write
    <3>2. QED BY <3>1
  <2>4. p = <<p[1], p[1]>>
    BY <2>2
  <2>5. QED BY <2>3, <2>4
<1>2. QED BY <1>1, StagingInvariant, PTL DEF NothingOverwritten
=============================================================================
