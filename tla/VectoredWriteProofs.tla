------------------------ MODULE VectoredWriteProofs ------------------------
(* Proofs about write_all_vectored, for every list of slices.              *)
EXTENDS VectoredWrite, TLAPS

(* What the layout of the slices gives at the cursor.                      *)
LEMMA Layout ==
    ASSUME TypeOK
    PROVE  /\ Len(bound) \in Nat /\ Len(bound) >= 1 /\ idx \in Nat
           /\ bound[idx] \in Nat /\ bound[1] = 0
           /\ Total \in Nat /\ bound[idx] <= Total
           /\ ~Empty => /\ idx + 1 \in 1 .. Len(bound)
                        /\ bound[idx + 1] \in Nat
                        /\ bound[idx] <= bound[idx + 1] /\ bound[idx + 1] <= Total
                        /\ SliceLen \in Nat /\ SliceLen = bound[idx + 1] - bound[idx]
                        /\ Offered \in Int /\ Offered <= Total - (bound[idx] + off)
                        /\ Offered >= SliceLen - off
           /\ Empty => bound[idx] = Total
  <1>1. /\ bound \in Seq(Nat) /\ Len(bound) \in Nat /\ Len(bound) >= 1
        /\ bound[1] = 0
        /\ \A i, j \in 1 .. Len(bound) : i <= j => bound[i] <= bound[j]
    BY LayoutsAssumption DEF TypeOK
  <1>2. \A i \in 1 .. Len(bound) : bound[i] \in Nat BY <1>1
  <1>3. idx \in 1 .. Len(bound) /\ idx \in Nat /\ off \in Nat BY <1>1 DEF TypeOK
  <1>4. Len(bound) \in 1 .. Len(bound) BY <1>1
  <1>5. bound[idx] \in Nat /\ Total \in Nat /\ bound[idx] <= Total
    BY <1>1, <1>2, <1>3, <1>4 DEF Total
  <1>6. Empty => bound[idx] = Total BY DEF Empty, Total
  <1>7. ASSUME ~Empty
        PROVE  /\ idx + 1 \in 1 .. Len(bound)
               /\ bound[idx + 1] \in Nat
               /\ bound[idx] <= bound[idx + 1] /\ bound[idx + 1] <= Total
               /\ SliceLen \in Nat /\ SliceLen = bound[idx + 1] - bound[idx]
               /\ Offered \in Int /\ Offered <= Total - (bound[idx] + off)
               /\ Offered >= SliceLen - off
    <2>1. idx + 1 \in 1 .. Len(bound) BY <1>1, <1>3, <1>7 DEF Empty
    <2>2. /\ bound[idx + 1] \in Nat /\ bound[idx] <= bound[idx + 1]
          /\ bound[idx + 1] <= Total
      BY <1>1, <1>2, <1>3, <1>4, <2>1 DEF Total
    <2>3. SliceLen \in Nat /\ SliceLen = bound[idx + 1] - bound[idx]
      BY <1>5, <2>2 DEF SliceLen
    <2>4. IoSlicesEnd \in 1 .. Len(bound) /\ idx + 1 <= IoSlicesEnd
      BY <1>1, <1>3, <2>1 DEF IoSlicesEnd, MAX_IO_SLICES
    <2>5. /\ bound[IoSlicesEnd] \in Nat /\ bound[IoSlicesEnd] <= Total
          /\ bound[idx + 1] <= bound[IoSlicesEnd]
      BY <1>1, <1>2, <1>4, <2>1, <2>4 DEF Total
    <2>6. Offered \in Int /\ Offered = bound[IoSlicesEnd] - (bound[idx] + off)
      BY <1>3, <1>5, <2>5 DEF Offered
    <2>7. Offered <= Total - (bound[idx] + off)
      BY <1>3, <1>5, <2>5, <2>6
    <2>8. Offered >= SliceLen - off
      <3>1. ASSUME NEW a \in Nat, NEW b \in Nat, NEW c \in Nat, NEW d \in Nat, b <= c
            PROVE  c - (a + d) >= (b - a) - d
        BY <3>1
      <3>2. bound[IoSlicesEnd] - (bound[idx] + off) >= (bound[idx + 1] - bound[idx]) - off
        BY <1>3, <1>5, <2>2, <2>5, <3>1
      <3>3. QED BY <2>3, <2>6, <3>2
    <2>9. QED BY <2>1, <2>2, <2>3, <2>6, <2>7, <2>8
  <1>8. QED BY <1>1, <1>3, <1>5, <1>6, <1>7

(* The inductive invariant holds in every reachable state.                 *)
THEOREM Inductive == Spec => []IInv
  <1>1. Init => IInv
    <2> SUFFICES ASSUME Init PROVE IInv OBVIOUS
    <2>1. TypeOK
      <3>1. /\ bound \in Layouts /\ bound \in Seq(Nat) /\ Len(bound) \in Nat
            /\ Len(bound) >= 1
            /\ \A i, j \in 1 .. Len(bound) : i <= j => bound[i] <= bound[j]
        BY LayoutsAssumption DEF Init
      <3>2. idx \in 1 .. Len(bound) /\ off = 0 BY <3>1 DEF Init
      <3>3. ~Empty => off <= SliceLen
        <4> SUFFICES ASSUME ~Empty PROVE off <= SliceLen OBVIOUS
        <4>1. idx = 1 /\ idx # Len(bound) BY DEF Empty, Init
        <4>2. Len(bound) \in Nat /\ Len(bound) >= 1 /\ Len(bound) # 1
          BY <3>1, <4>1
        <4>3. \A n \in Nat : n >= 1 /\ n # 1 => n >= 2 OBVIOUS
        <4>4. Len(bound) >= 2 BY <4>2, <4>3
        <4>5. idx + 1 = 2 BY <4>1
        <4>6. idx + 1 \in 1 .. Len(bound) BY <4>2, <4>4, <4>5
        <4>7. bound[idx] \in Nat /\ bound[idx + 1] \in Nat
              /\ bound[idx] <= bound[idx + 1]
          BY <3>1, <3>2, <4>6
        <4>8. QED BY <3>2, <4>7 DEF SliceLen
      <3>4. QED BY <3>1, <3>2, <3>3 DEF Init, TypeOK
    <2>2. QED BY <2>1, Layout DEF Init, IInv, Cursor, NoFalseWriteZero
  <1>2. IInv /\ [Next]_vars => IInv'
    <2> SUFFICES ASSUME IInv, [Next]_vars PROVE IInv' OBVIOUS
    <2> USE DEF IInv, Cursor, NoFalseWriteZero
    <2>0. TypeOK BY DEF IInv
    <2>1. CASE SkipUsedUp
      <3>1. /\ pc = "loop" /\ ~Empty /\ off = SliceLen /\ remaining = 0
            /\ idx' = idx + 1 /\ off' = 0
            /\ UNCHANGED <<bound, remaining, sent, open, pc>>
        BY <2>1, Layout DEF SkipUsedUp, MustSkip, TypeOK
      <3>2. idx' \in 1 .. Len(bound') BY <3>1, Layout
      <3>3. ~Empty' => 0 <= SliceLen'
        <4> SUFFICES ASSUME ~Empty' PROVE 0 <= SliceLen' OBVIOUS
        <4>0. idx + 1 # Len(bound) BY <3>1 DEF Empty
        <4>1. idx + 1 \in 1 .. Len(bound) /\ idx + 2 \in 1 .. Len(bound)
          <5>1. idx \in Nat /\ idx >= 1 /\ Len(bound) \in Nat
                /\ idx + 1 <= Len(bound)
            BY <2>0, <3>1, Layout DEF TypeOK
          <5>2. QED BY <4>0, <5>1
        <4>2. /\ bound[idx + 1] <= bound[idx + 2] /\ bound[idx + 1] \in Nat
              /\ bound[idx + 2] \in Nat
          BY <2>0, <4>1, LayoutsAssumption DEF TypeOK
        <4>3. SliceLen' = bound[idx + 2] - bound[idx + 1]
          <5>1. SliceLen' = bound[(idx + 1) + 1] - bound[idx + 1]
            BY <3>1 DEF SliceLen
          <5>2. (idx + 1) + 1 = idx + 2 BY <2>0, Layout
          <5>3. QED BY <5>1, <5>2
        <4>4. QED BY <4>2, <4>3
      <3>4. TypeOK' BY <3>1, <3>2, <3>3 DEF TypeOK
      <3>5. Cursor'
        BY <2>0, <3>1, Layout DEF TypeOK
      <3>6. QED BY <3>1, <3>4, <3>5 DEF Total
    <2>2. CASE Finish
      BY <2>2 DEF Finish, TypeOK, Total, Empty, SliceLen
    <2>3. CASE WriteVectored
      <3>1. PICK n \in 0 .. Offered :
              /\ pc = "loop" /\ ~Empty /\ off < SliceLen
              /\ n = 0 => Offered = 0 \/ ~open
              /\ sent' = sent + n /\ remaining' = n
              /\ pc' = IF n = 0 THEN "write_zero" ELSE "advance"
              /\ UNCHANGED <<bound, idx, off, open>>
        BY <2>0, <2>3, Layout DEF WriteVectored, MustSkip, TypeOK
      <3>2. /\ n \in Nat /\ n <= Offered /\ Offered \in Int
            /\ Offered >= SliceLen - off /\ Offered > 0
        BY <2>0, <3>1, Layout DEF TypeOK
      <3>3. sent = bound[idx] + off /\ sent + n <= Total
        BY <2>0, <3>1, <3>2, Layout DEF TypeOK
      <3>4. TypeOK' BY <3>1, <3>2 DEF TypeOK, Empty, SliceLen
      <3>5. Cursor' BY <2>0, <3>1, <3>2, <3>3, Layout DEF TypeOK
      <3>6. QED BY <3>1, <3>2, <3>3, <3>4, <3>5 DEF Empty, Total
    <2>4. CASE WriteFails
      BY <2>4 DEF WriteFails, TypeOK, Total, Empty, SliceLen
    <2>5. CASE Advance
      <3>1. /\ pc = "advance" /\ remaining > 0 /\ ~Empty
            /\ UNCHANGED <<bound, sent, open, pc>>
        BY <2>5 DEF Advance
      <3>2. CASE /\ remaining >= SliceLen - off
                 /\ remaining' = remaining - (SliceLen - off)
                 /\ idx' = idx + 1 /\ off' = 0
        <4>1. idx' \in 1 .. Len(bound') BY <2>0, <3>1, <3>2, Layout
        <4>2. ~Empty' => 0 <= SliceLen'
          <5> SUFFICES ASSUME ~Empty' PROVE 0 <= SliceLen' OBVIOUS
          <5>0. idx + 1 # Len(bound) BY <3>1, <3>2 DEF Empty
          <5>1. idx + 1 \in 1 .. Len(bound) /\ idx + 2 \in 1 .. Len(bound)
            <6>1. idx \in Nat /\ idx >= 1 /\ Len(bound) \in Nat
                  /\ idx + 1 <= Len(bound)
              BY <2>0, <3>1, Layout DEF TypeOK
            <6>2. QED BY <5>0, <6>1
          <5>2. /\ bound[idx + 1] <= bound[idx + 2] /\ bound[idx + 1] \in Nat
                /\ bound[idx + 2] \in Nat
            BY <2>0, <5>1, LayoutsAssumption DEF TypeOK
          <5>3. SliceLen' = bound[idx + 2] - bound[idx + 1]
            <6>1. SliceLen' = bound[(idx + 1) + 1] - bound[idx + 1]
              BY <3>1, <3>2 DEF SliceLen
            <6>2. (idx + 1) + 1 = idx + 2 BY <2>0, Layout
            <6>3. QED BY <6>1, <6>2
          <5>4. QED BY <5>2, <5>3
        <4>3. remaining' \in Nat
          <5>1. SliceLen \in Nat BY <2>0, <3>1, Layout
          <5>2. off \in Nat /\ remaining \in Nat BY <2>0 DEF TypeOK
          <5>3. QED BY <3>2, <5>1, <5>2
        <4>4. TypeOK' BY <3>1, <3>2, <4>1, <4>2, <4>3 DEF TypeOK
        <4>5. Cursor'
          <5>1. /\ bound[idx] \in Nat /\ bound[idx + 1] \in Nat
                /\ SliceLen = bound[idx + 1] - bound[idx]
                /\ off \in Nat /\ remaining \in Nat /\ sent \in Nat
            BY <2>0, <3>1, Layout DEF TypeOK
          <5>2. sent = bound[idx] + off + remaining BY DEF IInv, Cursor
          <5>3. bound'[idx'] = bound[idx + 1] BY <3>1, <3>2
          <5>4. QED BY <3>1, <3>2, <5>1, <5>2, <5>3
        <4>6. QED BY <3>1, <3>2, <4>4, <4>5 DEF Total
      <3>3. CASE /\ remaining < SliceLen - off
                 /\ off' = off + remaining /\ remaining' = 0
                 /\ UNCHANGED idx
        <4>1. TypeOK' BY <2>0, <3>1, <3>3, Layout DEF TypeOK, Empty, SliceLen
        <4>2. Cursor' BY <2>0, <3>1, <3>3, Layout DEF TypeOK
        <4>3. QED BY <3>1, <3>3, <4>1, <4>2 DEF Total, Empty
      <3>4. QED BY <2>5, <3>2, <3>3 DEF Advance
    <2>6. CASE AdvanceDone
      <3>1. /\ pc = "advance" /\ (remaining = 0 \/ Empty) /\ pc' = "loop"
            /\ UNCHANGED <<bound, idx, off, remaining, sent, open>>
        BY <2>6 DEF AdvanceDone
      <3>2. remaining = 0
        BY <2>0, <3>1, Layout DEF TypeOK
      <3>3. QED BY <3>1, <3>2 DEF TypeOK, Total, Empty, SliceLen
    <2>7. CASE StreamCloses
      BY <2>7 DEF StreamCloses, TypeOK, Total, Empty, SliceLen
    <2>8. CASE UNCHANGED vars
      BY <2>8 DEF vars, TypeOK, Total, Empty, SliceLen
    <2>9. QED
      BY <2>1, <2>2, <2>3, <2>4, <2>5, <2>6, <2>7, <2>8
         DEF Next, Step, Returned
  <1>3. QED BY <1>1, <1>2, PTL DEF Spec

(* The cursor never leaves the list.                                       *)
THEOREM TypeCorrect == Spec => []TypeOK
  <1>1. IInv => TypeOK BY DEF IInv
  <1>2. QED BY Inductive, <1>1, PTL

(* No byte of the list is sent twice and none is skipped.                  *)
THEOREM NoGapNoRepeat == Spec => []Cursor
  <1>1. IInv => Cursor BY DEF IInv
  <1>2. QED BY Inductive, <1>1, PTL

(* Ok(()) means that the stream accepted every byte.                       *)
THEOREM OkIsComplete == Spec => []OkMeansAll
  <1>1. IInv => OkMeansAll
    BY Layout DEF IInv, TypeOK, Cursor, OkMeansAll
  <1>2. QED BY Inductive, <1>1, PTL

(* WriteZero is never reported of an open stream.                          *)
THEOREM WriteZeroMeansClosed == Spec => []NoFalseWriteZero
  <1>1. IInv => NoFalseWriteZero BY DEF IInv
  <1>2. QED BY Inductive, <1>1, PTL

(* Every iteration brings the return nearer: the loops cannot spin.        *)
THEOREM NeverSpins == Spec => EveryStepCounts
  <1>1. IInv /\ [Next]_vars => [open' = open => Work' < Work]_vars
    <2> SUFFICES ASSUME IInv, Next, open' = open, vars' # vars
                 PROVE  Work' < Work
      BY DEF vars
    <2>1. /\ TypeOK /\ Total \in Nat /\ Len(bound) \in Nat /\ idx \in Nat
          /\ idx <= Len(bound) /\ sent \in Nat /\ remaining \in Nat /\ off \in Nat
      BY Layout DEF IInv, TypeOK
    <2>2. UNCHANGED bound => Total' = Total /\ Len(bound') = Len(bound)
      BY DEF Total
    <2>3. CASE SkipUsedUp
      BY <2>1, <2>2, <2>3 DEF SkipUsedUp, Work
    <2>4. CASE Finish \/ WriteFails
      BY <2>1, <2>2, <2>4 DEF Finish, WriteFails, Work
    <2>5. CASE WriteVectored
      <3>1. PICK n \in 0 .. Offered :
              /\ pc = "loop" /\ ~Empty
              /\ sent' = sent + n /\ remaining' = n
              /\ pc' = IF n = 0 THEN "write_zero" ELSE "advance"
              /\ UNCHANGED <<bound, idx>>
        BY <2>5 DEF WriteVectored
      <3>2. n \in Nat /\ remaining = 0 BY <2>1, <3>1, Layout DEF IInv
      <3>3. CASE n = 0 BY <2>1, <2>2, <3>1, <3>2, <3>3 DEF Work
      <3>4. CASE n > 0 BY <2>1, <2>2, <3>1, <3>2, <3>4 DEF Work
      <3>5. QED BY <3>2, <3>3, <3>4
    <2>6. CASE Advance
      <3>1. /\ pc = "advance" /\ remaining > 0 /\ ~Empty
            /\ UNCHANGED <<bound, sent, open, pc>>
        BY <2>6 DEF Advance
      <3>2. SliceLen \in Nat /\ off <= SliceLen BY <2>1, <3>1, Layout DEF TypeOK
      <3>3. CASE /\ remaining >= SliceLen - off
                 /\ remaining' = remaining - (SliceLen - off)
                 /\ idx' = idx + 1
        BY <2>1, <2>2, <3>1, <3>2, <3>3 DEF Work
      <3>4. CASE /\ remaining' = 0 /\ UNCHANGED idx
        BY <2>1, <2>2, <3>1, <3>4 DEF Work
      <3>5. QED BY <2>6, <3>3, <3>4 DEF Advance
    <2>7. CASE AdvanceDone
      BY <2>1, <2>2, <2>7 DEF AdvanceDone, Work
    <2>8. CASE StreamCloses
      BY <2>8 DEF StreamCloses
    <2>9. QED
      BY <2>3, <2>4, <2>5, <2>6, <2>7, <2>8 DEF Next, Step, Returned
  <1>2. QED BY Inductive, <1>1, PTL DEF Spec, EveryStepCounts
=============================================================================
