--------------------------- MODULE VectoredWrite ---------------------------
(***************************************************************************)
(* write_all_vectored: sends a list of byte slices with as few writev calls*)
(* as the stream allows.  The stream may take any part of what it is       *)
(* offered, the end of that part falling inside any slice.                 *)
(*                                                                         *)
(* The slices, laid end to end, are the bytes [0, Total); bound lists where*)
(* each slice starts, closed by Total.  current_slices is slices[idx ..],  *)
(* empty when idx = Len(bound).                                            *)
(***************************************************************************)
EXTENDS Integers, Sequences

CONSTANT Layouts        \* the lists of slice boundaries a caller may pass

MAX_IO_SLICES == 4

ASSUME LayoutsAssumption ==
    \A b \in Layouts :
        /\ b \in Seq(Nat) /\ Len(b) >= 1 /\ b[1] = 0
        /\ \A i, j \in 1 .. Len(b) : i <= j => b[i] <= b[j]

VARIABLES
    bound,
    idx, off,     \* current_slices and first_slice_offset
    remaining,    \* bytes of the last write not yet accounted for
    sent,         \* bytes the stream has accepted
    open,         \* the stream still takes bytes
    pc            \* "loop", "advance"; "ok", "write_zero", "io_error"

vars == <<bound, idx, off, remaining, sent, open, pc>>

Empty       == idx = Len(bound)               \* current_slices.is_empty()
Total       == bound[Len(bound)]
SliceLen    == bound[idx + 1] - bound[idx]    \* current_slices[0].len()
IoSlicesEnd == IF idx + MAX_IO_SLICES <= Len(bound)
               THEN idx + MAX_IO_SLICES ELSE Len(bound)
Offered     == bound[IoSlicesEnd] - (bound[idx] + off)

Init ==
    /\ bound \in Layouts
    /\ idx = 1 /\ off = 0 /\ remaining = 0 /\ sent = 0
    /\ open = TRUE /\ pc = "loop"

(* Mutant: a slice that is used up, or was empty, is not skipped.          *)
NeverSkips == FALSE

MustSkip == off >= SliceLen

SkipUsedUp ==
    /\ pc = "loop" /\ ~Empty /\ MustSkip
    /\ idx' = idx + 1 /\ off' = 0
    /\ UNCHANGED <<bound, remaining, sent, open, pc>>

Finish ==
    /\ pc = "loop" /\ Empty
    /\ pc' = "ok"
    /\ UNCHANGED <<bound, idx, off, remaining, sent, open>>

(* Mutant: a write of nothing is tried again instead of reported.          *)
WriteZeroRetried ==
    /\ pc = "loop" /\ ~Empty /\ ~MustSkip
    /\ \E n \in 0 .. Offered :
         /\ n = 0 => Offered = 0 \/ ~open
         /\ n > 0 => open
         /\ sent' = sent + n
         /\ remaining' = n
         /\ pc' = "advance"
    /\ UNCHANGED <<bound, idx, off, open>>

(* stream.write_vectored(..).await? returned n.  An open stream returns 0  *)
(* only if it was offered nothing.                                         *)
WriteVectored ==
    /\ pc = "loop" /\ ~Empty /\ ~MustSkip
    /\ \E n \in 0 .. Offered :
         /\ n = 0 => Offered = 0 \/ ~open
         /\ n > 0 => open
         /\ sent' = sent + n
         /\ remaining' = n
         /\ pc' = IF n = 0 THEN "write_zero" ELSE "advance"
    /\ UNCHANGED <<bound, idx, off, open>>

WriteFails ==
    /\ pc = "loop" /\ ~Empty /\ ~MustSkip
    /\ pc' = "io_error"
    /\ UNCHANGED <<bound, idx, off, remaining, sent, open>>

(* Mutant: the offset into the slice just left is kept for the next one.   *)
AdvanceKeepsOffset ==
    /\ pc = "advance" /\ remaining > 0 /\ ~Empty
    /\ LET active_len == SliceLen - off
       IN  \/ /\ remaining >= active_len
              /\ remaining' = remaining - active_len
              /\ idx' = idx + 1 /\ UNCHANGED off
           \/ /\ remaining < active_len
              /\ off' = off + remaining /\ remaining' = 0
              /\ UNCHANGED idx
    /\ UNCHANGED <<bound, sent, open, pc>>

(* Mutant: a slice written in part is taken for written.                   *)
AdvancePastPartial ==
    /\ pc = "advance" /\ remaining > 0 /\ ~Empty
    /\ LET active_len == SliceLen - off
       IN  remaining' = IF remaining >= active_len THEN remaining - active_len ELSE 0
    /\ idx' = idx + 1 /\ off' = 0
    /\ UNCHANGED <<bound, sent, open, pc>>

(* Mutant: a slice written in full stays at the head of the list.          *)
AdvanceStays ==
    /\ pc = "advance" /\ remaining > 0 /\ ~Empty
    /\ LET active_len == SliceLen - off
       IN  \/ /\ remaining >= active_len
              /\ remaining' = remaining - active_len
              /\ UNCHANGED idx /\ off' = 0
           \/ /\ remaining < active_len
              /\ off' = off + remaining /\ remaining' = 0
              /\ UNCHANGED idx
    /\ UNCHANGED <<bound, sent, open, pc>>

(* One iteration of the loop that accounts for the bytes written.          *)
Advance ==
    /\ pc = "advance" /\ remaining > 0 /\ ~Empty
    /\ LET active_len == SliceLen - off
       IN  \/ /\ remaining >= active_len
              /\ remaining' = remaining - active_len
              /\ idx' = idx + 1 /\ off' = 0
           \/ /\ remaining < active_len
              /\ off' = off + remaining /\ remaining' = 0
              /\ UNCHANGED idx
    /\ UNCHANGED <<bound, sent, open, pc>>

AdvanceDone ==
    /\ pc = "advance" /\ (remaining = 0 \/ Empty)
    /\ pc' = "loop"
    /\ UNCHANGED <<bound, idx, off, remaining, sent, open>>

Step == SkipUsedUp \/ Finish \/ WriteVectored \/ WriteFails \/ Advance \/ AdvanceDone

(* The peer may close at any time.                                         *)
StreamCloses ==
    /\ open /\ pc \in {"loop", "advance"}
    /\ open' = FALSE
    /\ UNCHANGED <<bound, idx, off, remaining, sent, pc>>

Returned == pc \in {"ok", "write_zero", "io_error"} /\ UNCHANGED vars

Next == Step \/ StreamCloses \/ Returned

Spec == Init /\ [][Next]_vars

-----------------------------------------------------------------------------
(* Properties.                                                             *)

(* Type invariant: the cursor is always inside the list, so neither        *)
(* current_slices[0] nor the slicing by first_slice_offset can panic.      *)
TypeOK ==
    /\ bound \in Layouts
    /\ idx \in 1 .. Len(bound) /\ off \in Nat
    /\ ~Empty => off <= SliceLen
    /\ remaining \in Nat /\ sent \in Nat /\ open \in BOOLEAN
    /\ pc \in {"loop", "advance", "ok", "write_zero", "io_error"}

(* The next byte offered is the first one the stream has not taken: with   *)
(* any pattern of partial writes over any slices, no byte is sent twice and*)
(* none is skipped.                                                        *)
Cursor == bound[idx] + off + remaining = sent

(* Ok(()) is returned only when every byte was accepted.                   *)
OkMeansAll == pc = "ok" => sent = Total

(* WriteZero is reported only of a stream that closed: empty slices, at the*)
(* front, the middle or the end of the list, never look like a refusal.    *)
NoFalseWriteZero == pc = "write_zero" => ~open

(* Work left, in loop iterations.                                          *)
Work ==
    3 * (Total - sent) + remaining + (Len(bound) - idx)
      + (IF pc = "advance" THEN 2 ELSE IF pc = "loop" THEN 1 ELSE 0)

(* No step of the loops is idle: each one brings the return nearer, so the *)
(* function cannot spin on a stream that keeps accepting bytes.            *)
EveryStepCounts == [][open' = open => Work' < Work]_vars

(* The inductive invariant.                                                *)
IInv ==
    /\ TypeOK /\ Cursor /\ NoFalseWriteZero
    /\ Empty => off = 0
    /\ sent <= Total
    /\ pc \in {"loop", "ok"} => remaining = 0
    /\ pc = "ok" => Empty
=============================================================================
