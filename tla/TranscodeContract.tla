------------------------- MODULE TranscodeContract -------------------------
(* What a transcode call may report and what it checks before it starts:   *)
(* TranscodeProgress and its validate() (transcode_progress.rs), the       *)
(* ensure_* preflight checks (transcode_failure.rs) and the checked usize  *)
(* arithmetic of the capacity planners (transcoder.rs).                    *)
EXTENDS Naturals

CONSTANT UsizeMax        \* the largest usize; the models take a small one

ASSUME UsizeMaxAssumption == UsizeMax \in Nat

ProgressTags == {"Complete", "NeedInput", "NeedOutput"}

CapacityFailures == {"InsufficientOutput", "OutputLengthOverflow"}

IndexFailures == {"InvalidInputIndex", "InvalidOutputIndex"}

\* TranscodeProgress. required is 0 for Complete: the code has no field there.
Progress(tag, required, read, written) ==
    [tag |-> tag, required |-> required, read |-> read, written |-> written]

\* A return other than Ok(progress), with the number of units a lifecycle call
\* wrote.
Return(tag) == Progress(tag, 0, 0, 0)

Wrote(tag, written) == Progress(tag, 0, 0, written)

\* The TranscodeContractError validate() reports for progress p of a call
\* that saw availIn units and availOut slots from inIndex and outIndex on.
Validate(p, inIndex, availIn, outIndex, availOut) ==
    IF p.read > availIn THEN "OverRead"
    ELSE IF p.written > availOut THEN "OverWritten"
    ELSE IF inIndex + p.read > UsizeMax \/ outIndex + p.written > UsizeMax
    THEN "ProgressIndexOverflow"
    ELSE CASE p.tag = "Complete" /\ p.read # availIn
                -> "CompleteWithRemainingInput"
           [] p.tag = "NeedInput" /\ p.required <= availIn - p.read
                -> "SatisfiedNeed"
           [] p.tag = "NeedOutput" /\ p.required <= availOut - p.written
                -> "SatisfiedNeed"
           [] OTHER -> "none"

\* Mutant: the output index is not checked.
IndexFailureInputOnly(inLen, inIndex, outLen, outIndex) ==
    IF inIndex > inLen THEN "InvalidInputIndex" ELSE "none"

\* ensure_transcode_indices: the input index is looked at first.
IndexFailure(inLen, inIndex, outLen, outIndex) ==
    IF inIndex > inLen THEN "InvalidInputIndex"
    ELSE IF outIndex > outLen THEN "InvalidOutputIndex" ELSE "none"

\* ensure_output_capacity.
CapacityFailure(outLen, outIndex, required) ==
    IF outIndex > outLen THEN "InvalidOutputIndex"
    ELSE IF outLen - outIndex < required THEN "InsufficientOutput" ELSE "none"

\* checked_add and checked_mul of the capacity planners. Overflow stands for
\* Err(OutputLengthOverflow); the ? operator passes it on, whatever follows.
Overflow == UsizeMax + 1

CheckedAdd(a, b) == IF a + b > UsizeMax THEN Overflow ELSE a + b

CheckedMul(a, b) ==
    IF a > UsizeMax \/ b > UsizeMax \/ a * b > UsizeMax THEN Overflow ELSE a * b

\* A planned bound against an output window.
PlannedCapacityFailure(outLen, outIndex, bound) ==
    IF bound = Overflow THEN "OutputLengthOverflow"
    ELSE CapacityFailure(outLen, outIndex, bound)

=============================================================================
