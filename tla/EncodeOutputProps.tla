------------------------- MODULE EncodeOutputProps -------------------------
(* What the blocking encode bridge promises.                               *)
EXTENDS EncodeOutput

\* Types of the writer's, the encoder's and the call's state.
TypeOK ==
    /\ faulty \in BOOLEAN
    /\ pend \in 0..cap
    /\ cap \in 1..MaxCap
    /\ encSt \in {"new", "open", "done", "broken"}
    /\ held \in 0..MaxHeld
    /\ asked \in Nat
    /\ base \in 0..SourceLen
    /\ pc \in {"idle", "loop", "flush", "write"}
    /\ call \in [count : 0..SourceLen, read : 0..SourceLen, left : 0..MaxRaw,
                 calls : {0}]
    /\ base + call.read <= SourceLen
    /\ ret \in Tags

\* advance is unsafe: whatever encoder and codec report, the units the bridge
\* commits lie inside the buffer, and the caller's position inside its values.
\* The loop of the batch call ends in its first iteration, whatever the encoder
\* does: a report that passes validation is Complete or ends the call with an
\* error. The space reserved before an honest encoder is called is enough for
\* it: neither its reports nor its bounds are refused, and a single value that
\* passed its checks fits what was reserved.
SafeForAnyEncoder ==
    /\ TypeOK
    /\ ~faulty => ret \notin {"InvalidData", "BoundInsufficient",
                              "InsufficientOutput", "Panic"}

\* The buffer holds what the bridge answers for: the units of every report it
\* accepted, of every value it encoded whole and of every raw unit write_all
\* counted as written, less what was delivered, and the encoder has the rest.
\* So the bridge commits what an encoder made, once, and nothing of an encoder
\* call that fails, of a report that validation refuses or of a value whose
\* lifecycle fails (docs of transcode, transcode_step and write_encoded_with:
\* such units "are not committed"); and write_all counts exactly the units that
\* the output took, over interrupted, short and failing writes. A batch that
\* ends because its bound was insufficient fails after it has accepted a
\* report, whose units it has committed. What a drain delivers is the output's
\* own doing.
NoUnitLostOrInvented == owed = pend + held

\* The batch loop is in its first iteration, on values the caller has, and has
\* the room it reserved for all of them.
BatchHasRoom ==
    /\ call.read = 0
    /\ pc = "loop" => /\ call.count \in 1..(SourceLen - base)
                      /\ BatchBound(call.count) <= cap - pend

\* The inductive invariant of the proofs.
IInv == SafeForAnyEncoder /\ NoUnitLostOrInvented /\ BatchHasRoom

----------------------------------------------------------------------------
(* A caller who writes its stream step by step, as the example of          *)
(* transcode_step does: it makes the room a step asked for, finishes the   *)
(* stream, and retries what an output error stopped.                       *)

StepOnAll ==
    /\ encSt = "open"
    /\ base < SourceLen
    /\ asked <= cap - pend
    /\ StepOf(SourceLen - base)

MakeRoom == asked > cap - pend /\ EnsureSpareOf(asked)

FinishAll == Finish /\ encSt = "open" /\ base = SourceLen

InCall == LoopEncodes \/ FinishFlushes \/ WriteAllStep \/ WriteAllDone

CallerNext == StepOnAll \/ MakeRoom \/ Flush \/ FinishAll \/ InCall

FairSpec ==
    /\ Spec
    /\ WF_vars(InCall)
    /\ WF_vars(StepOnAll)
    /\ WF_vars(MakeRoom)
    /\ WF_vars(FinishAll)
    /\ WF_vars(Flush)

\* Once the caller only drives its stream and the output is reliable, the
\* stream is finished, or the encoder has rejected a value, and every unit is
\* delivered: no step stops for output again and again, and no unit that a
\* failed finish or flush left behind stays there.
StreamIsWritten ==
    <>[][CallerNext /\ ret' \notin {"IoError", "OutOfMemory"}]_vars =>
        []<>(faulty \/ (encSt # "open" /\ pend = 0))

=============================================================================
