---------------------------- MODULE ConvertEngine ----------------------------
(* TranscodeConvertEngine (transcode/engine/transcode_convert_engine.rs):  *)
(* a decode engine and an encode engine back to back, with one slot for a  *)
(* decoded value that did not fit the output, under a lifecycle guard of   *)
(* its own. transcode drives decode_one and encode_one directly and never  *)
(* enters the transcode of the inner engines; reset and finish go through  *)
(* the inner reset and finish, each of which can fail after others have    *)
(* taken effect. Here every such call is a step, so that the partial       *)
(* failures of one reset or finish are states of the model.                *)
EXTENDS EncodeStep, TranscodeContract, Lifecycle, Sequences

CONSTANTS MinUnits, MaxUnits, Items,    \* of the decoding codec: DecodeStep
          StreamLen,     \* units of the source stream
          Tails,         \* answers of handle_incomplete_decode to choose from
          MarkTargets,   \* how the values of decode_reset/_finish encode
          Windows,       \* <<output_index, output.len()>> a caller may pass
          DMaxReset,     \* D::MAX_DECODE_RESET_VALUES
          DMaxFinish,    \* decode_engine.max_finish_output_len()
          EMaxReset,     \* E::MAX_ENCODE_RESET_UNITS
          EMaxFinish     \* encode_engine.max_finish_output_len()

VARIABLES
    faulty,      \* the decoding codec may break its contract; never changes
    phase, dPhase, ePhase,   \* the guards of the converter and of its engines
    pending,     \* PendingValueSlot: the empty sequence or one decoded value
    stream,      \* the source: the item a decoder finds at each unit
    tail,        \* the decode hooks' answer to an incomplete tail
    target,      \* how a value decoded at a unit encodes
    mark,        \* how a value of decode_reset or decode_finish encodes
    visible,     \* units that have arrived, input.len() of every call
    base,        \* units the caller has consumed, input_index of a call
    pc,          \* where the running call is
    eof,         \* the end_of_input argument of the running call
    inCur,       \* ConvertState's input cursor
    outStart, outLen, outCur,    \* the output window and ConvertState's cursor
    queue,       \* values of decode_reset or decode_finish still to encode
    buf,         \* encodings the running call has written
    delivered,   \* encodings returned to the caller since the last reset
    failed,      \* a transcode call since the last reset returned an error
    ret          \* what the last call returned

INSTANCE DecodeStep WITH Faulty <- faulty

ASSUME ConvertEngineAssumption ==
    /\ MinUnits \in Nat \ {0}
    /\ MaxUnits \in Nat
    /\ MinUnits <= MaxUnits
    /\ Items \subseteq ItemType
    /\ \A i \in Items : i.consumed <= i.width
    /\ StreamLen \in Nat
    /\ Tails \subseteq Actions
    /\ MarkTargets \subseteq TargetType
    /\ Windows \subseteq Nat \X Nat
    /\ \A w \in Windows : w[2] <= UsizeMax
    /\ DMaxReset \in Nat /\ DMaxFinish \in Nat
    /\ EMaxReset \in Nat /\ EMaxFinish \in Nat

guardVars == <<phase, dPhase, ePhase>>
sourceVars == <<faulty, stream, tail, target, mark>>
windowVars == <<outStart, outLen>>
vars == <<guardVars, pending, sourceVars, visible, base, pc, eof, inCur,
          windowVars, outCur, queue, buf, delivered, failed, ret>>

\* The steps of reset, of transcode and of finish, in the order of the code.
ResetSteps == {"resetEncoder", "resetDecoder", "resetValues"}
TranscodeSteps == {"drain", "loop", "encode"}
FinishSteps == {"finishDrain", "finishDecoder", "finishValues", "finishEncoder"}

\* A decoded value: what produced it and the unit it was decoded at.
Value(sub, at) == [sub |-> sub, at |-> at]

Values == [sub : {"value", "replacement", "tail", "reset", "finish"}, at : Nat]

\* A value and the units its encoding came to.
Encoding(v, len) == [sub |-> v.sub, at |-> v.at, len |-> len]

Encodings == [sub : {"value", "replacement", "tail", "reset", "finish"},
              at : Nat, len : Nat]

Tags == {"none", "ResetOk", "FinishOk", "ResetError", "FinishError",
         "AllocationFailed", "DecodeError", "EncodeError", "Panic"}
        \cup ProgressTags \cup CapacityFailures \cup IndexFailures
        \cup LifecycleFailures

Returns == [tag : Tags, required : Nat, read : Nat, written : Nat]

TargetOf(v) == IF v.sub \in {"reset", "finish"} THEN mark ELSE target[v.at]

----------------------------------------------------------------------------
(* ConvertState.                                                           *)

HasInput == inCur < visible

AvailableInput == visible - inCur

AvailableOutput == IF outLen > outCur THEN outLen - outCur ELSE 0

----------------------------------------------------------------------------
(* Capacity planning: the engines' bounds and the converter's own. The     *)
(* hooks keep the default bounds: n values come from n units and take      *)
(* n * MaxEncode units.                                                    *)

EncodedLen(n) == CheckedMul(n, MaxEncode)

\* Mutant: no room is planned for a value of an earlier call.
MaxTranscodeOutputLenNoPending(n) == EncodedLen(n)

MaxTranscodeOutputLen(n) == CheckedAdd(EncodedLen(n), EncodedLen(1))

MaxResetOutputLen == CheckedAdd(EncodedLen(DMaxReset), EMaxReset)

\* sum_convert_output_bounds, add_convert_output_bounds.
SumConvertOutputBounds(first, second, third) ==
    CheckedAdd(CheckedAdd(first, second), third)

\* max_finish_output_len: a value is assumed to be pending.
MaxFinishOutputLen ==
    SumConvertOutputBounds(EncodedLen(1), EncodedLen(DMaxFinish), EMaxFinish)

\* max_total_output_len: reset, transcode and finish of n units.
MaxTotalOutputLen(n) ==
    SumConvertOutputBounds(MaxResetOutputLen, MaxTranscodeOutputLen(n),
                           MaxFinishOutputLen)

\* PendingValueSlot::current_output_len.
PendingOutputLen == IF pending = <<>> THEN 0 ELSE EncodedLen(1)

\* Mutant: finish plans for the values of the decoder only.
CurrentFinishOutputLenNoPending == CheckedAdd(EncodedLen(DMaxFinish), EMaxFinish)

\* current_finish_output_len: what is pending now, not what could be.
CurrentFinishOutputLen ==
    SumConvertOutputBounds(PendingOutputLen, EncodedLen(DMaxFinish), EMaxFinish)

----------------------------------------------------------------------------
\* Some value lies about its encoding.
LyingTarget == Lies(mark) \/ \E i \in DOMAIN target : Lies(target[i])

\* The answers of a lying decoder do not depend on where in the stream it is.
Init ==
    /\ faulty \in BOOLEAN
    /\ phase = NewGuard
    /\ dPhase = NewGuard
    /\ ePhase = NewGuard
    /\ pending = <<>>
    /\ stream \in [1..StreamLen -> Items]
    /\ faulty => \A i, j \in 1..StreamLen : stream[i] = stream[j]
    /\ tail \in Tails
    /\ target \in [0..(StreamLen - 1) -> Targets]
    /\ mark \in MarkTargets
    /\ visible = 0
    /\ base = 0
    /\ pc = "idle"
    /\ eof = FALSE
    /\ inCur = 0
    /\ outStart = 0
    /\ outLen = 0
    /\ outCur = 0
    /\ queue = 0
    /\ buf = <<>>
    /\ delivered = <<>>
    /\ failed = FALSE
    /\ ret = Return("none")

Arrive ==
    /\ pc = "idle"
    /\ visible < StreamLen
    /\ visible' = visible + 1
    /\ UNCHANGED <<guardVars, pending, sourceVars, base, pc, eof, inCur,
                   windowVars, outCur, queue, buf, delivered, failed, ret>>

----------------------------------------------------------------------------
(* What the steps share.                                                   *)

\* The call returns to the caller; what it wrote is there, reported or not.
Leave ==
    /\ pc' = "idle"
    /\ eof' = FALSE
    /\ outStart' = 0
    /\ outLen' = 0
    /\ outCur' = 0
    /\ queue' = 0
    /\ buf' = <<>>
    /\ delivered' = delivered \o buf

\* return Err, or unwind, from reset or finish.
LeaveWith(tag) ==
    /\ ret' = Return(tag)
    /\ Leave
    /\ UNCHANGED <<phase, sourceVars, visible, base, inCur, failed>>

\* An assertion of encode_one, or one of apply_encode_outcome behind it.
Panics(o) ==
    \/ o.kind = "Panic"
    \/ o.kind = "Consumed" /\ o.n > AvailableOutput
    \/ o.kind = "NeedOutput" /\ o.n <= AvailableOutput

\* What a failing reset or finish of an inner engine reports: its error, or
\* the panic of a count beyond the declared bound.
FailureTags(tag, lying) == {tag} \cup (IF lying THEN {"Panic"} ELSE {})

\* encode_pending on v succeeded: the slot is empty and the output advances.
Accept(v, o) ==
    /\ o.kind = "Consumed"
    /\ ~Panics(o)
    /\ outCur' = outCur + o.n
    /\ buf' = Append(buf, Encoding(v, o.n))
    /\ pending' = <<>>

\* The ways encode_pending can end that reset and finish do not survive: an
\* encode error takes the value with it; a value that does not fit is put
\* back into the slot before the caller's assertion unwinds.
Aborts(v, o) ==
    \/ /\ o.kind = "Error"
       /\ pending' = <<>>
       /\ LeaveWith("EncodeError")
    \/ /\ o.kind = "NeedOutput" \/ Panics(o)
       /\ pending' = IF Panics(o) THEN <<>> ELSE <<v>>
       /\ LeaveWith("Panic")

----------------------------------------------------------------------------
(* reset(output, output_index)                                             *)

ResetRefused(w) ==
    /\ pc = "idle"
    /\ PlannedCapacityFailure(w[2], w[1], MaxResetOutputLen) # "none"
    /\ ret' = Return(PlannedCapacityFailure(w[2], w[1], MaxResetOutputLen))
    /\ UNCHANGED <<guardVars, pending, sourceVars, visible, base, pc, eof, inCur,
                   windowVars, outCur, queue, buf, delivered, failed>>

\* The guard is poisoned and the slot cleared before any user code runs. The
\* caller rewinds its source for the new stream.
ResetBegin(w) ==
    /\ pc = "idle"
    /\ PlannedCapacityFailure(w[2], w[1], MaxResetOutputLen) = "none"
    /\ phase' = OnResetStart
    /\ pending' = <<>>
    /\ pc' = "resetEncoder"
    /\ outStart' = w[1]
    /\ outLen' = w[2]
    /\ outCur' = w[1]
    /\ visible' = 0
    /\ base' = 0
    /\ inCur' = 0
    /\ delivered' = <<>>
    /\ failed' = FALSE
    /\ ret' = Return("none")
    /\ UNCHANGED <<dPhase, ePhase, sourceVars, eof, queue, buf>>

\* encode_engine.reset: refuses a window below its bound, or its codec fails.
ResetEncoder ==
    /\ pc = "resetEncoder"
    /\ LET refused == CapacityFailure(outLen, outCur, EMaxReset)
       IN  \/ /\ ePhase' = IF refused = "none" THEN OnResetStart ELSE ePhase
              /\ \E tag \in FailureTags("ResetError", LyingTarget) :
                    LeaveWith(IF refused = "none" THEN tag ELSE refused)
           \/ /\ refused = "none"
              /\ ePhase' = OnResetSuccess
              /\ pc' = "resetDecoder"
              /\ \E written \in 0..EMaxReset : outCur' = outCur + written
              /\ UNCHANGED <<phase, sourceVars, visible, base, eof, inCur, windowVars,
                             queue, buf, delivered, failed, ret>>
    /\ UNCHANGED <<dPhase, pending>>

\* drain_decoder_reset up to its loop: the scratch vector, decode_engine.reset.
ResetDecoder ==
    /\ pc = "resetDecoder"
    /\ \/ /\ DMaxReset > 0
          /\ LeaveWith("AllocationFailed")
          /\ UNCHANGED dPhase
       \/ /\ dPhase' = OnResetStart
          /\ \E tag \in FailureTags("ResetError", faulty) : LeaveWith(tag)
       \/ /\ dPhase' = OnResetSuccess
          /\ pc' = "resetValues"
          /\ queue' \in 0..DMaxReset
          /\ UNCHANGED <<phase, sourceVars, visible, base, eof, inCur, windowVars,
                         outCur, buf, delivered, failed, ret>>
    /\ UNCHANGED <<ePhase, pending>>

\* The loop of drain_decoder_reset.
ResetValue ==
    /\ pc = "resetValues"
    /\ queue > 0
    /\ \E o \in EncodeOne(mark, AvailableOutput) :
          \/ /\ Accept(Value("reset", 0), o)
             /\ queue' = queue - 1
             /\ UNCHANGED <<phase, sourceVars, visible, base, pc, eof, inCur,
                            windowVars, delivered, failed, ret>>
          \/ Aborts(Value("reset", 0), o)
    /\ UNCHANGED <<dPhase, ePhase>>

ResetDone ==
    /\ pc = "resetValues"
    /\ queue = 0
    /\ phase' = OnResetSuccess
    /\ ret' = Wrote("ResetOk", outCur - outStart)
    /\ Leave
    /\ UNCHANGED <<dPhase, ePhase, pending, sourceVars, visible, base, inCur, failed>>

Reset ==
    \/ \E w \in Windows : ResetRefused(w) \/ ResetBegin(w)
    \/ ResetEncoder \/ ResetDecoder \/ ResetValue \/ ResetDone

----------------------------------------------------------------------------
(* transcode / transcode_eof (input, input_index, output, output_index)    *)

BeginRefused ==
    /\ OnTranscodeFailure(phase) # "none"
    /\ ret' = Return(OnTranscodeFailure(phase))
    /\ UNCHANGED <<phase, pc, eof, inCur, windowVars, outCur>>

BeginBadIndex(w) ==
    /\ OnTranscodeFailure(phase) = "none"
    /\ IndexFailure(visible, base, w[2], w[1]) # "none"
    /\ phase' = OnTranscode(phase)
    /\ ret' = Return(IndexFailure(visible, base, w[2], w[1]))
    /\ UNCHANGED <<pc, eof, inCur, windowVars, outCur>>

\* Mutant: input is read although a decoded value still waits for room.
BeginStepsSkipDrain(e, w) ==
    /\ OnTranscodeFailure(phase) = "none"
    /\ IndexFailure(visible, base, w[2], w[1]) = "none"
    /\ phase' = OnTranscode(phase)
    /\ pc' = "loop"
    /\ eof' = e
    /\ inCur' = base
    /\ outStart' = w[1]
    /\ outLen' = w[2]
    /\ outCur' = w[1]
    /\ ret' = Return("none")

BeginSteps(e, w) ==
    /\ OnTranscodeFailure(phase) = "none"
    /\ IndexFailure(visible, base, w[2], w[1]) = "none"
    /\ phase' = OnTranscode(phase)
    /\ pc' = "drain"
    /\ eof' = e
    /\ inCur' = base
    /\ outStart' = w[1]
    /\ outLen' = w[2]
    /\ outCur' = w[1]
    /\ ret' = Return("none")

Begin(e, w) ==
    /\ pc = "idle"
    /\ e => visible = StreamLen
    /\ ~failed
    /\ BeginRefused \/ BeginBadIndex(w) \/ BeginSteps(e, w)
    /\ UNCHANGED <<dPhase, ePhase, pending, sourceVars, visible, base, queue, buf,
                   delivered, failed>>

\* return Ok(progress): the caller advances by read.
StopWith(tag, required) ==
    /\ ret' = Progress(tag, required, inCur - base, outCur - outStart)
    /\ base' = inCur
    /\ Leave
    /\ UNCHANGED <<guardVars, sourceVars, visible, inCur, failed>>

\* return Err or unwind: the caller gets no progress.
StopFailed(tag) ==
    /\ ret' = Return(tag)
    /\ failed' = TRUE
    /\ Leave
    /\ UNCHANGED <<guardVars, sourceVars, visible, base, inCur>>

\* encode_pending on the value in the slot: before the loop (drain_pending),
\* and in convert_next right after the value was decoded.
EncodePending ==
    /\ pc \in {"drain", "encode"}
    /\ pending # <<>>
    /\ \E o \in EncodeOne(TargetOf(pending[1]), AvailableOutput) :
          \/ /\ Accept(pending[1], o)
             /\ pc' = "loop"
             /\ UNCHANGED <<guardVars, sourceVars, visible, base, eof, inCur,
                            windowVars, queue, delivered, failed, ret>>
          \/ /\ o.kind = "NeedOutput"
             /\ ~Panics(o)
             /\ UNCHANGED pending
             /\ StopWith("NeedOutput", o.n)
          \/ /\ o.kind = "Error"
             /\ pending' = <<>>
             /\ StopFailed("EncodeError")
          \/ /\ Panics(o)
             /\ pending' = <<>>
             /\ StopFailed("Panic")

NothingPending ==
    /\ pc = "drain"
    /\ pending = <<>>
    /\ pc' = "loop"
    /\ UNCHANGED <<guardVars, pending, sourceVars, visible, base, eof, inCur,
                   windowVars, outCur, queue, buf, delivered, failed, ret>>

StopComplete ==
    /\ pc = "loop"
    /\ ~HasInput
    /\ StopWith("Complete", 0)
    /\ UNCHANGED pending

StopNeedInput ==
    /\ pc = "loop"
    /\ HasInput
    /\ AvailableInput < MinUnits
    /\ ~eof
    /\ StopWith("NeedInput", MinUnits)
    /\ UNCHANGED pending

\* The assertion of advance_input, behind those of decode_one.
ReadsBeyond(o) == o.kind \in {"Emitted", "Skipped"} /\ o.n > AvailableInput

\* convert_next up to encode_pending: a decoded value goes to the slot before
\* apply_decode_outcome moves the cursor.
ConvertNext ==
    /\ pc = "loop"
    /\ HasInput
    /\ eof \/ AvailableInput >= MinUnits
    /\ \E o \in DecodeOne(stream[inCur + 1], tail, AvailableInput, eof) :
          \/ /\ o.kind = "Emitted"
             /\ ~ReadsBeyond(o)
             /\ pending' = <<Value(o.sub, inCur)>>
             /\ inCur' = inCur + o.n
             /\ pc' = "encode"
             /\ UNCHANGED <<guardVars, sourceVars, visible, base, eof, windowVars,
                            outCur, queue, buf, delivered, failed, ret>>
          \/ /\ o.kind = "Skipped"
             /\ ~ReadsBeyond(o)
             /\ inCur' = inCur + o.n
             /\ UNCHANGED <<guardVars, pending, sourceVars, visible, base, pc, eof,
                            windowVars, outCur, queue, buf, delivered, failed, ret>>
          \/ /\ o.kind = "NeedInput"
             /\ StopWith("NeedInput", o.n)
             /\ UNCHANGED pending
          \/ /\ o.kind = "Error"
             /\ StopFailed("DecodeError")
             /\ UNCHANGED pending
          \/ /\ o.kind = "Panic" \/ ReadsBeyond(o)
             /\ StopFailed("Panic")
             /\ pending' = IF o.kind = "Emitted" THEN <<Value(o.sub, inCur)>>
                           ELSE pending

Loop == \/ EncodePending \/ NothingPending
        \/ StopComplete \/ StopNeedInput \/ ConvertNext

Transcode == \E e \in BOOLEAN, w \in Windows : Begin(e, w)

----------------------------------------------------------------------------
(* finish(output, output_index)                                            *)

FinishFailure(w) ==
    IF OnFinishFailure(phase) # "none" THEN OnFinishFailure(phase)
    ELSE PlannedCapacityFailure(w[2], w[1], CurrentFinishOutputLen)

FinishRefused(w) ==
    /\ pc = "idle"
    /\ FinishFailure(w) # "none"
    /\ ret' = Return(FinishFailure(w))
    /\ UNCHANGED <<guardVars, pending, sourceVars, visible, base, pc, eof, inCur,
                   windowVars, outCur, queue, buf, delivered, failed>>

FinishBegin(w) ==
    /\ pc = "idle"
    /\ FinishFailure(w) = "none"
    /\ phase' = OnFinishStart
    /\ pc' = "finishDrain"
    /\ outStart' = w[1]
    /\ outLen' = w[2]
    /\ outCur' = w[1]
    /\ ret' = Return("none")
    /\ UNCHANGED <<dPhase, ePhase, pending, sourceVars, visible, base, eof, inCur,
                   queue, buf, delivered, failed>>

\* drain_pending: a retained value goes out before any final value.
FinishDrain ==
    /\ pc = "finishDrain"
    /\ \/ /\ pending = <<>>
          /\ pc' = "finishDecoder"
          /\ UNCHANGED <<phase, pending, sourceVars, visible, base, eof, inCur,
                         windowVars, outCur, queue, buf, delivered, failed, ret>>
       \/ /\ pending # <<>>
          /\ \E o \in EncodeOne(TargetOf(pending[1]), AvailableOutput) :
                \/ /\ Accept(pending[1], o)
                   /\ pc' = "finishDecoder"
                   /\ UNCHANGED <<phase, sourceVars, visible, base, eof, inCur,
                                  windowVars, queue, delivered, failed, ret>>
                \/ Aborts(pending[1], o)
    /\ UNCHANGED <<dPhase, ePhase>>

\* drain_decoder_finish up to its loop: the scratch vector, decode_engine.finish.
FinishDecoder ==
    /\ pc = "finishDecoder"
    /\ LET refused == OnFinishFailure(dPhase)
       IN  \/ /\ DMaxFinish > 0
              /\ LeaveWith("AllocationFailed")
              /\ UNCHANGED dPhase
           \/ /\ dPhase' = IF refused = "none" THEN OnFinishStart ELSE dPhase
              /\ \E tag \in FailureTags("FinishError", faulty) :
                    LeaveWith(IF refused = "none" THEN tag ELSE refused)
           \/ /\ refused = "none"
              /\ dPhase' = OnFinishSuccess
              /\ pc' = "finishValues"
              /\ queue' \in 0..DMaxFinish
              /\ UNCHANGED <<phase, sourceVars, visible, base, eof, inCur,
                             windowVars, outCur, buf, delivered, failed, ret>>
    /\ UNCHANGED <<ePhase, pending>>

\* The loop of drain_decoder_finish.
FinishValue ==
    /\ pc = "finishValues"
    /\ \/ /\ queue = 0
          /\ pc' = "finishEncoder"
          /\ UNCHANGED <<phase, pending, sourceVars, visible, base, eof, inCur,
                         windowVars, outCur, queue, buf, delivered, failed, ret>>
       \/ /\ queue > 0
          /\ \E o \in EncodeOne(mark, AvailableOutput) :
                \/ /\ Accept(Value("finish", 0), o)
                   /\ queue' = queue - 1
                   /\ UNCHANGED <<phase, sourceVars, visible, base, pc, eof, inCur,
                                  windowVars, delivered, failed, ret>>
                \/ Aborts(Value("finish", 0), o)
    /\ UNCHANGED <<dPhase, ePhase>>

\* encode_engine.finish, and the commit of the converter's own guard.
FinishEncoder ==
    /\ pc = "finishEncoder"
    /\ LET refused == IF OnFinishFailure(ePhase) # "none"
                      THEN OnFinishFailure(ePhase)
                      ELSE CapacityFailure(outLen, outCur, EMaxFinish)
       IN  \/ /\ ePhase' = IF refused = "none" THEN OnFinishStart ELSE ePhase
              /\ \E tag \in FailureTags("FinishError", LyingTarget) :
                    LeaveWith(IF refused = "none" THEN tag ELSE refused)
           \/ /\ refused = "none"
              /\ ePhase' = OnFinishSuccess
              /\ phase' = OnFinishSuccess
              /\ \E written \in 0..EMaxFinish :
                    ret' = Wrote("FinishOk", outCur + written - outStart)
              /\ Leave
              /\ UNCHANGED <<sourceVars, visible, base, inCur, failed>>
    /\ UNCHANGED <<dPhase, pending>>

Finish ==
    \/ \E w \in Windows : FinishRefused(w) \/ FinishBegin(w)
    \/ FinishDrain \/ FinishDecoder \/ FinishValue \/ FinishEncoder

----------------------------------------------------------------------------
\* The methods of Transcoder; CodecTranscodeConverter forwards each of them.
Transcoder == Reset \/ Transcode \/ Loop \/ Finish

Next == Arrive \/ Transcoder

Spec == Init /\ [][Next]_vars

=============================================================================
