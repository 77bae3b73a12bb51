---------------------------- MODULE EncodeEngine ----------------------------
(* TranscodeEncodeEngine (transcode/engine/transcode_encode_engine.rs)     *)
(* driven by a caller that owns the buffers. The caller encodes the values *)
(* source[1], source[2], ... and has consumed base of them; each call sees *)
(* a prefix of them and some output window. reset and finish are one step  *)
(* each, as in DecodeEngine.                                               *)
EXTENDS EncodeStep, TranscodeContract, Lifecycle, Sequences

CONSTANTS SourceLen,     \* values to encode
          Windows,       \* <<output_index, output.len()>> a caller may pass
          MaxReset,      \* Codec::MAX_ENCODE_RESET_UNITS
          MaxFinish,     \* Codec::MAX_ENCODE_FINISH_UNITS
          HookBounds     \* what hooks.max_finish_output_len may return

ASSUME EncodeEngineAssumption ==
    /\ SourceLen \in Nat
    /\ Windows \subseteq Nat \X Nat
    /\ SourceLen <= UsizeMax /\ \A w \in Windows : w[2] <= UsizeMax
    /\ MaxReset \in Nat
    /\ MaxFinish \in Nat
    /\ HookBounds \subseteq Nat

VARIABLES
    phase,       \* LifecycleGuard
    codec,       \* encode-side state of the codec, seen from its lifecycle
    hooks,       \* state of the hooks, seen from their lifecycle
    source,      \* the values to encode
    base,        \* values the caller has consumed, input_index of a call
    pc,          \* "idle", or "loop" inside transcode
    inLen,       \* input.len() of the running call
    inCur,       \* EncodeState's input cursor
    outStart,    \* output_index of the running call
    outLen,      \* output.len() of the running call
    outCur,      \* EncodeState's output cursor
    buf,         \* encodings the running call has written
    delivered,   \* encodings returned to the caller since the last reset
    asked,       \* per value, how often its hook was asked since the reset
    failed,      \* a transcode call since the last reset returned an error
    ret          \* what the last call returned

engineVars == <<phase, codec, hooks>>
callVars == <<pc, inLen, inCur, outStart, outLen, outCur, buf>>
vars == <<engineVars, source, base, callVars, delivered, asked, failed, ret>>

UserStates == {"new", "open", "closed", "broken"}

\* What the output holds: len units written for value at (0: not for a value).
Chunk(sub, at, len) == [sub |-> sub, at |-> at, len |-> len]

Chunks == [sub : {"value", "reset", "finish"}, at : Nat, len : Nat]

Tags == {"none", "ResetOk", "FinishOk", "ResetError", "FinishError",
         "HookFinishError", "EncodeError", "Panic"}
        \cup ProgressTags \cup CapacityFailures \cup IndexFailures
        \cup LifecycleFailures

Returns == [tag : Tags, required : Nat, read : Nat, written : Nat]

----------------------------------------------------------------------------
(* EncodeState and TranscodeState: the cursors of the running call.        *)

HasInput == inCur < inLen

\* Codec and hooks keep their contracts.
HonestTarget == \A i \in 1..SourceLen : ~Lies(source[i])

AvailableOutput == IF outLen > outCur THEN outLen - outCur ELSE 0

\* Mutant: one unit per value.
MaxTranscodeOutputLenOneEach(n) == n

\* max_transcode_output_len of TranscodeEncodeHooks: checked_mul.
MaxTranscodeOutputLen(n) == CheckedMul(n, MaxEncode)

\* max_finish_output_len: the codec's bound and the hooks', checked_add.
MaxFinishOutputLen(hookBound) == CheckedAdd(MaxFinish, hookBound)

----------------------------------------------------------------------------
Init ==
    /\ phase = NewGuard
    /\ codec = "new"
    /\ hooks = "new"
    /\ source \in [1..SourceLen -> Targets]
    /\ base = 0
    /\ pc = "idle"
    /\ inLen = 0
    /\ inCur = 0
    /\ outStart = 0
    /\ outLen = 0
    /\ outCur = 0
    /\ buf = <<>>
    /\ delivered = <<>>
    /\ asked = [i \in 1..SourceLen |-> 0]
    /\ failed = FALSE
    /\ ret = Return("none")

----------------------------------------------------------------------------
(* reset(output, output_index)                                             *)

ResetRefused(w) ==
    /\ CapacityFailure(w[2], w[1], MaxReset) # "none"
    /\ ret' = Return(CapacityFailure(w[2], w[1], MaxReset))
    /\ UNCHANGED <<engineVars, base, inCur, delivered, asked, failed>>

\* reset_hooks has run; encode_reset returned an error, or broke its bound.
ResetFails ==
    /\ phase' = OnResetStart
    /\ hooks' = "open"
    /\ codec' = "broken"
    /\ \/ ret' = Return("ResetError")
       \/ ~HonestTarget /\ ret' = Return("Panic")
    /\ UNCHANGED <<base, inCur, delivered, asked, failed>>

ResetSucceeds(written) ==
    /\ phase' = OnResetSuccess
    /\ hooks' = "open"
    /\ codec' = "open"
    /\ ret' = Wrote("ResetOk", written)
    /\ base' = 0
    /\ inCur' = 0
    /\ delivered' = <<Chunk("reset", 0, written)>>
    /\ asked' = [i \in 1..SourceLen |-> 0]
    /\ failed' = FALSE

Reset ==
    /\ pc = "idle"
    /\ \E w \in Windows :
          \/ ResetRefused(w)
          \/ /\ CapacityFailure(w[2], w[1], MaxReset) = "none"
             /\ \/ ResetFails
                \/ \E written \in 0..MaxReset : ResetSucceeds(written)
    /\ UNCHANGED <<source, pc, inLen, outStart, outLen, outCur, buf>>

----------------------------------------------------------------------------
(* transcode(input, input_index, output, output_index), and transcode_eof, *)
(* which is the default of the Transcoder trait: its index check comes     *)
(* before the lifecycle check of the transcode it calls.                   *)

BeginRefused ==
    /\ OnTranscodeFailure(phase) # "none"
    /\ ret' = Return(OnTranscodeFailure(phase))
    /\ UNCHANGED <<engineVars, callVars>>

BeginBadIndex(n, w) ==
    /\ OnTranscodeFailure(phase) = "none"
    /\ IndexFailure(n, base, w[2], w[1]) # "none"
    /\ phase' = OnTranscode(phase)
    /\ ret' = Return(IndexFailure(n, base, w[2], w[1]))
    /\ UNCHANGED <<codec, hooks, callVars>>

BeginLoop(n, w) ==
    /\ OnTranscodeFailure(phase) = "none"
    /\ IndexFailure(n, base, w[2], w[1]) = "none"
    /\ phase' = OnTranscode(phase)
    /\ pc' = "loop"
    /\ inLen' = n
    /\ inCur' = base
    /\ outStart' = w[1]
    /\ outLen' = w[2]
    /\ outCur' = w[1]
    /\ buf' = <<>>
    /\ ret' = Return("none")
    /\ UNCHANGED <<codec, hooks>>

\* transcode_eof refuses a bad index before it looks at the phase.
EofBadIndex(w) ==
    /\ IndexFailure(SourceLen, base, w[2], w[1]) # "none"
    /\ ret' = Return(IndexFailure(SourceLen, base, w[2], w[1]))
    /\ UNCHANGED <<engineVars, callVars>>

EofGoesOn(w) ==
    /\ IndexFailure(SourceLen, base, w[2], w[1]) = "none"
    /\ BeginRefused \/ BeginLoop(SourceLen, w)

\* n values are visible: fewer than base is an input index past the slice.
Begin(n, w) == BeginRefused \/ BeginBadIndex(n, w) \/ BeginLoop(n, w)

Transcode ==
    /\ pc = "idle"
    /\ ~failed
    /\ \E w \in Windows : \/ \E n \in 0..SourceLen : Begin(n, w)
                          \/ EofBadIndex(w)
                          \/ EofGoesOn(w)
    /\ UNCHANGED <<source, base, delivered, asked, failed>>

----------------------------------------------------------------------------
(* The while loop of transcode.                                            *)

LeaveLoop ==
    /\ pc' = "idle"
    /\ inLen' = 0
    /\ outStart' = 0
    /\ outLen' = 0
    /\ outCur' = 0
    /\ buf' = <<>>
    /\ delivered' = delivered \o buf
    /\ UNCHANGED <<engineVars, source, inCur>>

\* return Ok(progress): the caller advances by read.
StopWith(tag, required) ==
    /\ ret' = Progress(tag, required, inCur - base, outCur - outStart)
    /\ base' = inCur
    /\ LeaveLoop
    /\ UNCHANGED failed

\* return Err or unwind: the caller gets no progress.
StopFailed(tag) ==
    /\ ret' = Return(tag)
    /\ failed' = TRUE
    /\ LeaveLoop
    /\ UNCHANGED base

StopComplete ==
    /\ pc = "loop"
    /\ ~HasInput
    /\ StopWith("Complete", 0)
    /\ UNCHANGED asked

Current == source[inCur + 1]

\* The assertions of accept_written_value and apply_encode_outcome.
OutcomeFits(o) ==
    /\ o.kind = "Consumed" => o.n <= AvailableOutput
    /\ o.kind = "NeedOutput" => o.n > AvailableOutput

\* Mutant: a value that writes nothing is not counted as consumed.
AcceptConsumedIfWritten(o) ==
    /\ o.kind = "Consumed"
    /\ inCur' = inCur + (IF o.n > 0 THEN 1 ELSE 0)
    /\ outCur' = outCur + o.n
    /\ buf' = IF o.n > 0 THEN Append(buf, Chunk("value", inCur + 1, o.n)) ELSE buf
    /\ UNCHANGED <<engineVars, source, base, pc, inLen, outStart, outLen,
                   delivered, failed, ret>>

\* Mutant: the input advances by what the value wrote.
AcceptConsumedByUnits(o) ==
    /\ o.kind = "Consumed"
    /\ inCur' = inCur + o.n
    /\ outCur' = outCur + o.n
    /\ buf' = Append(buf, Chunk("value", inCur + 1, o.n))
    /\ UNCHANGED <<engineVars, source, base, pc, inLen, outStart, outLen,
                   delivered, failed, ret>>

\* accept_written_value: one value is consumed whatever it wrote.
AcceptConsumed(o) ==
    /\ o.kind = "Consumed"
    /\ inCur' = inCur + 1
    /\ outCur' = outCur + o.n
    /\ buf' = Append(buf, Chunk("value", inCur + 1, o.n))
    /\ UNCHANGED <<engineVars, source, base, pc, inLen, outStart, outLen,
                   delivered, failed, ret>>

AcceptNeedOutput(o) ==
    /\ o.kind = "NeedOutput"
    /\ StopWith("NeedOutput", o.n)

Encode ==
    /\ pc = "loop"
    /\ HasInput
    /\ asked' = IF AsksHook(Current, AvailableOutput)
                THEN [asked EXCEPT ![inCur + 1] = @ + 1]
                ELSE asked
    /\ \E o \in EncodeOne(Current, AvailableOutput) :
          \/ OutcomeFits(o) /\ AcceptConsumed(o)
          \/ OutcomeFits(o) /\ AcceptNeedOutput(o)
          \/ o.kind = "Error" /\ StopFailed("EncodeError")
          \/ (o.kind = "Panic" \/ ~OutcomeFits(o)) /\ StopFailed("Panic")

----------------------------------------------------------------------------
(* finish(output, output_index)                                            *)

FinishFailure(hookBound, w) ==
    IF OnFinishFailure(phase) # "none" THEN OnFinishFailure(phase)
    ELSE PlannedCapacityFailure(w[2], w[1], MaxFinishOutputLen(hookBound))

FinishRefused(hookBound, w) ==
    /\ FinishFailure(hookBound, w) # "none"
    /\ ret' = Return(FinishFailure(hookBound, w))
    /\ UNCHANGED <<engineVars, delivered>>

FinishCodecFails ==
    /\ phase' = OnFinishStart
    /\ codec' = "broken"
    /\ \/ ret' = Return("FinishError")
       \/ ~HonestTarget /\ ret' = Return("Panic")
    /\ UNCHANGED <<hooks, delivered>>

FinishHooksFail ==
    /\ phase' = OnFinishStart
    /\ codec' = "closed"
    /\ hooks' = "broken"
    /\ \/ ret' = Return("HookFinishError")
       \/ ~HonestTarget /\ ret' = Return("Panic")
    /\ UNCHANGED delivered

FinishSucceeds(finished, written) ==
    /\ phase' = OnFinishSuccess
    /\ codec' = "closed"
    /\ hooks' = "closed"
    /\ ret' = Wrote("FinishOk", finished + written)
    /\ delivered' = Append(delivered, Chunk("finish", 0, finished + written))

Finish ==
    /\ pc = "idle"
    /\ \E hookBound \in HookBounds, w \in Windows :
          \/ FinishRefused(hookBound, w)
          \/ /\ FinishFailure(hookBound, w) = "none"
             /\ \/ FinishCodecFails
                \/ FinishHooksFail
                \/ \E finished \in 0..MaxFinish, written \in 0..hookBound :
                      FinishSucceeds(finished, written)
    /\ UNCHANGED <<source, base, callVars, asked, failed>>

----------------------------------------------------------------------------
\* The methods of Transcoder; CodecTranscodeEncoder forwards each of them.
Transcoder == Reset \/ Transcode \/ StopComplete \/ Encode \/ Finish

Next == Transcoder

Spec == Init /\ [][Next]_vars

=============================================================================
