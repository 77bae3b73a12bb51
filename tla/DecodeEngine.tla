---------------------------- MODULE DecodeEngine ----------------------------
(* TranscodeDecodeEngine (transcode/engine/transcode_decode_engine.rs)     *)
(* driven by a caller that owns the buffers.                               *)
(*                                                                         *)
(* The caller holds a source stream of StreamLen units of which the first  *)
(* visible have arrived, and has consumed base of them. A transcode call   *)
(* gets the visible prefix as its input slice, base as its input index and *)
(* some output window; the while loop of transcode_with_eof then takes one *)
(* step per iteration, and the return adds what the call wrote to          *)
(* delivered. reset and finish are one step each: nothing of the engine    *)
(* runs between their calls into codec and hooks, and each of their error  *)
(* returns is a disjunct.                                                  *)
EXTENDS DecodeStep, TranscodeContract, Lifecycle, Sequences

CONSTANTS StreamLen,     \* units of the source stream
          Tails,         \* answers of handle_incomplete_decode to choose from
          Windows,       \* <<output_index, output.len()>> a caller may pass
          BadInIndex,    \* TRUE: the caller may pass an index past its input
          MaxReset,      \* Codec::MAX_DECODE_RESET_VALUES
          MaxFinish,     \* Codec::MAX_DECODE_FINISH_VALUES
          HookBounds,    \* what hooks.max_finish_output_len may return
          Strict         \* TRUE: the hooks of the strict adapter

ASSUME DecodeEngineAssumption ==
    /\ StreamLen \in Nat
    /\ Tails \subseteq Actions
    /\ Windows \subseteq Nat \X Nat
    /\ StreamLen <= UsizeMax /\ \A w \in Windows : w[2] <= UsizeMax
    /\ BadInIndex \in BOOLEAN
    /\ MaxReset \in Nat
    /\ MaxFinish \in Nat
    /\ HookBounds \subseteq Nat
    /\ Strict \in BOOLEAN

VARIABLES
    phase,       \* LifecycleGuard
    codec,       \* decode-side state of the codec, seen from its lifecycle
    hooks,       \* state of the hooks, seen from their lifecycle
    stream,      \* the source: the item a decoder finds at each unit
    tail,        \* the hooks' answer to an incomplete tail
    visible,     \* units that have arrived, input.len() of every call
    base,        \* units the caller has consumed, input_index of a call
    pc,          \* "idle", or "loop" inside transcode_with_eof
    eof,         \* the end_of_input argument of the running call
    inCur,       \* DecodeState's input cursor
    outStart,    \* output_index of the running call
    outLen,      \* output.len() of the running call
    buf,         \* values the running call has written from outStart on
    delivered,   \* values returned to the caller since the last reset
    failed,      \* a transcode call since the last reset returned an error
    ret          \* what the last call returned

engineVars == <<phase, codec, hooks>>
callVars == <<pc, eof, inCur, outStart, outLen, buf>>
sourceVars == <<stream, tail>>
vars == <<engineVars, sourceVars, visible, base, callVars, delivered, failed, ret>>

\* Lifecycle state of the user's codec and hooks objects: "broken" after a
\* failed or abandoned reset or finish.
UserStates == {"new", "open", "closed", "broken"}

Positions == 1..StreamLen

\* A value in the output: what produced it and the unit it was decoded at.
Value(sub, at) == [sub |-> sub, at |-> at]

Values == [sub : {"value", "replacement", "tail", "reset", "finish"}, at : Nat]

\* k values written by decode_reset, decode_finish or finish_hooks.
Marks(sub, k) == [i \in 1..k |-> Value(sub, 0)]

Tags == {"none", "ResetOk", "FinishOk", "ResetError", "FinishError",
         "HookFinishError", "DecodeError", "Panic"}
        \cup ProgressTags \cup CapacityFailures \cup IndexFailures
        \cup LifecycleFailures

Returns == [tag : Tags, required : Nat, read : Nat, written : Nat]

----------------------------------------------------------------------------
(* DecodeState and TranscodeState: the cursors of the running call.        *)

OutCur == outStart + Len(buf)

HasInput == inCur < visible

NeedsOutput == OutCur = outLen

AvailableInput == visible - inCur

\* Mutant: the progress counts from the start of the slice.
ReadCountAbsolute == inCur

ReadCount == inCur - base

WrittenCount == OutCur - outStart

AvailableOutput == IF outLen > OutCur THEN outLen - OutCur ELSE 0

\* Mutant: the strict bound rounds down and forgets the short tail.
MaxTranscodeOutputLenFloor(n) ==
    IF Strict THEN n \div MinUnits ELSE n

\* max_transcode_output_len: the default of TranscodeDecodeHooks, and the one
\* of the strict adapter hooks.
MaxTranscodeOutputLen(n) ==
    IF Strict THEN (n + MinUnits - 1) \div MinUnits ELSE n

\* max_finish_output_len: the codec's bound and the hooks', checked_add.
MaxFinishOutputLen(hookBound) == CheckedAdd(MaxFinish, hookBound)

\* CodecTranscodeDecodeHooks: malformed spans and incomplete tails are errors.
StrictPolicy ==
    /\ tail = "Reject"
    /\ \A i \in Positions : stream[i].action = "Reject"

----------------------------------------------------------------------------
Init ==
    /\ phase = NewGuard
    /\ codec = "new"
    /\ hooks = "new"
    /\ stream \in [Positions -> Items]
    /\ tail \in Tails
    /\ Strict => StrictPolicy
    /\ visible = 0
    /\ base = 0
    /\ pc = "idle"
    /\ eof = FALSE
    /\ inCur = 0
    /\ outStart = 0
    /\ outLen = 0
    /\ buf = <<>>
    /\ delivered = <<>>
    /\ failed = FALSE
    /\ ret = Return("none")

\* The caller's source yields one more unit.
Arrive ==
    /\ pc = "idle"
    /\ visible < StreamLen
    /\ visible' = visible + 1
    /\ UNCHANGED <<engineVars, sourceVars, base, callVars, delivered, failed, ret>>

----------------------------------------------------------------------------
(* reset(output, output_index)                                             *)

\* The preflight refuses before anything is touched.
ResetRefused(w) ==
    /\ CapacityFailure(w[2], w[1], MaxReset) # "none"
    /\ ret' = Return(CapacityFailure(w[2], w[1], MaxReset))
    /\ UNCHANGED <<engineVars, visible, base, inCur, delivered, failed>>

\* reset_hooks has run, decode_reset returned an error.
ResetFails ==
    /\ phase' = OnResetStart
    /\ hooks' = "open"
    /\ codec' = "broken"
    /\ ret' = Return("ResetError")
    /\ UNCHANGED <<visible, base, inCur, delivered, failed>>

\* decode_reset reported more values than it declares: the assertion unwinds.
ResetPanics ==
    /\ Faulty
    /\ phase' = OnResetStart
    /\ hooks' = "open"
    /\ codec' = "broken"
    /\ ret' = Return("Panic")
    /\ UNCHANGED <<visible, base, inCur, delivered, failed>>

\* A new logical stream starts; the caller rewinds its source.
ResetSucceeds(written) ==
    /\ phase' = OnResetSuccess
    /\ hooks' = "open"
    /\ codec' = "open"
    /\ ret' = Wrote("ResetOk", written)
    /\ visible' = 0
    /\ base' = 0
    /\ inCur' = 0
    /\ delivered' = Marks("reset", written)
    /\ failed' = FALSE

Reset ==
    /\ pc = "idle"
    /\ \E w \in Windows :
          \/ ResetRefused(w)
          \/ /\ CapacityFailure(w[2], w[1], MaxReset) = "none"
             /\ \/ ResetFails
                \/ ResetPanics
                \/ \E written \in 0..MaxReset : ResetSucceeds(written)
    /\ UNCHANGED <<sourceVars, pc, eof, outStart, outLen, buf>>

----------------------------------------------------------------------------
(* transcode / transcode_eof (input, input_index, output, output_index):   *)
(* transcode_with_eof up to the loop. The lifecycle check comes first, and *)
(* an index failure leaves the phase it has moved to.                      *)

BeginRefused ==
    /\ OnTranscodeFailure(phase) # "none"
    /\ ret' = Return(OnTranscodeFailure(phase))
    /\ UNCHANGED <<engineVars, callVars>>

BeginBadIndex(inIndex, w) ==
    /\ OnTranscodeFailure(phase) = "none"
    /\ IndexFailure(visible, inIndex, w[2], w[1]) # "none"
    /\ phase' = OnTranscode(phase)
    /\ ret' = Return(IndexFailure(visible, inIndex, w[2], w[1]))
    /\ UNCHANGED <<codec, hooks, callVars>>

BeginLoop(e, w) ==
    /\ OnTranscodeFailure(phase) = "none"
    /\ IndexFailure(visible, base, w[2], w[1]) = "none"
    /\ phase' = OnTranscode(phase)
    /\ pc' = "loop"
    /\ eof' = e
    /\ inCur' = base
    /\ outStart' = w[1]
    /\ outLen' = w[2]
    /\ buf' = <<>>
    /\ ret' = Return("none")
    /\ UNCHANGED <<codec, hooks>>

\* The caller announces the end of input only once the source has ended, and
\* does not go on after an error: it learned nothing about the position.
Begin(e, w) ==
    /\ pc = "idle"
    /\ e => visible = StreamLen
    /\ ~failed
    /\ \/ BeginRefused
       \/ BadInIndex /\ BeginBadIndex(visible + 1, w)
       \/ BeginBadIndex(base, w)
       \/ BeginLoop(e, w)
    /\ UNCHANGED <<sourceVars, visible, base, delivered, failed>>

----------------------------------------------------------------------------
(* The while loop of transcode_with_eof.                                   *)

\* The call is over: its locals are gone, what it wrote is the caller's.
LeaveLoop ==
    /\ pc' = "idle"
    /\ eof' = FALSE
    /\ outStart' = 0
    /\ outLen' = 0
    /\ buf' = <<>>
    /\ delivered' = delivered \o buf
    /\ UNCHANGED <<engineVars, sourceVars, visible, inCur>>

\* return Ok(progress): the caller advances by read.
StopWith(tag, required) ==
    /\ ret' = Progress(tag, required, ReadCount, WrittenCount)
    /\ base' = inCur
    /\ LeaveLoop
    /\ UNCHANGED failed

\* return Err or unwind: the caller gets no progress.
StopFailed(tag) ==
    /\ ret' = Return(tag)
    /\ failed' = TRUE
    /\ LeaveLoop
    /\ UNCHANGED base

StopComplete ==
    /\ pc = "loop"
    /\ ~HasInput
    /\ StopWith("Complete", 0)

\* Fewer than MinUnits units and more may come: looked at before the output.
StopNeedInput ==
    /\ pc = "loop"
    /\ HasInput
    /\ AvailableInput < MinUnits
    /\ ~eof
    /\ StopWith("NeedInput", MinUnits)

\* The codec is about to be called, but no slot is free.
StopNeedOutput ==
    /\ pc = "loop"
    /\ HasInput
    /\ eof \/ AvailableInput >= MinUnits
    /\ NeedsOutput
    /\ StopWith("NeedOutput", 1)

\* The guards under which the loop reaches decode_one.
ReachesDecodeOne ==
    /\ pc = "loop"
    /\ HasInput
    /\ eof \/ AvailableInput >= MinUnits
    /\ ~NeedsOutput

\* The assertions of accept_emitted and skip, behind those of decode_one.
OutcomeFits(o) ==
    /\ o.kind \in {"Emitted", "Skipped"} => o.n <= AvailableInput
    /\ o.kind = "Emitted" => 1 <= AvailableOutput

\* apply_decode_outcome: the cursors move, or the call returns.
AcceptEmitted(o) ==
    /\ o.kind = "Emitted"
    /\ inCur' = inCur + o.n
    /\ buf' = Append(buf, Value(o.sub, inCur))
    /\ UNCHANGED <<engineVars, sourceVars, visible, base, pc, eof, outStart,
                   outLen, delivered, failed, ret>>

AcceptSkipped(o) ==
    /\ o.kind = "Skipped"
    /\ inCur' = inCur + o.n
    /\ UNCHANGED <<engineVars, sourceVars, visible, base, pc, eof, outStart,
                   outLen, buf, delivered, failed, ret>>

AcceptNeedInput(o) ==
    /\ o.kind = "NeedInput"
    /\ StopWith("NeedInput", o.n)

\* One iteration that calls decode_one. Every way out of it that is not a
\* progress leaves the phase Streaming: a data error does not poison.
Decode ==
    /\ ReachesDecodeOne
    /\ \E o \in DecodeOne(stream[inCur + 1], tail, AvailableInput, eof) :
          \/ OutcomeFits(o) /\ AcceptEmitted(o)
          \/ OutcomeFits(o) /\ AcceptSkipped(o)
          \/ AcceptNeedInput(o)
          \/ o.kind = "Error" /\ StopFailed("DecodeError")
          \/ (o.kind = "Panic" \/ ~OutcomeFits(o)) /\ StopFailed("Panic")

----------------------------------------------------------------------------
(* finish(output, output_index)                                            *)

\* on_finish_attempt, the checked sum and the capacity check, in this order.
FinishFailure(hookBound, w) ==
    IF OnFinishFailure(phase) # "none" THEN OnFinishFailure(phase)
    ELSE PlannedCapacityFailure(w[2], w[1], MaxFinishOutputLen(hookBound))

\* Mutant: the guard is poisoned before the capacity is checked.
FinishRefusedPoisons(hookBound, w) ==
    /\ FinishFailure(hookBound, w) # "none"
    /\ ret' = Return(FinishFailure(hookBound, w))
    /\ phase' = OnFinishStart
    /\ UNCHANGED <<codec, hooks, delivered>>

FinishRefused(hookBound, w) ==
    /\ FinishFailure(hookBound, w) # "none"
    /\ ret' = Return(FinishFailure(hookBound, w))
    /\ UNCHANGED <<engineVars, delivered>>

\* decode_finish returned an error (or broke its bound and the assertion
\* unwinds): the hooks have not been called.
FinishCodecFails ==
    /\ phase' = OnFinishStart
    /\ codec' = "broken"
    /\ \/ ret' = Return("FinishError")
       \/ Faulty /\ ret' = Return("Panic")
    /\ UNCHANGED <<hooks, delivered>>

\* decode_finish succeeded, finish_hooks returned an error or broke its bound.
FinishHooksFail ==
    /\ phase' = OnFinishStart
    /\ codec' = "closed"
    /\ hooks' = "broken"
    /\ \/ ret' = Return("HookFinishError")
       \/ Faulty /\ ret' = Return("Panic")
    /\ UNCHANGED delivered

FinishSucceeds(finished, written) ==
    /\ phase' = OnFinishSuccess
    /\ codec' = "closed"
    /\ hooks' = "closed"
    /\ ret' = Wrote("FinishOk", finished + written)
    /\ delivered' = delivered \o Marks("finish", finished + written)

Finish ==
    /\ pc = "idle"
    /\ \E hookBound \in HookBounds, w \in Windows :
          \/ FinishRefused(hookBound, w)
          \/ /\ FinishFailure(hookBound, w) = "none"
             /\ \/ FinishCodecFails
                \/ FinishHooksFail
                \/ \E finished \in 0..MaxFinish, written \in 0..hookBound :
                      FinishSucceeds(finished, written)
    /\ UNCHANGED <<sourceVars, visible, base, callVars, failed>>

----------------------------------------------------------------------------
Transcode == \E e \in BOOLEAN, w \in Windows : Begin(e, w)

Loop == StopComplete \/ StopNeedInput \/ StopNeedOutput \/ Decode

\* The methods of Transcoder; CodecTranscodeDecoder forwards each of them.
Transcoder == Reset \/ Transcode \/ Loop \/ Finish

Next == Arrive \/ Transcoder

Spec == Init /\ [][Next]_vars

=============================================================================
