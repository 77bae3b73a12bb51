---------------------------- MODULE DecodeInput ----------------------------
(* TranscodeDecodeInput (transcode/io/transcode_decode_input.rs): the      *)
(* blocking decode bridge, in steps, batches, single values and raw reads. *)
EXTENDS DecodeBridge

VARIABLES
    eofRetry,    \* eof_retry_pending
    pc,          \* "idle", or the place in the batch transcode
    call,        \* output_index, count and written_total of the batch call,
                 \* and the units a refill has to reach
    out,         \* the count slots of the running call
    lost         \* a failed batch call had written values it did not report

adapterVars == <<bufferVars, eofRetry>>
callVars == <<pc, call, out>>
resultVars == <<got, lost>>
vars == <<sourceVars, adapterVars, decoderVars, callVars, resultVars, ret>>

NoCall == [index |-> 0, count |-> 0, written |-> 0, need |-> 0]

Tags == {"none", "ResetOk", "FinishOk", "Filled", "EndOfInput", "BatchOk",
         "RawOk", "ValueOk", "Panic"} \cup ProgressTags \cup IoFailures

\* Mutant: the flag goes only when the refill succeeded.
FillUntilFlagOnSuccess(f) == eofRetry' = (eofRetry /\ f.res # "more")

\* fill_until of the adapter clears the flag whenever units came.
FillUntilFlag(f) == eofRetry' = (eofRetry /\ f.k = 0)

\* fill_more of the adapter clears it after Ok(true).
FillMoreFlag(f) == eofRetry' = (eofRetry /\ (f = NoFetch \/ f.res # "more"))

----------------------------------------------------------------------------
Init ==
    /\ BridgeInit
    /\ eofRetry = FALSE
    /\ pc = "idle"
    /\ call = NoCall
    /\ out = <<>>
    /\ lost = FALSE

Arrive == SourceGrows /\ UNCHANGED <<eofRetry, callVars, lost>>

\* eof_retry_pending is out of reach of the &self of reset and finish.
Reset ==
    /\ pc = "idle"
    /\ ResetBody
    /\ lost' = (lost /\ ret'.tag # "ResetOk")
    /\ UNCHANGED <<sourceVars, adapterVars, callVars>>

Finish ==
    /\ pc = "idle"
    /\ FinishBody
    /\ UNCHANGED <<sourceVars, adapterVars, callVars, lost>>

----------------------------------------------------------------------------
(* transcode_step and transcode_eof_step.                                  *)

TranscodeStep ==
    /\ pc = "idle"
    /\ decSt # "stale"
    /\ \E r \in Ranges :
          \/ StepTrivial(r) /\ UNCHANGED eofRetry
          \/ /\ ~BadRange(r) /\ r[2] > 0
             /\ \E f \in StepFetches :
                   /\ Fetch(f)
                   /\ FillMoreFlag(f)
                   /\ StepStarves(f) \/ StepDecodes(f, r)
             /\ UNCHANGED cap
    /\ UNCHANGED <<callVars, lost>>

EofFlag(a) == eofRetry' = (a.tag = "NeedOutput")

\* The caller has established the end of input.
TranscodeEofStep ==
    /\ pc = "idle"
    /\ decSt # "stale"
    /\ eofSeen
    /\ \E r \in Ranges :
          \/ StepTrivial(r) /\ UNCHANGED eofRetry
          \/ /\ ~BadRange(r) /\ r[2] > 0
             /\ \/ /\ DecodeFails(NoFetch, Unread, r[1], r[2], TRUE)
                   /\ UNCHANGED <<eofRetry, got>>
                \/ \E a \in Answers(Unread, r[2], TRUE) :
                      /\ DecodeAccepts(a, Unread, r[1], r[2], TRUE)
                      /\ EofFlag(a)
                      /\ StepDone(a)
             /\ UNCHANGED <<sourceVars, cap>>
    /\ UNCHANGED <<callVars, lost>>

----------------------------------------------------------------------------
(* transcode: the batch call.                                              *)

LeaveBatch ==
    /\ pc' = "idle"
    /\ call' = NoCall
    /\ out' = <<>>

\* Ok(written_total), with the slots o of the output.
BatchReturns(written, o) ==
    /\ ret' = Wrote("BatchOk", written)
    /\ got' = got \o SubSeq(o, 1, written)
    /\ LeaveBatch
    /\ UNCHANGED lost

\* Err: whatever earlier iterations wrote is not reported.
BatchFails ==
    /\ lost' = (lost \/ call.written > 0)
    /\ LeaveBatch
    /\ UNCHANGED got

\* The slots after the decoder wrote from written_total on.
Slots(a) ==
    [s \in 1..call.count |->
        IF s \in (call.written + 1)..(call.written + a.written)
        THEN made - held + s - call.written ELSE out[s]]

Remaining == call.count - call.written

BatchEmpty(r) ==
    /\ \/ BadRange(r) /\ ret' = Return("InvalidInput")
       \/ ~BadRange(r) /\ r[2] = 0 /\ ret' = Wrote("BatchOk", 0)
    /\ UNCHANGED <<sourceVars, adapterVars, decoderVars, callVars, resultVars>>

\* An end of input that ran out of output is resumed before anything is read.
BatchResumes(r) ==
    /\ eofRetry
    /\ \/ /\ DecodeFails(NoFetch, Unread, r[1], r[2], TRUE)
          /\ UNCHANGED <<eofRetry, resultVars>>
       \/ \E a \in Answers(Unread, r[2], TRUE) :
             /\ DecodeAccepts(a, Unread, r[1], r[2], TRUE)
             /\ EofFlag(a)
             /\ ret' = Wrote("BatchOk", a.written)
             /\ got' = got \o Values(a)
             /\ UNCHANGED lost
    /\ UNCHANGED <<sourceVars, cap, callVars>>

BatchStarts(r) ==
    /\ ~eofRetry
    /\ pc' = "loop"
    /\ call' = [index |-> r[1], count |-> r[2], written |-> 0, need |-> 0]
    /\ out' = [s \in 1..r[2] |-> 0]
    /\ ret' = Return("none")
    /\ UNCHANGED <<sourceVars, adapterVars, decoderVars, resultVars>>

Transcode ==
    /\ pc = "idle"
    /\ decSt # "stale"
    /\ \E r \in Ranges :
          \/ BatchEmpty(r)
          \/ ~BadRange(r) /\ r[2] > 0 /\ (BatchResumes(r) \/ BatchStarts(r))

\* Mutant: an empty buffer at the end of input ends the batch.
LoopFillsReturnsAtEnd ==
    /\ pc = "loop"
    /\ Unread = 0
    /\ \E f \in FillMore(0, cap, Waiting) :
          /\ Fetch(f)
          /\ FillMoreFlag(f)
          /\ DecoderWaits(f)
          /\ \/ f.res = "more" /\ UNCHANGED <<callVars, resultVars, ret>>
             \/ f.res = "end" /\ BatchReturns(call.written, out)
             \/ f.res = "error" /\ ret' = Return("IoError") /\ BatchFails
    /\ UNCHANGED <<consumed, cap>>

\* The top of the loop with an empty buffer.
LoopFills ==
    /\ pc = "loop"
    /\ Unread = 0
    /\ \E f \in FillMore(0, cap, Waiting) :
          /\ Fetch(f)
          /\ FillMoreFlag(f)
          /\ DecoderWaits(f)
          /\ \/ f.res = "more" /\ UNCHANGED <<callVars, resultVars, ret>>
             \/ f.res = "end" /\ pc' = "eof" /\ UNCHANGED <<call, out, resultVars, ret>>
             \/ f.res = "error" /\ ret' = Return("IoError") /\ BatchFails
    /\ UNCHANGED <<consumed, cap>>

\* written_total == count comes before the status is looked at.
LoopContinues(a) ==
    /\ call.written + a.written < call.count
    /\ a.tag # "NeedOutput"
    /\ pc' = IF a.tag = "NeedInput" THEN "refill" ELSE "loop"
    /\ call' = [call EXCEPT !.written = @ + a.written, !.need = a.required]
    /\ out' = Slots(a)
    /\ UNCHANGED <<resultVars, ret>>

LoopReturns(a) ==
    /\ call.written + a.written = call.count \/ a.tag = "NeedOutput"
    /\ BatchReturns(call.written + a.written, Slots(a))

LoopDecodes ==
    /\ pc = "loop"
    /\ Unread > 0
    /\ \/ DecodeFails(NoFetch, Unread, call.index + call.written, Remaining, FALSE)
          /\ BatchFails
       \/ \E a \in Answers(Unread, Remaining, FALSE) :
             /\ DecodeAccepts(a, Unread, call.index + call.written, Remaining, FALSE)
             /\ LoopContinues(a) \/ LoopReturns(a)
    /\ UNCHANGED <<sourceVars, cap, eofRetry>>

\* NeedInput: fill_until(required), growing the buffer first.
LoopRefills ==
    /\ pc = "refill"
    /\ \/ /\ AllocationFails(call.need)
          /\ ret' = Return("OutOfMemory")
          /\ BatchFails
          /\ UNCHANGED <<sourceVars, adapterVars, decoderVars>>
       \/ /\ cap' = Grown(call.need)
          /\ \E f \in FillUntil(Unread, Grown(call.need), Waiting, call.need) :
                /\ Fetch(f)
                /\ FillUntilFlag(f)
                /\ DecoderWaits(f)
                /\ \/ f.res = "more" /\ pc' = "loop" /\ UNCHANGED <<call, out, resultVars, ret>>
                   \/ f.res = "end" /\ pc' = "eof" /\ UNCHANGED <<call, out, resultVars, ret>>
                   \/ f.res = "error" /\ ret' = Return("IoError") /\ BatchFails
          /\ UNCHANGED consumed

\* transcode_eof_step on what is left of the range.
LoopEnds ==
    /\ pc = "eof"
    /\ \/ /\ DecodeFails(NoFetch, Unread, call.index + call.written, Remaining, TRUE)
          /\ BatchFails
          /\ UNCHANGED eofRetry
       \/ \E a \in Answers(Unread, Remaining, TRUE) :
             /\ DecodeAccepts(a, Unread, call.index + call.written, Remaining, TRUE)
             /\ EofFlag(a)
             /\ BatchReturns(call.written + a.written, Slots(a))
    /\ UNCHANGED <<sourceVars, cap>>

----------------------------------------------------------------------------
(* The operations that go past the decoder.                                *)

FillUntilCall ==
    /\ pc = "idle"
    /\ \E count \in 0..MaxNeed :
          \/ /\ AllocationFails(count)
             /\ ret' = Return("OutOfMemory")
             /\ UNCHANGED <<sourceVars, adapterVars, decoderVars>>
          \/ /\ cap' = Grown(count)
             /\ \E f \in FillUntil(Unread, Grown(count), Waiting, count) :
                   /\ Fetch(f)
                   /\ FillUntilFlag(f)
                   /\ DecoderWaits(f)
                   /\ Refilled(f)
             /\ UNCHANGED consumed
    /\ UNCHANGED <<callVars, resultVars>>

Consume ==
    /\ pc = "idle"
    /\ ConsumeBody
    /\ UNCHANGED <<sourceVars, cap, eofRetry, callVars, resultVars>>

\* read_unchecked and Read::read: buffered units, or else the source.
RawRead ==
    /\ pc = "idle"
    /\ eofRetry' = FALSE
    /\ DecoderPassedBy
    /\ \/ /\ \E k \in 1..Unread : consumed' = consumed + k
          /\ ret' = Return("RawOk")
          /\ UNCHANGED <<sourceVars, cap>>
       \/ /\ Unread = 0
          /\ \E f \in FillMore(0, cap, Waiting) :
                /\ Fetch(f)
                /\ \E k \in 0..f.k : /\ (k = 0) = (f.k = 0)
                                     /\ consumed' = consumed + k
                /\ ret' = Return(IF f.res = "error" THEN "IoError" ELSE "RawOk")
          /\ UNCHANGED cap
    /\ UNCHANGED <<callVars, resultVars>>

\* seek: the buffer is dropped; a failed seek keeps the flag.
Seek ==
    /\ pc = "idle"
    /\ \/ /\ \E p \in 0..arrived : fetched' = p /\ consumed' = p
          /\ eofSeen' = FALSE
          /\ eofRetry' = FALSE
          /\ DecoderPassedBy
          /\ ret' = Return("RawOk")
       \/ /\ IoErrors
          /\ ret' = Return("IoError")
          /\ UNCHANGED <<fetched, eofSeen, consumed, eofRetry, decoderVars>>
    /\ UNCHANGED <<arrived, cap, callVars, resultVars>>

\* read_decoded_with and its variants, seen from the stream: too little
\* scratch is refused, otherwise units go to a codec of the caller's.
ReadDecoded ==
    /\ pc = "idle"
    /\ \/ /\ ret' = Return("InvalidInput")
          /\ UNCHANGED <<sourceVars, adapterVars, decoderVars>>
       \/ \E count \in 1..MaxNeed :
             /\ eofRetry' = FALSE
             /\ cap' = Grown(count)
             /\ DecoderPassedBy
             /\ \E f \in FillUntil(Unread, Grown(count), Waiting, count) :
                   /\ Fetch(f)
                   /\ \E k \in 0..(Unread + f.k) : consumed' = consumed + k
             /\ ret' = Return("ValueOk")
    /\ UNCHANGED <<callVars, resultVars>>

----------------------------------------------------------------------------
\* One disjunct per operation and per place in the batch loop.
Next ==
    \/ Arrive
    \/ Reset
    \/ Finish
    \/ TranscodeStep
    \/ TranscodeEofStep
    \/ Transcode
    \/ LoopFills
    \/ LoopDecodes
    \/ LoopRefills
    \/ LoopEnds
    \/ FillUntilCall
    \/ Consume
    \/ RawRead
    \/ Seek
    \/ ReadDecoded

Spec == Init /\ [][Next]_vars

=============================================================================
